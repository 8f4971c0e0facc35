---------------------- MODULE TelemetryProcessorProofs ----------------------
(***************************************************************************)
(* The stream processor: CommittedIsKept, AlertHasEvidence and             *)
(* DetectionIsAccounted hold for every partition, every set of workers and *)
(* any number of failures; and the behaviour baselines the processors      *)
(* learn: BaselineIsFaithful holds for any processors and events.          *)
(*                                                                         *)
(* None of them is inductive.  What a worker has already made durable is   *)
(* read off the call it is about to make (WorkerProgress), and every       *)
(* record handed out since the last commit is either kept or in the hands  *)
(* of a worker that is not idle (HandedOut); a commit needs every worker   *)
(* idle.                                                                   *)
(***************************************************************************)
EXTENDS TelemetryProcessor, Ueba, FiniteSetTheorems, SequenceTheorems, TLAPS

Busy(w) == at[w] # "idle"

\* The calls that follow the insertion or the discovery of the event.
AfterInsert == {"entity", "entity_duplicate", "detect", "finding", "alert", "audit"}
AfterEntity == {"detect", "finding", "alert", "audit"}

\* What a worker's position says about the stores.
WorkerProgress ==
    \A w \in Workers :
        /\ Busy(w) => rec[w] \in Records
        /\ at[w] = "raw" => Kind[rec[w]] # "tampered"
        /\ at[w] = "dlq" => (Kind[rec[w]] = "tampered" \/ rec[w] \in raw)
        /\ at[w] \in PipelineCalls => (Kind[rec[w]] = "good" /\ rec[w] \in raw)
        /\ at[w] \in AfterInsert => Event(w) \in events
        /\ at[w] \in AfterEntity => Event(w) \in entities
        /\ at[w] \in {"alert", "audit"} => findings[Event(w)] > 0
        /\ at[w] = "audit" => Event(w) \in alerted

\* A record handed out since the last commit is kept or in a worker's hands.
HandedOut ==
    \A r \in (committed + 1)..(next - 1) :
        Kept(r) \/ \E w \in Workers : rec[w] = r /\ Busy(w)

Offsets == committed + 1 <= next /\ next <= pollTo + 1

ProcessorInv ==
    /\ TelemetryTypeOK /\ Offsets /\ WorkerProgress /\ HandedOut
    /\ CommittedIsKept /\ AlertHasEvidence

\* Nothing has been polled or stored at the start.
LEMMA ProcessorInit == TelemetryInit => ProcessorInv
<1> SUFFICES ASSUME TelemetryInit PROVE ProcessorInv
  OBVIOUS
<1>1. TelemetryTypeOK
  <2>1. failed \in BOOLEAN
    BY DEF TelemetryInit
  <2>2. at \in [Workers -> Calls] /\ rec \in [Workers -> 0..NRecords]
    BY ProcessorAssumption DEF TelemetryInit, Calls
  <2>3. findings \in [EventIds -> Nat] /\ audits \in [EventIds -> Nat]
    BY DEF TelemetryInit
  <2> QED
    BY <2>1, <2>2, <2>3, ProcessorAssumption DEF TelemetryInit, TelemetryTypeOK
<1>2. Offsets /\ HandedOut /\ CommittedIsKept
  BY <1>1 DEF TelemetryInit, Offsets, HandedOut, CommittedIsKept, TelemetryTypeOK
<1>3. WorkerProgress
  BY DEF TelemetryInit, WorkerProgress, Busy, PipelineCalls, AfterInsert, AfterEntity
<1>4. AlertHasEvidence
  BY DEF TelemetryInit, AlertHasEvidence
<1> QED
  BY <1>1, <1>2, <1>3, <1>4 DEF ProcessorInv

\* The stores only grow, so what is kept stays kept.
StoreGrows ==
    raw \subseteq raw' /\ dlq \subseteq dlq' /\ events \subseteq events'

\* A record that is kept stays kept, as the stores only grow.
LEMMA KeptStays ==
  ASSUME StoreGrows, NEW r, Kept(r) PROVE Kept(r)'
BY DEF StoreGrows, Kept

\* A poll, a commit, a restart and a stop leave the stores and the records in
\* hand alone, or put every worker to rest.
LEMMA StreamSteps ==
  ASSUME ProcessorInv,
         PollFetches \/ CommitRecords \/ Restart \/ ProcessorCrash
  PROVE  ProcessorInv'
<1> USE ProcessorAssumption
<1>0. UNCHANGED store
  BY DEF PollFetches, CommitRecords, Restart, ProcessorCrash
<1>a. TelemetryTypeOK /\ Offsets /\ WorkerProgress /\ HandedOut /\ CommittedIsKept /\ AlertHasEvidence
  BY DEF ProcessorInv
<1>b. \A r : Kept(r)' <=> Kept(r)
  BY <1>0 DEF Kept, store
<1>c. AlertHasEvidence'
  BY <1>0, <1>a DEF AlertHasEvidence, store
<1>1. CASE PollFetches
  <2>1. TelemetryTypeOK' /\ Offsets'
    <3>1. PICK p \in (committed + 1)..NRecords : pollTo' = p
      BY <1>1 DEF PollFetches
    <3>2. committed' = committed /\ next' = committed + 1
      BY <1>1 DEF PollFetches
    <3>3. committed \in 0..NRecords
      BY <1>a DEF TelemetryTypeOK
    <3>4. committed + 1 <= p + 1 /\ p \in committed..NRecords
          /\ committed + 1 \in 1..(NRecords + 1)
      BY <3>1, <3>3
    <3>5. Offsets'
      BY <3>1, <3>2, <3>3, <3>4 DEF Offsets
    <3> QED
      BY <3>1, <3>2, <3>3, <3>4, <3>5, <1>1, <1>a DEF PollFetches, TelemetryTypeOK, store
  <2>2. WorkerProgress'
    BY <1>1, <1>a DEF PollFetches, WorkerProgress, Busy, AllIdle, Event, store,
       PipelineCalls, AfterInsert, AfterEntity
  <2>3. HandedOut' /\ CommittedIsKept'
    <3>1. committed' = committed /\ next' = committed + 1
      BY <1>1 DEF PollFetches
    <3> QED
      BY <3>1, <1>b, <1>a DEF HandedOut, CommittedIsKept, TelemetryTypeOK
  <2> QED
    BY <2>1, <2>2, <2>3, <1>c DEF ProcessorInv
<1>2. CASE CommitRecords
  <2>1. TelemetryTypeOK' /\ Offsets'
    BY <1>2, <1>a DEF CommitRecords, TelemetryTypeOK, Offsets, store
  <2>2. WorkerProgress'
    BY <1>2, <1>a DEF CommitRecords, WorkerProgress, Busy, AllIdle, Event, store,
       PipelineCalls, AfterInsert, AfterEntity
  <2>3. \A r \in (committed + 1)..(next - 1) : Kept(r)
    BY <1>2, <1>a DEF CommitRecords, AllIdle, HandedOut, Busy
  <2>4. next = pollTo + 1
    BY <1>2, <1>a DEF CommitRecords, Offsets, TelemetryTypeOK
  <2>5. CommittedIsKept'
    <3>1. committed' = pollTo
      BY <1>2 DEF CommitRecords
    <3>2. \A r \in 1..pollTo : Kept(r)
      BY <2>3, <2>4, <1>a DEF CommittedIsKept, TelemetryTypeOK
    <3> QED
      BY <3>1, <3>2, <1>b DEF CommittedIsKept
  <2>6. HandedOut'
    BY <1>2, <2>4, <1>a DEF HandedOut, CommitRecords, TelemetryTypeOK
  <2> QED
    BY <2>1, <2>2, <2>5, <2>6, <1>c DEF ProcessorInv
<1>3. CASE Restart \/ ProcessorCrash
  <2>1. Rewind /\ committed' = committed
    BY <1>3 DEF Restart, ProcessorCrash
  <2>2. TelemetryTypeOK' /\ Offsets'
    <3>1. soft' \in 0..MaxSoft /\ hard' \in 0..MaxHard
      BY <1>3, <1>a DEF Restart, ProcessorCrash, TelemetryTypeOK
    <3>2. failed' \in BOOLEAN
      BY <2>1 DEF Rewind
    <3>3. at' \in [Workers -> Calls] /\ rec' \in [Workers -> 0..NRecords]
      BY <2>1 DEF Rewind, Calls
    <3>4. committed' \in 0..NRecords /\ pollTo' \in committed'..NRecords
          /\ next' \in 1..(NRecords + 1) /\ Offsets'
      BY <2>1, <1>a DEF Rewind, TelemetryTypeOK, Offsets
    <3> QED
      BY <3>1, <3>2, <3>3, <3>4, <1>0, <1>a DEF TelemetryTypeOK, store
  <2>3. WorkerProgress'
    BY <2>1 DEF Rewind, WorkerProgress, Busy, PipelineCalls, AfterInsert, AfterEntity
  <2>4. HandedOut' /\ CommittedIsKept'
    BY <2>1, <1>b, <1>a DEF Rewind, HandedOut, CommittedIsKept, TelemetryTypeOK
  <2> QED
    BY <2>2, <2>3, <2>4, <1>c DEF ProcessorInv
<1> QED
  BY <1>1, <1>2, <1>3

\* A step of a worker on its record, or its failure, keeps the invariant
\* (Processor.process, Engine.Ingest).
LEMMA WorkerSteps ==
  ASSUME ProcessorInv, NEW w \in Workers,
         Work(w) \/ PipelineFails(w) \/ RecordFails(w) \/ CallCancelled(w)
  PROVE  ProcessorInv'
<1> USE ProcessorAssumption
<1>a. TelemetryTypeOK /\ Offsets /\ WorkerProgress /\ HandedOut /\ CommittedIsKept /\ AlertHasEvidence
  BY DEF ProcessorInv
<1>b. committed' = committed /\ pollTo' = pollTo
  BY DEF Work, TakeJob, PutRawEnvelope, LookupEvent, InsertEvent, ObserveEntityEvent,
     Detect, PutFinding, UpsertAlert, AppendAudit, PublishDeadLetter, PipelineFails,
     RecordFails, CallCancelled, stream
<1>c. StoreGrows
  BY DEF StoreGrows, Work, TakeJob, PutRawEnvelope, LookupEvent, InsertEvent,
     ObserveEntityEvent, Detect, PutFinding, UpsertAlert, AppendAudit,
     PublishDeadLetter, PipelineFails, RecordFails, CallCancelled, store
<1>d. CommittedIsKept'
  <2>1. \A r \in 1..committed : Kept(r)'
    BY <1>a, <1>c, KeptStays DEF CommittedIsKept
  <2> QED
    BY <2>1, <1>b DEF CommittedIsKept
<1>1. CASE TakeJob(w)
  <2>0. UNCHANGED store
    BY <1>1 DEF TakeJob
  <2>1. TelemetryTypeOK' /\ Offsets'
    BY <1>1, <1>a DEF TakeJob, TelemetryTypeOK, Offsets, store, Calls
  <2>2. WorkerProgress'
    <3> SUFFICES ASSUME NEW v \in Workers PROVE WorkerProgress!(v)'
      BY DEF WorkerProgress
    <3>1. CASE v = w
      BY <3>1, <1>1, <1>a DEF TakeJob, TelemetryTypeOK, Busy, PipelineCalls, AfterInsert,
         AfterEntity, Records
    <3>2. CASE v # w
      BY <3>2, <1>1, <1>a DEF TakeJob, TelemetryTypeOK, Busy, WorkerProgress, Event, store
    <3> QED
      BY <3>1, <3>2
  <2>3. HandedOut'
    <3> SUFFICES ASSUME NEW r \in ((committed + 1)..(next - 1))'
                 PROVE Kept(r)' \/ \E v \in Workers : rec'[v] = r /\ at'[v] # "idle"
      BY DEF HandedOut, Busy
    <3>1. CASE r = next
      BY <3>1, <1>1, <1>a DEF TakeJob, TelemetryTypeOK
    <3>2. CASE r # next
      <4>1. r \in (committed + 1)..(next - 1)
        BY <3>2, <1>1, <1>b, <1>a DEF TakeJob, TelemetryTypeOK
      <4>2. Kept(r) \/ \E v \in Workers : rec[v] = r /\ at[v] # "idle"
        BY <4>1, <1>a DEF HandedOut, Busy
      <4>3. ASSUME NEW v \in Workers, at[v] # "idle"
            PROVE rec'[v] = rec[v] /\ at'[v] = at[v]
        BY <4>3, <1>1, <1>a DEF TakeJob, TelemetryTypeOK
      <4> QED
        BY <4>2, <4>3, <1>c, KeptStays
    <3> QED
      BY <3>1, <3>2
  <2>4. AlertHasEvidence'
    BY <2>0, <1>a DEF AlertHasEvidence, store
  <2> QED
    BY <2>1, <2>2, <2>3, <2>4, <1>d DEF ProcessorInv
<1>2. ASSUME ~TakeJob(w) PROVE ProcessorInv'
  <2>0. rec' = rec /\ next' = next
    BY <1>2 DEF Work, PutRawEnvelope, LookupEvent, InsertEvent, ObserveEntityEvent,
       Detect, PutFinding, UpsertAlert, AppendAudit, PublishDeadLetter, PipelineFails,
       RecordFails, CallCancelled, stream
  <2>1. Busy(w) /\ rec[w] \in Records /\ Event(w) \in EventIds
    <3>1. Busy(w)
      BY <1>2 DEF Work, PutRawEnvelope, LookupEvent, InsertEvent, ObserveEntityEvent,
         Detect, PutFinding, UpsertAlert, AppendAudit, PublishDeadLetter, PipelineFails,
         RecordFails, CallCancelled, Busy, PipelineCalls
    <3> QED
      BY <3>1, <1>a DEF WorkerProgress, Event, EventIds
  <2>2. TelemetryTypeOK' /\ Offsets'
    <3>1. Offsets'
      BY <2>0, <1>b, <1>a DEF Offsets
    <3>2. at' \in [Workers -> Calls] /\ failed' \in BOOLEAN
      BY <1>2, <1>a DEF Work, PutRawEnvelope, LookupEvent, InsertEvent,
         ObserveEntityEvent, Detect, PutFinding, UpsertAlert, AppendAudit,
         PublishDeadLetter, PipelineFails, RecordFails, CallCancelled, TelemetryTypeOK, Calls,
         PipelineCalls
    <3>3. raw' \subseteq Records /\ dlq' \subseteq Records /\ events' \subseteq EventIds
          /\ entities' \subseteq EventIds /\ alerted' \subseteq EventIds
      BY <1>2, <2>1, <1>a DEF Work, PutRawEnvelope, LookupEvent, InsertEvent,
         ObserveEntityEvent, Detect, PutFinding, UpsertAlert, AppendAudit,
         PublishDeadLetter, PipelineFails, RecordFails, CallCancelled, TelemetryTypeOK, store
    <3>4. findings' \in [EventIds -> Nat] /\ audits' \in [EventIds -> Nat]
      BY <1>2, <2>1, <1>a DEF Work, PutRawEnvelope, LookupEvent, InsertEvent,
         ObserveEntityEvent, Detect, PutFinding, UpsertAlert, AppendAudit,
         PublishDeadLetter, PipelineFails, RecordFails, CallCancelled, TelemetryTypeOK, store
    <3>5. soft' \in 0..MaxSoft /\ hard' \in 0..MaxHard
      BY <1>2, <1>a DEF Work, PutRawEnvelope, LookupEvent, InsertEvent,
         ObserveEntityEvent, Detect, PutFinding, UpsertAlert, AppendAudit,
         PublishDeadLetter, PipelineFails, RecordFails, CallCancelled, TelemetryTypeOK
    <3> QED
      BY <3>1, <3>2, <3>3, <3>4, <3>5, <2>0, <1>b, <1>a DEF TelemetryTypeOK
  <2>3. \A v \in Workers : v # w => at'[v] = at[v]
    BY <1>2, <1>a DEF Work, PutRawEnvelope, LookupEvent, InsertEvent,
       ObserveEntityEvent, Detect, PutFinding, UpsertAlert, AppendAudit,
       PublishDeadLetter, PipelineFails, RecordFails, CallCancelled, TelemetryTypeOK
  <2>4. entities \subseteq entities' /\ alerted \subseteq alerted'
        /\ \A e \in EventIds : findings[e] <= findings'[e] /\ audits[e] <= audits'[e]
    BY <1>2, <2>1, <1>a DEF Work, PutRawEnvelope, LookupEvent, InsertEvent,
       ObserveEntityEvent, Detect, PutFinding, UpsertAlert, AppendAudit,
       PublishDeadLetter, PipelineFails, RecordFails, CallCancelled, TelemetryTypeOK, store
  <2>5. WorkerProgress'
    <3> SUFFICES ASSUME NEW v \in Workers PROVE WorkerProgress!(v)'
      BY DEF WorkerProgress
    <3>1. CASE v # w
      <4>1. at'[v] = at[v] /\ rec'[v] = rec[v] /\ WorkerProgress!(v)
        BY <3>1, <2>3, <2>0, <1>a DEF WorkerProgress
      <4>2. Busy(v) => Event(v) \in EventIds
        BY <4>1 DEF Event, EventIds
      <4>3. {"alert", "audit"} \subseteq PipelineCalls /\ "idle" \notin PipelineCalls
        BY DEF PipelineCalls
      <4> QED
        BY <4>1, <4>2, <4>3, <2>2, <2>4, <1>c, <1>a DEF StoreGrows, Busy, Event, TelemetryTypeOK,
           AfterInsert, AfterEntity
    <3>2. CASE v = w
      BY <3>2, <1>2, <2>0, <2>1, <1>a DEF Work, PutRawEnvelope, LookupEvent, InsertEvent,
         ObserveEntityEvent, Detect, PutFinding, UpsertAlert, AppendAudit,
         PublishDeadLetter, PipelineFails, RecordFails, CallCancelled, TelemetryTypeOK, store,
         WorkerProgress, Busy, Event, PipelineCalls, AfterInsert, AfterEntity
    <3> QED
      BY <3>1, <3>2
  <2>6. HandedOut'
    <3>1. \A r : (at'[w] = "idle" /\ rec[w] = r) => Kept(r)'
      BY <1>2, <2>1, <1>a DEF Work, PutRawEnvelope, LookupEvent, InsertEvent,
         ObserveEntityEvent, Detect, PutFinding, UpsertAlert, AppendAudit,
         PublishDeadLetter, PipelineFails, RecordFails, CallCancelled, TelemetryTypeOK, store,
         WorkerProgress, Busy, Event, PipelineCalls, AfterInsert, AfterEntity, Kept
    <3> SUFFICES ASSUME NEW r \in (committed + 1)..(next - 1)
                 PROVE Kept(r)' \/ \E v \in Workers : rec[v] = r /\ at'[v] # "idle"
      BY <2>0, <1>b DEF HandedOut, Busy
    <3>2. CASE Kept(r)
      BY <3>2, <1>c, KeptStays
    <3>3. CASE \E v \in Workers : rec[v] = r /\ Busy(v)
      BY <3>1, <3>3, <2>3 DEF Busy
    <3> QED
      BY <3>2, <3>3, <1>a DEF HandedOut
  <2>7. AlertHasEvidence'
    <3> SUFFICES ASSUME NEW e \in EventIds PROVE AlertHasEvidence!(e)'
      BY DEF AlertHasEvidence
    <3>1. AlertHasEvidence!(e) /\ findings[e] \in Nat /\ findings'[e] \in Nat
      BY <1>a, <2>2 DEF AlertHasEvidence, TelemetryTypeOK
    <3>2. (e \in alerted' /\ e \notin alerted) =>
             (at[w] = "alert" /\ e = Event(w))
      BY <1>2 DEF Work, PutRawEnvelope, LookupEvent, InsertEvent,
         ObserveEntityEvent, Detect, PutFinding, UpsertAlert, AppendAudit,
         PublishDeadLetter, PipelineFails, RecordFails, CallCancelled, store
    <3>3. (audits'[e] > 0 /\ ~(audits[e] > 0)) => (at[w] = "audit" /\ e = Event(w))
      BY <1>2, <1>a DEF Work, PutRawEnvelope, LookupEvent, InsertEvent,
         ObserveEntityEvent, Detect, PutFinding, UpsertAlert, AppendAudit,
         PublishDeadLetter, PipelineFails, RecordFails, CallCancelled, store, TelemetryTypeOK
    <3>4. (e \in alerted' /\ e \notin alerted) =>
             (e \in events /\ e \in entities /\ findings[e] > 0)
      BY <3>2, <1>a DEF WorkerProgress, AfterInsert, AfterEntity
    <3>5. (audits'[e] > 0 /\ ~(audits[e] > 0)) => e \in alerted
      BY <3>3, <1>a DEF WorkerProgress
    <3> QED
      BY <3>1, <3>4, <3>5, <2>4, <1>c DEF StoreGrows
  <2> QED
    BY <2>2, <2>5, <2>6, <2>7, <1>d DEF ProcessorInv
<1> QED
  BY <1>1, <1>2

\* Every step of the processor keeps the invariant.
LEMMA ProcessorStep == ProcessorInv /\ [TelemetryNext]_telemetryVars => ProcessorInv'
<1> SUFFICES ASSUME ProcessorInv, [TelemetryNext]_telemetryVars PROVE ProcessorInv'
  OBVIOUS
<1>1. CASE UNCHANGED telemetryVars
  BY <1>1 DEF telemetryVars, ProcessorInv, TelemetryTypeOK, Offsets, WorkerProgress, HandedOut,
     CommittedIsKept, AlertHasEvidence, Busy, Event, Kept
<1>2. CASE PollFetches \/ CommitRecords \/ Restart \/ ProcessorCrash
  BY <1>2, StreamSteps
<1>3. CASE \E w \in Workers :
             Work(w) \/ PipelineFails(w) \/ RecordFails(w) \/ CallCancelled(w)
  BY <1>3, WorkerSteps
<1> QED
  BY <1>1, <1>2, <1>3 DEF TelemetryNext, Poll, PollNothing

\* The inductive invariant of the processor holds in every reachable state.
THEOREM ProcessorInvHolds == TelemetrySpec => []ProcessorInv
BY ProcessorInit, ProcessorStep, PTL DEF TelemetrySpec

\* No record behind the committed offset is lost: Run commits a block only when
\* every worker is done with it, for any block, pool and sequence of failures.
THEOREM NothingAcknowledgedIsLost == TelemetrySpec => []CommittedIsKept
<1>1. ProcessorInv => CommittedIsKept
  BY DEF ProcessorInv
<1> QED
  BY <1>1, ProcessorInvHolds, PTL

\* Ingest writes evidence before the alert and the alert before its audit entry.
THEOREM AlertsHaveEvidence == TelemetrySpec => []AlertHasEvidence
<1>1. ProcessorInv => AlertHasEvidence
  BY DEF ProcessorInv
<1> QED
  BY <1>1, ProcessorInvHolds, PTL

-----------------------------------------------------------------------------
(* Detection.  An inserted event that matches is detected, dead-lettered or  *)
(* in the hands of a worker that has not finished detecting it; and only     *)
(* workers that have looked the event up before its insertion ever add a     *)
(* finding, one each.                                                        *)

DetectionCalls == {"entity", "detect", "finding", "alert", "audit", "dlq"}

InDetection(e) == \E w \in Workers : at[w] \in DetectionCalls /\ Event(w) = e

Resolved(e) == Detected(e) \/ DeadLettered(e)

UnlessReplayed ==
    hard = 0 => /\ ~failed
                /\ \A e \in events \cap Matching : Resolved(e) \/ InDetection(e)
                /\ DetectionComplete

\* The workers that may still add a finding of the event.
Path(e) == {w \in Workers : at[w] \in {"insert", "entity", "detect", "finding"} /\ Event(w) = e}

FindingsCounted ==
    \A e \in EventIds :
        /\ findings[e] + Cardinality(Path(e)) <= Cardinality(Workers)
        /\ e \notin events => findings[e] = 0

\* Findings, alerts, audit entries and dead letters are never withdrawn.
LEMMA ResolvedStays ==
  ASSUME ProcessorInv, [TelemetryNext]_telemetryVars, NEW e \in EventIds, Resolved(e)
  PROVE  Resolved(e)'
<1> USE ProcessorAssumption
<1>1. findings \in [EventIds -> Nat] /\ audits \in [EventIds -> Nat]
  BY DEF ProcessorInv, TelemetryTypeOK
<1> DEFINE Grows == /\ alerted \subseteq alerted' /\ dlq \subseteq dlq'
                    /\ findings[e] > 0 => findings'[e] > 0
                    /\ audits[e] > 0 => audits'[e] > 0
<1>2. Grows
  <2>1. CASE UNCHANGED store
    BY <2>1 DEF store
  <2>2. ASSUME NEW w \in Workers,
               PutRawEnvelope(w) \/ InsertEvent(w) \/ ObserveEntityEvent(w) \/ UpsertAlert(w)
                 \/ PublishDeadLetter(w)
        PROVE  Grows
    BY <2>2 DEF PutRawEnvelope, InsertEvent, ObserveEntityEvent, UpsertAlert, PublishDeadLetter
  <2>3. ASSUME NEW w \in Workers, PutFinding(w) PROVE Grows
    BY <2>3, <1>1 DEF PutFinding
  <2>4. ASSUME NEW w \in Workers, AppendAudit(w) PROVE Grows
    BY <2>4, <1>1 DEF AppendAudit
  <2>5. \/ UNCHANGED store
        \/ \E w \in Workers : \/ PutRawEnvelope(w) \/ InsertEvent(w) \/ ObserveEntityEvent(w)
                              \/ UpsertAlert(w) \/ PublishDeadLetter(w) \/ PutFinding(w)
                              \/ AppendAudit(w)
    BY DEF TelemetryNext, Poll, PollFetches, PollNothing, CommitRecords, Restart, ProcessorCrash, Work, TakeJob,
       LookupEvent, Detect, PipelineFails, RecordFails, CallCancelled, telemetryVars, store
  <2> QED
    BY <2>1, <2>2, <2>3, <2>4, <2>5
<1> QED
  BY <1>2 DEF Resolved, Detected, DeadLettered

\* Every step of a worker on a matching event leaves the event resolved or in
\* the hands of a worker that goes on with it (Ingest's error paths included).
LEMMA DetectionStep ==
  ASSUME ProcessorInv, UnlessReplayed, [TelemetryNext]_telemetryVars
  PROVE  UnlessReplayed'
<1> USE ProcessorAssumption
<1> SUFFICES ASSUME hard' = 0 PROVE UnlessReplayed'
  BY DEF UnlessReplayed
<1>a. TelemetryTypeOK /\ WorkerProgress /\ CommittedIsKept
  BY DEF ProcessorInv
<1>0. hard = 0 /\ ~ProcessorCrash /\ \A w \in Workers : ~RecordFails(w)
  <2>1. hard \in Nat
    BY <1>a DEF TelemetryTypeOK
  <2>2. ~ProcessorCrash /\ \A w \in Workers : ~RecordFails(w)
    BY <2>1 DEF ProcessorCrash, RecordFails
  <2>3. hard' = hard
    BY <2>2 DEF TelemetryNext, Poll, PollFetches, PollNothing, CommitRecords, Restart, Work, TakeJob,
       PutRawEnvelope, LookupEvent, InsertEvent, ObserveEntityEvent, Detect, PutFinding, UpsertAlert,
       AppendAudit, PublishDeadLetter, PipelineFails, CallCancelled, telemetryVars
  <2> QED
    BY <2>2, <2>3
<1>1. /\ ~failed
      /\ \A e \in events \cap Matching : Resolved(e) \/ InDetection(e)
      /\ DetectionComplete
  BY <1>0 DEF UnlessReplayed
<1>2. ~Restart /\ \A w \in Workers : ~CallCancelled(w)
  BY <1>1 DEF Restart, CallCancelled
<1>3. ~failed'
  BY <1>0, <1>1, <1>2 DEF TelemetryNext, Poll, PollFetches, PollNothing, CommitRecords, Work, TakeJob,
     PutRawEnvelope, LookupEvent, InsertEvent, ObserveEntityEvent, Detect, PutFinding, UpsertAlert,
     AppendAudit, PublishDeadLetter, PipelineFails, telemetryVars
<1>r. \A e \in EventIds : Resolved(e) => Resolved(e)'
  BY ResolvedStays
<1>m. Matching \subseteq EventIds
  OBVIOUS
<1> DEFINE Covered == \A e \in events' \cap Matching : Resolved(e)' \/ InDetection(e)'
<1>4. ASSUME events' = events, UNCHANGED <<at, rec>> PROVE Covered
  <2>1. \A e : InDetection(e) => InDetection(e)'
    BY <1>4 DEF InDetection, Event
  <2> QED
    BY <2>1, <1>1, <1>4, <1>r, <1>m
<1>5. ASSUME NEW w \in Workers,
             UNCHANGED rec,
             \A v \in Workers \ {w} : at'[v] = at[v],
             \A e \in events' \ events : e = Event(w) /\ at'[w] \in DetectionCalls,
             \A e \in Matching : (at[w] \in DetectionCalls /\ Event(w) = e)
               => (at'[w] \in DetectionCalls \/ Resolved(e)')
      PROVE  Covered
  <2> SUFFICES ASSUME NEW e \in events' \cap Matching PROVE Resolved(e)' \/ InDetection(e)'
    OBVIOUS
  <2>1. \A v \in Workers : EventOf[rec'[v]] = EventOf[rec[v]]
    BY <1>5
  <2>2. CASE e \in events
    <3>1. CASE Resolved(e)
      BY <3>1, <1>r, <1>m
    <3>2. CASE InDetection(e)
      <4>1. PICK v \in Workers : at[v] \in DetectionCalls /\ Event(v) = e
        BY <3>2 DEF InDetection
      <4>2. CASE v = w
        BY <4>1, <4>2, <2>1, <1>5 DEF InDetection, Event
      <4>3. CASE v # w
        BY <4>1, <4>3, <2>1, <1>5 DEF InDetection, Event
      <4> QED
        BY <4>2, <4>3
    <3> QED
      BY <3>1, <3>2, <2>2, <1>1
  <2>3. CASE e \notin events
    BY <2>3, <2>1, <1>5 DEF InDetection, Event
  <2> QED
    BY <2>2, <2>3
<1>6. ASSUME NEW w \in Workers, NEW c, at' = [at EXCEPT ![w] = c]
      PROVE  at'[w] = c /\ \A v \in Workers \ {w} : at'[v] = at[v]
  BY <1>6, <1>a DEF TelemetryTypeOK
<1>7. ASSUME NEW w \in Workers, TakeJob(w) PROVE Covered
  <2>1. /\ at[w] = "idle" /\ events' = events
        /\ \A v \in Workers \ {w} : at'[v] = at[v] /\ rec'[v] = rec[v]
    BY <1>7, <1>a DEF TakeJob, TelemetryTypeOK, store
  <2>2. \A e : InDetection(e) => InDetection(e)'
    BY <2>1 DEF InDetection, Event, DetectionCalls
  <2> QED
    BY <2>1, <2>2, <1>1, <1>r, <1>m
<1>8. ASSUME NEW w \in Workers, PutRawEnvelope(w) \/ LookupEvent(w) PROVE Covered
  <2>1. /\ at[w] \in {"raw", "lookup"} /\ events' = events /\ UNCHANGED rec
        /\ \A v \in Workers \ {w} : at'[v] = at[v]
    BY <1>8, <1>a DEF PutRawEnvelope, LookupEvent, TelemetryTypeOK, store
  <2> HIDE DEF Covered
  <2> QED
    BY <2>1, <1>5 DEF DetectionCalls
<1>9. ASSUME NEW w \in Workers, InsertEvent(w) PROVE Covered
  <2>1. /\ at[w] = "insert" /\ events' = events \cup {Event(w)} /\ UNCHANGED rec
        /\ \A v \in Workers \ {w} : at'[v] = at[v]
        /\ at'[w] = "entity"
    BY <1>9, <1>a DEF InsertEvent, TelemetryTypeOK
  <2> HIDE DEF Covered
  <2> QED
    BY <2>1, <1>5 DEF DetectionCalls
<1>10. ASSUME NEW w \in Workers, ObserveEntityEvent(w) \/ Detect(w) \/ PutFinding(w) \/ UpsertAlert(w)
                 \/ PipelineFails(w)
       PROVE Covered
  <2>1. /\ events' = events /\ UNCHANGED rec
        /\ \A v \in Workers \ {w} : at'[v] = at[v]
        /\ \A e \in Matching : (at[w] \in DetectionCalls /\ Event(w) = e) => at'[w] \in DetectionCalls
    BY <1>10, <1>a DEF ObserveEntityEvent, Detect, PutFinding, UpsertAlert, PipelineFails, TelemetryTypeOK, store,
       DetectionCalls
  <2> HIDE DEF Covered
  <2> QED
    BY <2>1, <1>5
<1>11. ASSUME NEW w \in Workers, AppendAudit(w) PROVE Covered
  <2>0. at[w] = "audit" /\ rec[w] \in Records /\ Event(w) \in EventIds
    BY <1>11, <1>a DEF AppendAudit, WorkerProgress, Busy, Event, EventIds
  <2>1. /\ events' = events /\ UNCHANGED rec
        /\ \A v \in Workers \ {w} : at'[v] = at[v]
        /\ findings' = findings /\ alerted' = alerted
        /\ audits' = [audits EXCEPT ![Event(w)] = @ + 1]
    BY <1>11, <1>a DEF AppendAudit, TelemetryTypeOK
  <2>2. audits'[Event(w)] > 0
    BY <2>0, <2>1, <1>a DEF TelemetryTypeOK
  <2>3. findings[Event(w)] > 0 /\ Event(w) \in alerted
    BY <2>0, <1>a DEF WorkerProgress
  <2>4. \A e \in Matching : Event(w) = e => Resolved(e)'
    BY <2>1, <2>2, <2>3 DEF Resolved, Detected
  <2> HIDE DEF Covered
  <2> QED
    BY <2>1, <2>4, <1>5
<1>12. ASSUME NEW w \in Workers, PublishDeadLetter(w) PROVE Covered
  <2>1. /\ events' = events /\ UNCHANGED rec
        /\ \A v \in Workers \ {w} : at'[v] = at[v]
        /\ rec[w] \in dlq'
    BY <1>12, <1>a DEF PublishDeadLetter, TelemetryTypeOK
  <2>2. \A e \in Matching : Event(w) = e => Resolved(e)'
    BY <2>1 DEF Resolved, DeadLettered, Event
  <2> HIDE DEF Covered
  <2> QED
    BY <2>1, <2>2, <1>5
<1>13. ASSUME PollFetches \/ PollNothing \/ CommitRecords \/ UNCHANGED telemetryVars PROVE Covered
  <2>1. events' = events /\ at' = at /\ rec' = rec
    BY <1>13 DEF PollFetches, PollNothing, CommitRecords, telemetryVars, store
  <2> HIDE DEF Covered
  <2> QED
    BY <1>4, <2>1
<1>14. Covered
  <2> HIDE DEF Covered
  <2> QED
    BY <1>0, <1>2, <1>7, <1>8, <1>9, <1>10, <1>11, <1>12, <1>13 DEF TelemetryNext, Poll, Work
<1>15. DetectionComplete'
  <2>1. ASSUME NEW r \in 1..committed, Kind[r] = "good", EventOf[r] \in Matching
        PROVE  Resolved(EventOf[r])'
    BY <2>1, <1>1, <1>r, <1>m DEF DetectionComplete, Resolved
  <2>2. CASE committed' = committed
    BY <2>1, <2>2 DEF DetectionComplete, Resolved
  <2>3. CASE CommitRecords
    <3>1. CommittedIsKept' /\ events' = events
      BY ProcessorStep, <2>3 DEF ProcessorInv, CommitRecords, store
    <3>2. \A e : ~InDetection(e)
      BY <2>3 DEF CommitRecords, AllIdle, InDetection, DetectionCalls
    <3>3. \A e \in events \cap Matching : Resolved(e)'
      BY <3>2, <1>1, <1>r, <1>m
    <3>4. ASSUME NEW r \in 1..committed', Kind[r] = "good", EventOf[r] \in Matching
          PROVE  Resolved(EventOf[r])'
      <4>1. r \in dlq' \/ EventOf[r] \in events
        BY <3>1, <3>4 DEF CommittedIsKept, Kept
      <4> QED
        BY <4>1, <3>3, <3>4 DEF Resolved, DeadLettered
    <3> QED
      BY <3>4 DEF DetectionComplete, Resolved
  <2>4. committed' = committed \/ CommitRecords
    BY <1>0, <1>2 DEF TelemetryNext, Poll, PollFetches, PollNothing, Work, TakeJob,
       PutRawEnvelope, LookupEvent, InsertEvent, ObserveEntityEvent, Detect, PutFinding, UpsertAlert,
       AppendAudit, PublishDeadLetter, PipelineFails, telemetryVars, stream
  <2> QED
    BY <2>2, <2>3, <2>4
<1> QED
  BY <1>3, <1>14, <1>15 DEF UnlessReplayed

\* Only a worker that saw no such event before its first insertion may add a
\* finding, and it leaves the path when it does (PutEvent's duplicate check).
LEMMA FindingsStep ==
  ASSUME ProcessorInv, FindingsCounted, [TelemetryNext]_telemetryVars
  PROVE  FindingsCounted'
<1> USE ProcessorAssumption
<1>a. TelemetryTypeOK /\ WorkerProgress
  BY DEF ProcessorInv
<1>f. ASSUME NEW e \in EventIds
      PROVE  findings[e] \in Nat /\ findings[e] + Cardinality(Path(e)) <= Cardinality(Workers)
             /\ (e \notin events => findings[e] = 0)
  BY <1>a DEF TelemetryTypeOK, FindingsCounted
<1>s. ASSUME NEW S, S \subseteq Workers
      PROVE  IsFiniteSet(S) /\ Cardinality(S) \in Nat /\ Cardinality(S) <= Cardinality(Workers)
  BY <1>s, FS_Subset, FS_CardinalityType
<1>w. Cardinality(Workers) \in Nat
  BY FS_CardinalityType
<1>1. ASSUME findings' = findings, events \subseteq events', \A e \in EventIds : Path(e)' \subseteq Path(e)
      PROVE  FindingsCounted'
  <2> SUFFICES ASSUME NEW e \in EventIds
               PROVE  /\ findings[e] + Cardinality(Path(e)') <= Cardinality(Workers)
                      /\ e \notin events' => findings[e] = 0
    BY <1>1 DEF FindingsCounted
  <2>1. Path(e) \subseteq Workers /\ Path(e)' \subseteq Path(e)
    BY <1>1 DEF Path
  <2>2. Cardinality(Path(e)') <= Cardinality(Path(e)) /\ Cardinality(Path(e)') \in Nat
        /\ Cardinality(Path(e)) \in Nat
    BY <2>1, <1>s, FS_Subset
  <2> QED
    BY <2>2, <1>f, <1>1, <1>w
<1>2. ASSUME NEW w \in Workers, UNCHANGED <<rec, findings>>, events \subseteq events',
             \A v \in Workers \ {w} : at'[v] = at[v],
             at'[w] \notin {"insert", "entity", "detect", "finding"}
               \/ at[w] \in {"insert", "entity", "detect", "finding"}
      PROVE  FindingsCounted'
  BY <1>1, <1>2 DEF Path, Event
<1>3. ASSUME NEW w \in Workers, NEW c, at' = [at EXCEPT ![w] = c]
      PROVE  at'[w] = c /\ \A v \in Workers \ {w} : at'[v] = at[v]
  BY <1>3, <1>a DEF TelemetryTypeOK
<1>4. ASSUME NEW w \in Workers,
             \/ PutRawEnvelope(w) \/ InsertEvent(w) \/ ObserveEntityEvent(w) \/ Detect(w)
             \/ UpsertAlert(w) \/ AppendAudit(w) \/ PublishDeadLetter(w) \/ PipelineFails(w)
             \/ RecordFails(w) \/ CallCancelled(w)
      PROVE  FindingsCounted'
  <2>1. /\ UNCHANGED <<rec, findings>> /\ events \subseteq events'
        /\ \A v \in Workers \ {w} : at'[v] = at[v]
    BY <1>4, <1>a DEF PutRawEnvelope, InsertEvent, ObserveEntityEvent, Detect, UpsertAlert, AppendAudit,
       PublishDeadLetter, PipelineFails, RecordFails, CallCancelled, TelemetryTypeOK, store
  <2>2. \/ at'[w] \notin {"insert", "entity", "detect", "finding"}
        \/ at[w] \in {"insert", "entity", "detect", "finding"}
    BY <1>4, <1>a DEF PutRawEnvelope, InsertEvent, ObserveEntityEvent, Detect, UpsertAlert, AppendAudit,
       PublishDeadLetter, PipelineFails, RecordFails, CallCancelled, TelemetryTypeOK, store
  <2> QED
    BY <1>2, <2>1, <2>2
<1>5. ASSUME NEW w \in Workers, TakeJob(w) PROVE FindingsCounted'
  <2>1. /\ UNCHANGED <<findings, events>> /\ at'[w] \in {"dlq", "raw"}
        /\ \A v \in Workers \ {w} : at'[v] = at[v] /\ rec'[v] = rec[v]
    BY <1>5, <1>a DEF TakeJob, TelemetryTypeOK, store
  <2>2. \A e \in EventIds : Path(e)' \subseteq Path(e)
    BY <2>1 DEF Path, Event
  <2> QED
    BY <1>1, <2>1, <2>2
<1>6. ASSUME NEW w \in Workers, LookupEvent(w) PROVE FindingsCounted'
  <2>1. /\ UNCHANGED <<rec, findings, events>>
        /\ \A v \in Workers \ {w} : at'[v] = at[v]
        /\ Event(w) \in events => at'[w] = "entity_duplicate"
    BY <1>6, <1>a DEF LookupEvent, TelemetryTypeOK, store
  <2>2. CASE Event(w) \in events
    BY <1>2, <2>1, <2>2
  <2>3. CASE Event(w) \notin events
    <3> SUFFICES ASSUME NEW e \in EventIds
                 PROVE  /\ findings[e] + Cardinality(Path(e)') <= Cardinality(Workers)
                        /\ e \notin events => findings[e] = 0
      BY <2>1 DEF FindingsCounted
    <3>1. CASE e = Event(w)
      <4>1. findings[e] = 0
        BY <3>1, <2>3, <1>f
      <4>2. Path(e)' \subseteq Workers
        BY DEF Path
      <4> QED
        BY <4>1, <4>2, <1>s, <1>f
    <3>2. CASE e # Event(w)
      <4>1. Path(e)' = Path(e)
        BY <3>2, <2>1 DEF Path, Event
      <4> QED
        BY <4>1, <1>f
    <3> QED
      BY <3>1, <3>2
  <2> QED
    BY <2>2, <2>3
<1>7. ASSUME NEW w \in Workers, PutFinding(w) PROVE FindingsCounted'
  <2>0. at[w] = "finding" /\ Event(w) \in EventIds
    BY <1>7, <1>a DEF PutFinding, WorkerProgress, Busy, Event, EventIds
  <2>1. /\ UNCHANGED <<rec, events>> /\ at'[w] = "alert"
        /\ \A v \in Workers \ {w} : at'[v] = at[v]
        /\ findings' = [findings EXCEPT ![Event(w)] = @ + 1]
    BY <1>7, <1>a DEF PutFinding, TelemetryTypeOK
  <2>2. Event(w) \in events
    BY <2>0, <1>a DEF WorkerProgress, AfterInsert
  <2> SUFFICES ASSUME NEW e \in EventIds
               PROVE  /\ findings'[e] + Cardinality(Path(e)') <= Cardinality(Workers)
                      /\ e \notin events => findings'[e] = 0
    BY <2>1 DEF FindingsCounted
  <2>3. CASE e = Event(w)
    <3>1. Path(e)' = Path(e) \ {w} /\ w \in Path(e) /\ Path(e) \subseteq Workers
      BY <2>0, <2>1, <2>3 DEF Path, Event
    <3>2. /\ Cardinality(Path(e)') = Cardinality(Path(e)) - 1
          /\ Cardinality(Path(e)) \in Nat
      BY <3>1, <1>s, FS_RemoveElement
    <3>3. findings'[e] = findings[e] + 1
      BY <2>1, <2>3, <1>a DEF TelemetryTypeOK
    <3> QED
      BY <3>2, <3>3, <2>2, <2>3, <1>f, <1>w
  <2>4. CASE e # Event(w)
    <3>1. Path(e)' = Path(e)
      BY <2>1, <2>4 DEF Path, Event
    <3>2. findings'[e] = findings[e]
      BY <2>1, <2>4, <1>a DEF TelemetryTypeOK
    <3> QED
      BY <3>1, <3>2, <1>f
  <2> QED
    BY <2>3, <2>4
<1>8. CASE PollFetches \/ PollNothing \/ CommitRecords \/ UNCHANGED telemetryVars
  <2>1. UNCHANGED <<findings, events, at, rec>>
    BY <1>8 DEF PollFetches, PollNothing, CommitRecords, telemetryVars, store
  <2>2. \A e \in EventIds : Path(e)' \subseteq Path(e)
    BY <2>1 DEF Path, Event
  <2> QED
    BY <1>1, <2>1, <2>2
<1>9. CASE Restart \/ ProcessorCrash
  <2>1. UNCHANGED <<findings, events>> /\ at' = [w \in Workers |-> "idle"]
    BY <1>9 DEF Restart, ProcessorCrash, Rewind, store
  <2>2. \A e \in EventIds : Path(e)' \subseteq Path(e)
    BY <2>1 DEF Path
  <2> QED
    BY <1>1, <2>1, <2>2
<1> QED
  BY <1>4, <1>5, <1>6, <1>7, <1>8, <1>9 DEF TelemetryNext, Poll, Work

\* For every partition, pool of workers and sequence of failures: without a
\* replay no acknowledged match goes undetected and out of the dead-letter
\* topic, and with any number of replays an event has at most one finding per
\* worker (Ingest, PutEvent and processRecord).
THEOREM DetectionStaysAccounted == TelemetrySpec => []DetectionIsAccounted
<1> DEFINE Inv == ProcessorInv /\ UnlessReplayed /\ FindingsCounted
<1>1. TelemetryInit => Inv
  <2> SUFFICES ASSUME TelemetryInit PROVE Inv
    OBVIOUS
  <2>1. UnlessReplayed
    BY DEF TelemetryInit, UnlessReplayed, DetectionComplete
  <2>2. \A e : Path(e) = {}
    BY DEF TelemetryInit, Path
  <2>3. FindingsCounted
    <3>1. Cardinality({}) = 0 /\ Cardinality(Workers) \in Nat
      BY FS_EmptySet, FS_CardinalityType, ProcessorAssumption
    <3> QED
      BY <2>2, <3>1 DEF TelemetryInit, FindingsCounted
  <2> QED
    BY <2>1, <2>3, ProcessorInit
<1>2. Inv /\ [TelemetryNext]_telemetryVars => Inv'
  BY ProcessorStep, DetectionStep, FindingsStep
<1>3. Inv => DetectionIsAccounted
  <2> SUFFICES ASSUME Inv PROVE DetectionIsAccounted
    OBVIOUS
  <2>1. DetectedUnlessReplayed
    BY DEF UnlessReplayed, DetectedUnlessReplayed
  <2>2. ASSUME NEW e \in EventIds PROVE findings[e] <= Cardinality(Workers)
    <3>1. Path(e) \subseteq Workers
      BY DEF Path
    <3>2. Cardinality(Path(e)) \in Nat /\ Cardinality(Workers) \in Nat
      BY <3>1, FS_Subset, FS_CardinalityType, ProcessorAssumption
    <3>3. findings[e] \in Nat /\ findings[e] + Cardinality(Path(e)) <= Cardinality(Workers)
      BY DEF ProcessorInv, TelemetryTypeOK, FindingsCounted
    <3> QED
      BY <3>2, <3>3
  <2> QED
    BY <2>1, <2>2 DEF DetectionIsAccounted, FindingsBounded
<1> QED
  BY <1>1, <1>2, <1>3, PTL DEF TelemetrySpec

-----------------------------------------------------------------------------
(* Behaviour baselines.  BaselineIsFaithful is not inductive: UebaInv adds   *)
(* what a baseline has of the committed observations of its entity           *)
(* (LearntOf) and that what a processor read under its two locks is still    *)
(* what is stored (ObserverOK, LocksExclude); AnomalyInv adds what the       *)
(* anomaly, the feedback and the alert of an event have of its observations. *)

Features == {"new_device", "rare_process", "volume_anomaly", "time_of_day_deviation"}
locksOf(e) == {entityOf(e), peerOf(e)}

\* The committed observations of an entity, in a history.
History(k, obs) == {i \in 1 .. Len(obs) : entityOf(obs[i].event) = k}
dayOf(obs, i) == UebaEvents[obs[i].event].day
deviceOf(obs, i) == UebaEvents[obs[i].event].device
WasSilent(k, obs) == \E i, j \in History(k, obs) : i < j /\ dayOf(obs, j) > dayOf(obs, i) + 1
WasFull(k, obs) == \E i \in History(k, obs) : obs[i].full

Counts(c) == \A v \in DOMAIN c : c[v] \in Nat \ {0}
BaselineOK(b) ==
    /\ b = [observations |-> b.observations, last |-> b.last, profile |-> b.profile]
    /\ b.observations \in Nat /\ b.last \in Nat /\ Counts(b.profile.devices)

\* What the baseline b of entity k has of its history.
LearntOf(k, b, obs) ==
    /\ BaselineOK(b)
    /\ \A d \in DOMAIN b.profile.devices : \E i \in History(k, obs) : deviceOf(obs, i) = d
    /\ ~WasSilent(k, obs) => b.observations = Cardinality(History(k, obs))
    /\ ~WasSilent(k, obs) /\ ~WasFull(k, obs) =>
          \A i \in History(k, obs) : deviceOf(obs, i) \in DOMAIN b.profile.devices
    /\ IF History(k, obs) = {} THEN b.last = 0 ELSE \E i \in History(k, obs) : b.last = dayOf(obs, i)

\* The states a processor may be in.
ObserverOK(state, bs, obs) ==
    \/ state = NoObservation
    \/ \E e \in uebaEventIds :
          \/ \E h \in {{}, {lockOrder(e)[1]}, locksOf(e)} :
                state = [at |-> "locking", event |-> e, held |-> h]
          \/ state = [at |-> "read", event |-> e, held |-> locksOf(e),
                    entity |-> bs[entityOf(e)], peer |-> bs[peerOf(e)]]
          \/ \E i \in 1 .. Len(obs) :
                /\ obs[i].event = e
                /\ state = [at |-> "observed", event |-> e, matched |-> obs[i].found # {}]

\* NoveltyIsFaithful at one observation of a history.
Before(obs, i) == {j \in 1 .. i - 1 : entityOf(obs[j].event) = entityOf(obs[i].event)}
NovelAt(obs, i) ==
    LET forgot == \E j \in Before(obs, i) : obs[j].full \/ obs[i].full
        silent == \E j, k \in Before(obs, i) \cup {i} : j < k /\ dayOf(obs, k) > dayOf(obs, j) + 1
        known == \E j \in Before(obs, i) : deviceOf(obs, i) = deviceOf(obs, j)
    IN /\ "new_device" \in obs[i].found => ~known \/ forgot \/ silent
       /\ ~known /\ ~silent /\ Cardinality(Before(obs, i)) >= MinimumObservations
             => "new_device" \in obs[i].found

locking(p) == observer[p].at \in {"locking", "read"}
LocksExclude ==
    \A p, q \in Observers : p # q /\ locking(p) /\ locking(q) => observer[p].held \cap observer[q].held = {}
Observations == [event : uebaEventIds, found : SUBSET Features, full : BOOLEAN]
UebaInv ==
    /\ observed \in Seq(Observations)
    /\ baselines = [k \in baselineKeys |-> baselines[k]]
    /\ observer = [p \in Observers |-> observer[p]]
    /\ \A p \in Observers : ObserverOK(observer[p], baselines, observed)
    /\ LocksExclude
    /\ \A e \in uebaEventIds : LearntOf(entityOf(e), baselines[entityOf(e)], observed)
    /\ \A i \in 1 .. Len(observed) : NovelAt(observed, i)

\* The two keys of an event are different, and no peer group is an entity.
LEMMA LockFacts ==
  ASSUME NEW e \in uebaEventIds
  PROVE  /\ locksOf(e) = {lockOrder(e)[1], lockOrder(e)[2]} /\ lockOrder(e)[1] # lockOrder(e)[2]
         /\ Cardinality({}) = 0 /\ Cardinality({lockOrder(e)[1]}) = 1 /\ Cardinality(locksOf(e)) = 2
         /\ entityOf(e) \in baselineKeys /\ peerOf(e) \in baselineKeys
         /\ \A f \in uebaEventIds : entityOf(f) # peerOf(e)
<1>1. \A f \in uebaEventIds : entityOf(f) # peerOf(e)
  <2> TAKE f \in uebaEventIds
  <2>1. UebaEvents[f].kind # "peer"
    BY UebaAssumption
  <2> QED
    BY <2>1 DEF entityOf, peerOf
<1>2. entityOf(e) \in baselineKeys /\ peerOf(e) \in baselineKeys
  BY DEF baselineKeys
<1>3. locksOf(e) = {lockOrder(e)[1], lockOrder(e)[2]} /\ lockOrder(e)[1] # lockOrder(e)[2]
  <2>1. CASE UebaEvents[e].kind = "device"
    <3>1. lockOrder(e)[1] = entityOf(e) /\ lockOrder(e)[2] = peerOf(e)
      BY <2>1 DEF lockOrder
    <3> QED
      BY <3>1, <1>1 DEF locksOf
  <2>2. CASE UebaEvents[e].kind # "device"
    <3>1. lockOrder(e)[1] = peerOf(e) /\ lockOrder(e)[2] = entityOf(e)
      BY <2>2 DEF lockOrder
    <3> QED
      BY <3>1, <1>1 DEF locksOf
  <2> QED
    BY <2>1, <2>2
<1> DEFINE a == lockOrder(e)[1]
           b == lockOrder(e)[2]
<1>4. Cardinality({}) = 0 /\ IsFiniteSet({a}) /\ Cardinality({a}) = 1
  <2> HIDE DEF a
  <2> QED
    BY FS_EmptySet, FS_Singleton
<1>5. Cardinality(locksOf(e)) = 2
  <2>1. a # b /\ locksOf(e) = {a} \cup {b}
    BY <1>3
  <2> HIDE DEF a, b
  <2>2. Cardinality({a} \cup {b}) = 1 + 1
    BY <2>1, <1>4, FS_AddElement
  <2> QED
    BY <2>1, <2>2
<1> QED
  BY <1>1, <1>2, <1>3, <1>4, <1>5

\* A processor moves on, and its locks stay its own.
LEMMA ObserverMoves ==
  ASSUME UebaInv, NEW p \in Observers, NEW state, observer' = [observer EXCEPT ![p] = state],
         UNCHANGED <<baselines, observed>>, ObserverOK(observer'[p], baselines, observed),
         state.at \in {"locking", "read"} =>
            \A q \in Observers \ {p} : locking(q) => state.held \cap observer[q].held = {}
  PROVE  UebaInv'
<1>0. baselines' = baselines /\ observed' = observed
  OBVIOUS
<1>1. observer = [q \in Observers |-> observer[q]] /\ \A q \in Observers : ObserverOK(observer[q], baselines, observed)
  BY DEF UebaInv
<1>2. observer'[p] = state /\ \A q \in Observers : q # p => observer'[q] = observer[q]
  BY <1>1
<1>3. observer' = [q \in Observers |-> observer'[q]]
  BY <1>1
<1>4. \A q \in Observers : ObserverOK(observer'[q], baselines, observed)
  <2> TAKE q \in Observers
  <2>1. CASE q = p
    BY <2>1
  <2>2. CASE q # p
    <3>1. ObserverOK(observer[q], baselines, observed) /\ observer'[q] = observer[q]
      BY <1>1, <1>2, <2>2
    <3> QED
      BY <3>1
  <2> QED
    BY <2>1, <2>2
<1>5. LocksExclude'
  <2> SUFFICES ASSUME NEW q \in Observers, NEW r \in Observers, q # r, locking(q)', locking(r)'
               PROVE  observer'[q].held \cap observer'[r].held = {}
    BY DEF LocksExclude
  <2>1. CASE q = p
    BY <1>2, <2>1 DEF locking
  <2>2. CASE r = p
    <3>1. state.held \cap observer[q].held = {}
      BY <1>2, <2>2 DEF locking
    <3> QED
      BY <3>1, <1>2, <2>2
  <2>3. CASE q # p /\ r # p
    <3>1. locking(q) /\ locking(r)
      BY <1>2, <2>3 DEF locking
    <3> QED
      BY <3>1, <1>2, <2>3 DEF LocksExclude, UebaInv
  <2> QED
    BY <2>1, <2>2, <2>3
<1> QED
  BY <1>0, <1>3, <1>4, <1>5 DEF UebaInv

\* Taking an event, its two locks in order, reading the rows, and finishing or
\* failing keep what each processor may rely on.
LEMMA ObserverSteps ==
  ASSUME UebaInv, NEW p \in Observers,
         \/ \E e \in uebaEventIds : Deliver(p, e)
         \/ lockNext(p) \/ lockUEBABaseline(p) \/ matchUEBA(p) \/ ProcessingFails(p)
  PROVE  UebaInv'
<1>0. ObserverOK(observer[p], baselines, observed) /\ LocksExclude /\ UNCHANGED <<baselines, observed>>
      /\ observer = [q \in Observers |-> observer[q]]
  BY DEF UebaInv, Deliver, lockNext, lockUEBABaseline, matchUEBA, ProcessingFails
<1>1. ASSUME NEW e \in uebaEventIds, Deliver(p, e) PROVE UebaInv'
  <2> DEFINE state == [at |-> "locking", event |-> e, held |-> {}]
  <2>1. observer' = [observer EXCEPT ![p] = state]
    BY <1>1 DEF Deliver
  <2>2. observer'[p] = state
    BY <2>1, <1>0
  <2>3. ObserverOK(observer'[p], baselines, observed)
    BY <2>2 DEF ObserverOK
  <2>4. \A q \in Observers \ {p} : locking(q) => state.held \cap observer[q].held = {}
    OBVIOUS
  <2> QED
    BY <2>1, <2>3, <2>4, <1>0, ObserverMoves
<1>2. CASE lockNext(p)
  <2> DEFINE e == observer[p].event
             h == observer[p].held
             key == lockOrder(e)[Cardinality(h) + 1]
             state == [at |-> "locking", event |-> e, held |-> h \cup {key}]
  <2>1. observer[p].at = "locking" /\ Cardinality(h) < 2 /\ key \notin heldByOthers(p)
        /\ observer' = [observer EXCEPT ![p].held = @ \cup {key}]
    BY <1>2 DEF lockNext
  <2>2. e \in uebaEventIds /\ h \in {{}, {lockOrder(e)[1]}, locksOf(e)}
        /\ observer[p] = [at |-> "locking", event |-> e, held |-> h]
    BY <2>1, <1>0 DEF ObserverOK, NoObservation
  <2>3. observer' = [observer EXCEPT ![p] = state]
    <3>1. [observer[p] EXCEPT !.held = @ \cup {key}] = state
      <4> HIDE DEF key, e, h
      <4> QED
        BY <2>2
    <3> QED
      BY <3>1, <2>1, <1>0, Zenon
  <2>4. observer'[p] = state
    BY <2>3, <1>0
  <2>5. (h = {} /\ key = lockOrder(e)[1]) \/ (h = {lockOrder(e)[1]} /\ key = lockOrder(e)[2])
    <3> HIDE DEF e, h
    <3>1. Cardinality({}) = 0 /\ Cardinality({lockOrder(e)[1]}) = 1 /\ Cardinality(locksOf(e)) = 2
      BY <2>2, LockFacts
    <3> QED
      BY <2>1, <2>2, <3>1
  <2>6. h \cup {key} \in {{}, {lockOrder(e)[1]}, locksOf(e)}
    <3> HIDE DEF e, h, key
    <3> QED
      BY <2>2, <2>5, LockFacts
  <2>7. ObserverOK(observer'[p], baselines, observed)
    BY <2>2, <2>4, <2>6 DEF ObserverOK
  <2>8. ASSUME NEW q \in Observers \ {p}, locking(q) PROVE state.held \cap observer[q].held = {}
    <3>1. key \notin observer[q].held
      BY <2>1, <2>8 DEF heldByOthers, locking
    <3>2. h \cap observer[q].held = {}
      BY <2>1, <2>8, <1>0 DEF LocksExclude, locking
    <3> QED
      BY <3>1, <3>2
  <2> HIDE DEF state
  <2> QED
    BY <2>3, <2>7, <2>8, <1>0, ObserverMoves
<1>3. CASE lockUEBABaseline(p)
  <2> DEFINE e == observer[p].event
             state == [at |-> "read", event |-> e, held |-> observer[p].held,
                     entity |-> baselines[entityOf(e)], peer |-> baselines[peerOf(e)]]
  <2>1. observer[p].at = "locking" /\ Cardinality(observer[p].held) = 2
        /\ observer' = [observer EXCEPT ![p] = state]
    BY <1>3, <1>0 DEF lockUEBABaseline, holdsLocks
  <2>2. e \in uebaEventIds /\ observer[p].held \in {{}, {lockOrder(e)[1]}, locksOf(e)}
    BY <2>1, <1>0 DEF ObserverOK, NoObservation
  <2>3. observer[p].held = locksOf(e)
    <3> HIDE DEF e
    <3>1. Cardinality({}) = 0 /\ Cardinality({lockOrder(e)[1]}) = 1
      BY <2>2, LockFacts
    <3>2. observer[p].held # {} /\ observer[p].held # {lockOrder(e)[1]}
      BY <2>1, <3>1
    <3> QED
      BY <2>2, <3>2
  <2>4. observer'[p] = state
    BY <2>1, <1>0
  <2>5. ObserverOK(observer'[p], baselines, observed)
    BY <2>2, <2>3, <2>4, <1>0 DEF ObserverOK
  <2>6. \A q \in Observers \ {p} : locking(q) => state.held \cap observer[q].held = {}
    BY <2>1, <1>0 DEF LocksExclude, locking
  <2> HIDE DEF state
  <2> QED
    BY <2>1, <2>5, <2>6, <1>0, ObserverMoves
<1>4. CASE matchUEBA(p) \/ ProcessingFails(p)
  <2>1. observer' = [observer EXCEPT ![p] = NoObservation]
    BY <1>4 DEF matchUEBA, ProcessingFails
  <2>2. ObserverOK(observer'[p], baselines, observed) /\ NoObservation.at = "idle"
    BY <2>1, <1>0 DEF ObserverOK, NoObservation
  <2> QED
    BY <2>1, <2>2, <1>0, ObserverMoves
<1> QED
  BY <1>1, <1>2, <1>3, <1>4

\* Decay adds nothing, and without silence it takes nothing away.
LEMMA Decayed ==
  ASSUME NEW e \in uebaEventIds, NEW obs \in Seq(Observations), NEW b,
         LearntOf(entityOf(e), b, obs)
  PROVE  LET c == decayBaseline(b, UebaEvents[e].day) IN
         /\ c.observations \in Nat /\ c.last = b.last /\ Counts(c.profile.devices)
         /\ DOMAIN c.profile.devices \subseteq DOMAIN b.profile.devices
         /\ (\A j \in History(entityOf(e), obs) : ~(UebaEvents[e].day > dayOf(obs, j) + 1)) =>
               /\ c.observations = b.observations
               /\ DOMAIN c.profile.devices = DOMAIN b.profile.devices
<1> DEFINE D == UebaEvents[e].day
           days == D - b.last
           c == decayBaseline(b, D)
           H == History(entityOf(e), obs)
           m == b.profile.devices
<1>0. BaselineOK(b) /\ b.observations \in Nat /\ b.last \in Nat /\ Counts(m)
      /\ b = [observations |-> b.observations, last |-> b.last, profile |-> b.profile]
  BY DEF LearntOf, BaselineOK
<1>1. D \in Nat
  BY UebaAssumption
<1>2. (H = {} /\ b.last = 0) \/ \E j \in H : b.last = dayOf(obs, j)
  BY DEF LearntOf
<1>3. CASE days <= 1
  <2>1. c = b
    BY <1>3 DEF decayBaseline
  <2> QED
    BY <2>1, <1>0
<1>4. CASE ~(days <= 1)
  <2>0. days > 1 /\ days \in Nat
    BY <1>0, <1>1, <1>4
  <2>1. Remaining[days] \in 0 .. 100
    <3>1. CASE b.last = 0
      <4>1. days = D
        BY <3>1, <1>1
      <4> QED
        BY <4>1, <2>0, UebaAssumption
    <3>2. CASE \E j \in H : b.last = dayOf(obs, j)
      <4>1. PICK j \in H : b.last = dayOf(obs, j)
        BY <3>2
      <4>2. obs[j].event \in uebaEventIds
        <5>1. j \in 1 .. Len(obs)
          BY <4>1 DEF History
        <5>2. obs[j] \in Observations
          BY <5>1
        <5> QED
          BY <5>2 DEF Observations
      <4> QED
        BY <4>1, <4>2, <2>0, UebaAssumption DEF dayOf
    <3> QED
      BY <3>1, <3>2, <1>2
  <2> DEFINE R == Remaining[days]
  <2>a. R \in Nat
    <3>1. \A x : x \in 0 .. 100 => x \in Nat
      OBVIOUS
    <3> HIDE DEF days
    <3> QED
      BY <2>1, <3>1, Zenon
  <2>2. \A x \in Nat : (x * R + 50) \div 100 \in Nat
    <3>1. \A x \in Nat : x * R + 50 \in Nat
      <4> TAKE x \in Nat
      <4> HIDE DEF R
      <4> QED
        BY <2>a
    <3>2. \A y \in Nat : y \div 100 \in Nat
      OBVIOUS
    <3> HIDE DEF R
    <3> QED
      BY <3>1, <3>2
  <2>3. \A x \in Nat : scaled(x, days) \in Nat
    BY <2>2 DEF scaled
  <2>4. scaled(0, days) = 0
    <3>2. (0 * R + 50) \div 100 = 0
      <4> HIDE DEF R
      <4> QED
        BY <2>a
    <3> QED
      BY <3>2 DEF scaled
  <2> HIDE DEF R
  <2> DEFINE q == [devices |-> scaleMap(m, days), processes |-> scaleMap(b.profile.processes, days)]
  <2>5. c = [b EXCEPT !.observations = scaled(@, days),
                      !.profile = [devices |-> scaleMap(@.devices, days), processes |-> scaleMap(@.processes, days)]]
    BY <1>4 DEF decayBaseline
  <2>6. c = [observations |-> scaled(b.observations, days), last |-> b.last, profile |-> q]
    <3> HIDE DEF days
    <3> QED
      BY <2>5, <1>0
  <2>7. c.observations = scaled(b.observations, days) /\ c.last = b.last
        /\ c.profile.devices = scaleMap(m, days)
    <3> HIDE DEF days, c, m
    <3> QED
      BY <2>6
  <2> HIDE DEF c, q
  <2>8. \A v \in DOMAIN scaleMap(m, days) : /\ v \in DOMAIN m /\ scaleMap(m, days)[v] \in Nat \ {0}
    <3>1. \A v \in DOMAIN m : m[v] \in Nat
      BY <1>0 DEF Counts
    <3>2. \A v \in DOMAIN m : scaled(m[v], days) \in Nat
      BY <3>1, <2>3
    <3> HIDE DEF days, m
    <3> QED
      BY <3>2 DEF scaleMap
  <2>9. ASSUME \A j \in H : ~(D > dayOf(obs, j) + 1)
        PROVE  c.observations = b.observations /\ DOMAIN c.profile.devices = DOMAIN m
    <3>1. H = {}
      <4> SUFFICES ASSUME NEW j \in H, b.last = dayOf(obs, j) PROVE FALSE
        BY <1>2
      <4>1. ~(D > b.last + 1)
        BY <2>9
      <4> QED
        BY <4>1, <2>0, <1>0, <1>1
    <3>2. b.observations = 0
      <4>1. ~WasSilent(entityOf(e), obs)
        BY <3>1 DEF WasSilent
      <4>2. b.observations = Cardinality({})
        BY <3>1, <4>1 DEF LearntOf
      <4> QED
        BY <4>2, FS_EmptySet
    <3>3. DOMAIN m = {}
      BY <3>1 DEF LearntOf
    <3>4. DOMAIN scaleMap(m, days) = {}
      BY <3>3, <2>8
    <3> QED
      BY <3>2, <3>3, <3>4, <2>4, <2>7
  <2>10. c.observations \in Nat
    BY <2>3, <2>7, <1>0
  <2>11. Counts(c.profile.devices) /\ DOMAIN c.profile.devices \subseteq DOMAIN m
    BY <2>7, <2>8 DEF Counts
  <2> HIDE DEF m, H, D
  <2> QED
    BY <2>7, <2>9, <2>10, <2>11 DEF c, m, H, D
<1> QED
  BY <1>3, <1>4

\* A map takes a value in, and lets one go only when it is full.
LEMMA Increments ==
  ASSUME NEW c, NEW v, Counts(c)
  PROVE  /\ Counts(incrementBounded(c, v)) /\ v \in DOMAIN incrementBounded(c, v)
         /\ DOMAIN incrementBounded(c, v) \subseteq DOMAIN c \cup {v}
         /\ ~(Cardinality(DOMAIN c) >= MaximumCardinality) =>
               DOMAIN c \subseteq DOMAIN incrementBounded(c, v)
<1> DEFINE full == v \notin DOMAIN c /\ Cardinality(DOMAIN c) >= MaximumCardinality
           room == IF full THEN evicted(c) ELSE c
           n == [w \in DOMAIN room \cup {v} |-> timesSeen(room, w) + (IF w = v THEN 1 ELSE 0)]
<1>1. incrementBounded(c, v) = n
  BY DEF incrementBounded
<1>2. Counts(room) /\ DOMAIN room \subseteq DOMAIN c /\ (~full => room = c)
  <2>1. CASE full
    <3>1. room = evicted(c)
      BY <2>1
    <3>2. Counts(evicted(c)) /\ DOMAIN evicted(c) \subseteq DOMAIN c
      BY DEF evicted, without, Counts
    <3> QED
      BY <3>1, <3>2, <2>1
  <2>2. CASE ~full
    BY <2>2
  <2> QED
    BY <2>1, <2>2
<1> HIDE DEF room
<1>3. \A w \in DOMAIN room : room[w] \in Nat \ {0}
  BY <1>2 DEF Counts
<1>4. \A w \in DOMAIN room \cup {v} : timesSeen(room, w) + (IF w = v THEN 1 ELSE 0) \in Nat \ {0}
  BY <1>3 DEF timesSeen
<1>5. Counts(n) /\ DOMAIN n = DOMAIN room \cup {v}
  BY <1>4 DEF Counts
<1> HIDE DEF n
<1> QED
  BY <1>1, <1>2, <1>5

\* A history with one observation more.
LEMMA HistoryGrows ==
  ASSUME NEW obs \in Seq(Observations), NEW o \in Observations, NEW k
  PROVE  LET more == Append(obs, o)
             n == Len(obs) + 1 IN
         /\ more \in Seq(Observations) /\ Len(more) = n /\ n \in Nat /\ more[n] = o
         /\ \A i \in 1 .. Len(obs) : more[i] = obs[i] /\ more[i] \in Observations
         /\ entityOf(o.event) # k => History(k, more) = History(k, obs)
         /\ entityOf(o.event) = k => History(k, more) = History(k, obs) \cup {n}
         /\ History(k, obs) \subseteq 1 .. Len(obs) /\ n \notin History(k, obs)
         /\ \A i \in 1 .. Len(obs) : dayOf(more, i) = dayOf(obs, i) /\ deviceOf(more, i) = deviceOf(obs, i)
<1> DEFINE more == Append(obs, o)
           n == Len(obs) + 1
<1>1. more \in Seq(Observations) /\ Len(more) = n /\ Len(obs) \in Nat /\ more[n] = o
      /\ \A i \in 1 .. Len(obs) : more[i] = obs[i]
  BY AppendProperties
<1>2. \A i \in 1 .. Len(obs) : obs[i] \in Observations
  OBVIOUS
<1> HIDE DEF more
<1>3. History(k, obs) \subseteq 1 .. Len(obs) /\ n \notin History(k, obs)
  BY <1>1 DEF History
<1>4. entityOf(o.event) # k => History(k, more) = History(k, obs)
  BY <1>1 DEF History
<1>5. entityOf(o.event) = k => History(k, more) = History(k, obs) \cup {n}
  BY <1>1 DEF History
<1>6. \A i \in 1 .. Len(obs) : dayOf(more, i) = dayOf(obs, i) /\ deviceOf(more, i) = deviceOf(obs, i)
  BY <1>1 DEF dayOf, deviceOf
<1> QED
  BY <1>1, <1>2, <1>3, <1>4, <1>5, <1>6 DEF more

\* What is learnt of the other entities stands.
LEMMA OthersKept ==
  ASSUME NEW obs \in Seq(Observations), NEW o \in Observations, NEW k, NEW b,
         entityOf(o.event) # k, LearntOf(k, b, obs)
  PROVE  LearntOf(k, b, Append(obs, o))
<1> DEFINE more == Append(obs, o)
           H == History(k, obs)
<1>1. /\ History(k, more) = H /\ H \subseteq 1 .. Len(obs)
      /\ \A i \in H : dayOf(more, i) = dayOf(obs, i) /\ deviceOf(more, i) = deviceOf(obs, i)
      /\ \A i \in H : more[i] = obs[i]
  BY HistoryGrows
<1> HIDE DEF more
<1>2. WasSilent(k, more) = WasSilent(k, obs)
  BY <1>1 DEF WasSilent
<1>3. WasFull(k, more) = WasFull(k, obs)
  BY <1>1 DEF WasFull
<1> HIDE DEF H
<1>4. LearntOf(k, b, more)
  BY <1>1, <1>2, <1>3 DEF LearntOf, H
<1> QED
  BY <1>4 DEF more

\* An entity's baseline, once it has learnt an event.
LEMMA Learns ==
  ASSUME NEW e \in uebaEventIds, NEW obs \in Seq(Observations), NEW b,
         LearntOf(entityOf(e), b, obs), NEW o \in Observations, o.event = e,
         o.full = (Cardinality(DOMAIN b.profile.devices) >= MaximumCardinality)
  PROVE  LearntOf(entityOf(e), updateBaseline(decayBaseline(b, UebaEvents[e].day), e), Append(obs, o))
<1> DEFINE k == entityOf(e)
           H == History(k, obs)
           more == Append(obs, o)
           n == Len(obs) + 1
           D == UebaEvents[e].day
           dev == UebaEvents[e].device
           c == decayBaseline(b, D)
           u == updateBaseline(c, e)
           calm == \A j \in H : ~(D > dayOf(obs, j) + 1)
<1>1. /\ more \in Seq(Observations) /\ n \in Nat /\ more[n] = o
      /\ History(k, more) = H \cup {n} /\ H \subseteq 1 .. Len(obs) /\ n \notin H
      /\ \A i \in H : more[i] = obs[i] /\ dayOf(more, i) = dayOf(obs, i) /\ deviceOf(more, i) = deviceOf(obs, i)
  <2>1. /\ more \in Seq(Observations) /\ n \in Nat /\ more[n] = o
        /\ \A i \in 1 .. Len(obs) : more[i] = obs[i]
        /\ \A i \in 1 .. Len(obs) : dayOf(more, i) = dayOf(obs, i) /\ deviceOf(more, i) = deviceOf(obs, i)
        /\ H \subseteq 1 .. Len(obs) /\ n \notin H
    BY HistoryGrows
  <2>2. History(k, more) = H \cup {n}
    BY HistoryGrows
  <2> HIDE DEF more, H, n, k
  <2> QED
    BY <2>1, <2>2
<1>2. dayOf(more, n) = D /\ deviceOf(more, n) = dev
  BY <1>1 DEF dayOf, deviceOf
<1>3. /\ c.observations \in Nat /\ c.last = b.last /\ Counts(c.profile.devices)
      /\ DOMAIN c.profile.devices \subseteq DOMAIN b.profile.devices
      /\ calm => c.observations = b.observations /\ DOMAIN c.profile.devices = DOMAIN b.profile.devices
  BY Decayed
<1>4. /\ u = [observations |-> u.observations, last |-> u.last, profile |-> u.profile]
      /\ u.observations = c.observations + 1
      /\ u.last = (IF D > c.last THEN D ELSE c.last)
      /\ u.profile.devices = incrementBounded(c.profile.devices, dev)
  BY DEF updateBaseline
<1>5. D \in Nat /\ b.last \in Nat
  BY UebaAssumption DEF LearntOf, BaselineOK
<1>6. Len(obs) \in Nat
  OBVIOUS
<1> HIDE DEF c, u, more
<1>7. /\ Counts(u.profile.devices) /\ dev \in DOMAIN u.profile.devices
      /\ DOMAIN u.profile.devices \subseteq DOMAIN c.profile.devices \cup {dev}
      /\ ~(Cardinality(DOMAIN c.profile.devices) >= MaximumCardinality) =>
            DOMAIN c.profile.devices \subseteq DOMAIN u.profile.devices
  BY <1>3, <1>4, Increments
<1>8. BaselineOK(u)
  BY <1>3, <1>4, <1>5, <1>7 DEF BaselineOK
<1>9. \A d \in DOMAIN u.profile.devices : \E i \in H \cup {n} : deviceOf(more, i) = d
  <2> TAKE d \in DOMAIN u.profile.devices
  <2>1. CASE d = dev
    BY <2>1, <1>2
  <2>2. CASE d # dev
    <3>1. d \in DOMAIN b.profile.devices
      BY <2>2, <1>3, <1>7
    <3>2. PICK i \in H : deviceOf(obs, i) = d
      BY <3>1 DEF LearntOf
    <3> QED
      BY <3>2, <1>1
  <2> QED
    BY <2>1, <2>2
<1>10. ASSUME ~WasSilent(k, more) PROVE calm /\ ~WasSilent(k, obs)
  <2>1. ASSUME NEW j \in H PROVE ~(D > dayOf(obs, j) + 1)
    <3>1. j \in History(k, more) /\ n \in History(k, more) /\ j < n
      BY <1>1, <1>6
    <3>2. ~(dayOf(more, n) > dayOf(more, j) + 1)
      BY <3>1, <1>10 DEF WasSilent
    <3> QED
      BY <3>2, <1>1, <1>2
  <2>2. ASSUME NEW i \in H, NEW j \in H, i < j PROVE ~(dayOf(obs, j) > dayOf(obs, i) + 1)
    <3>1. i \in History(k, more) /\ j \in History(k, more)
      BY <1>1
    <3>2. ~(dayOf(more, j) > dayOf(more, i) + 1)
      BY <3>1, <2>2, <1>10 DEF WasSilent
    <3> QED
      BY <3>2, <1>1
  <2> QED
    BY <2>1, <2>2 DEF WasSilent
<1>11. ~WasSilent(k, more) => u.observations = Cardinality(H \cup {n})
  <2> SUFFICES ASSUME ~WasSilent(k, more) PROVE u.observations = Cardinality(H \cup {n})
    OBVIOUS
  <2>1. c.observations = Cardinality(H)
    BY <1>3, <1>10 DEF LearntOf
  <2>2. IsFiniteSet(1 .. Len(obs))
    <3>1. 1 \in Int /\ Len(obs) \in Int
      BY <1>6
    <3> QED
      BY <3>1, FS_Interval
  <2>3. IsFiniteSet(H)
    BY <2>2, <1>1, FS_Subset
  <2> HIDE DEF H, n
  <2>4. Cardinality(H \cup {n}) = Cardinality(H) + 1
    BY <2>3, <1>1, FS_AddElement
  <2> QED
    BY <2>1, <2>4, <1>4
<1>12. ASSUME ~WasSilent(k, more), ~WasFull(k, more), NEW i \in H \cup {n}
       PROVE  deviceOf(more, i) \in DOMAIN u.profile.devices
  <2>1. CASE i = n
    BY <2>1, <1>2, <1>7
  <2>2. CASE i \in H
    <3>1. calm /\ ~WasSilent(k, obs)
      BY <1>10, <1>12
    <3>2. ~o.full /\ ~WasFull(k, obs)
      BY <1>1, <1>12 DEF WasFull
    <3>3. DOMAIN c.profile.devices = DOMAIN b.profile.devices
      BY <3>1, <1>3
    <3>4. deviceOf(obs, i) \in DOMAIN b.profile.devices
      BY <2>2, <3>1, <3>2 DEF LearntOf
    <3>5. ~(Cardinality(DOMAIN b.profile.devices) >= MaximumCardinality)
      BY <3>2, Zenon
    <3>6. ~(Cardinality(DOMAIN c.profile.devices) >= MaximumCardinality)
      BY <3>3, <3>5, Zenon
    <3> QED
      BY <3>3, <3>4, <3>6, <2>2, <1>1, <1>7
  <2> QED
    BY <2>1, <2>2, <1>12
<1>13. \E i \in H \cup {n} : u.last = dayOf(more, i)
  <2>1. CASE D > b.last
    BY <2>1, <1>2, <1>3, <1>4
  <2>2. CASE ~(D > b.last) /\ H = {}
    <3>1. b.last = 0
      BY <2>2 DEF LearntOf
    <3>2. u.last = D
      BY <3>1, <2>2, <1>3, <1>4, <1>5
    <3> QED
      BY <3>2, <1>2
  <2>3. CASE ~(D > b.last) /\ H # {}
    <3>1. PICK i \in H : b.last = dayOf(obs, i)
      BY <2>3 DEF LearntOf
    <3>2. u.last = b.last
      BY <2>3, <1>3, <1>4
    <3> QED
      BY <3>1, <3>2, <1>1
  <2> QED
    BY <2>1, <2>2, <2>3
<1>14. LearntOf(k, u, more)
  <2>1. History(k, more) = H \cup {n} /\ H \cup {n} # {}
    BY <1>1
  <2> HIDE DEF k, H, n
  <2> QED
    BY <2>1, <1>8, <1>9, <1>11, <1>12, <1>13 DEF LearntOf
<1> QED
  BY <1>14 DEF u, c, more

\* An observation that is made stays what it was.
LEMMA NovelStays ==
  ASSUME NEW obs \in Seq(Observations), NEW o \in Observations, NEW i \in 1 .. Len(obs),
         NovelAt(obs, i)
  PROVE  NovelAt(Append(obs, o), i)
<1> DEFINE more == Append(obs, o)
<1>1. Len(obs) \in Nat
  OBVIOUS
<1>2. \A j \in 1 .. Len(obs) : /\ more[j] = obs[j] /\ dayOf(more, j) = dayOf(obs, j)
                               /\ deviceOf(more, j) = deviceOf(obs, j)
  BY HistoryGrows
<1> HIDE DEF more
<1>3. Before(more, i) = Before(obs, i) /\ Before(obs, i) \subseteq 1 .. Len(obs)
  BY <1>1, <1>2 DEF Before
<1> DEFINE B == Before(obs, i)
<1>4. (\E j \in B : more[j].full \/ more[i].full) = (\E j \in B : obs[j].full \/ obs[i].full)
  BY <1>2, <1>3
<1>5. (\E j, m \in B \cup {i} : j < m /\ dayOf(more, m) > dayOf(more, j) + 1) =
      (\E j, m \in B \cup {i} : j < m /\ dayOf(obs, m) > dayOf(obs, j) + 1)
  BY <1>2, <1>3
<1>6. (\E j \in B : deviceOf(more, i) = deviceOf(more, j)) = (\E j \in B : deviceOf(obs, i) = deviceOf(obs, j))
  BY <1>2, <1>3
<1>7. more[i].found = obs[i].found
  BY <1>2
<1> HIDE DEF B
<1>8. NovelAt(more, i)
  BY <1>3, <1>4, <1>5, <1>6, <1>7 DEF NovelAt, B
<1> QED
  BY <1>8 DEF more

\* The observation made under the locks is true to the entity's history.
LEMMA NovelNow ==
  ASSUME NEW e \in uebaEventIds, NEW obs \in Seq(Observations), NEW b, NEW peer,
         LearntOf(entityOf(e), b, obs), NEW o \in Observations, o.event = e,
         o.found = Evaluate(decayBaseline(b, UebaEvents[e].day), peer, e)
  PROVE  NovelAt(Append(obs, o), Len(obs) + 1)
<1> DEFINE k == entityOf(e)
           H == History(k, obs)
           more == Append(obs, o)
           n == Len(obs) + 1
           D == UebaEvents[e].day
           dev == UebaEvents[e].device
           c == decayBaseline(b, D)
           calm == \A j \in H : ~(D > dayOf(obs, j) + 1)
           forgot == \E j \in H : more[j].full \/ more[n].full
           silent == \E j, m \in H \cup {n} : j < m /\ dayOf(more, m) > dayOf(more, j) + 1
           known == \E j \in H : deviceOf(more, n) = deviceOf(more, j)
<1>1. /\ n \in Nat /\ more[n] = o /\ H \subseteq 1 .. Len(obs) /\ Len(obs) \in Nat
      /\ \A i \in 1 .. Len(obs) : more[i] = obs[i] /\ dayOf(more, i) = dayOf(obs, i) /\ deviceOf(more, i) = deviceOf(obs, i)
  BY HistoryGrows
<1>2. dayOf(more, n) = D /\ deviceOf(more, n) = dev
  BY <1>1 DEF dayOf, deviceOf
<1>3. /\ c.observations \in Nat /\ Counts(c.profile.devices)
      /\ DOMAIN c.profile.devices \subseteq DOMAIN b.profile.devices
      /\ calm => c.observations = b.observations /\ DOMAIN c.profile.devices = DOMAIN b.profile.devices
  BY Decayed
<1> HIDE DEF c, more
<1>4. "new_device" \in o.found <=> ~(c.observations < MinimumObservations) /\ dev \notin DOMAIN c.profile.devices
  <2>1. timesSeen(c.profile.devices, dev) = 0 <=> dev \notin DOMAIN c.profile.devices
    BY <1>3 DEF timesSeen, Counts
  <2>2. o.found = Evaluate(c, peer, e)
    BY DEF c
  <2>3. "new_device" \in Evaluate(c, peer, e) <=>
          ~(c.observations < MinimumObservations) /\ timesSeen(c.profile.devices, dev) = 0
    BY DEF Evaluate
  <2> QED
    BY <2>1, <2>2, <2>3
<1>5. Before(more, n) = H
  <2>1. n - 1 = Len(obs)
    BY <1>1
  <2> QED
    BY <2>1, <1>1 DEF Before, History
<1>6. ASSUME ~silent PROVE calm /\ ~WasSilent(k, obs)
  <2>1. ASSUME NEW j \in H PROVE ~(D > dayOf(obs, j) + 1)
    <3>1. j < n /\ ~(dayOf(more, n) > dayOf(more, j) + 1)
      BY <1>1, <1>6
    <3> QED
      BY <3>1, <1>1, <1>2
  <2>2. ASSUME NEW i \in H, NEW j \in H, i < j PROVE ~(dayOf(obs, j) > dayOf(obs, i) + 1)
    <3>1. ~(dayOf(more, j) > dayOf(more, i) + 1)
      BY <2>2, <1>6
    <3> QED
      BY <3>1, <1>1
  <2> QED
    BY <2>1, <2>2 DEF WasSilent
<1>7. ASSUME "new_device" \in o.found, known, ~forgot, ~silent PROVE FALSE
  <2>1. PICK j \in H : deviceOf(more, j) = dev
    BY <1>2, <1>7
  <2>2. ~WasFull(k, obs)
    BY <1>1, <1>7 DEF WasFull
  <2>3. calm /\ ~WasSilent(k, obs)
    BY <1>6, <1>7
  <2>4. dev \in DOMAIN b.profile.devices
    BY <2>1, <2>2, <2>3, <1>1 DEF LearntOf
  <2> QED
    BY <2>3, <2>4, <1>3, <1>4, <1>7
<1>8. ASSUME ~known, ~silent, Cardinality(H) >= MinimumObservations PROVE "new_device" \in o.found
  <2>1. calm /\ ~WasSilent(k, obs)
    BY <1>6, <1>8
  <2>2. c.observations = Cardinality(H)
    BY <2>1, <1>3 DEF LearntOf
  <2>3. ~(c.observations < MinimumObservations)
    BY <2>2, <1>3, <1>8, UebaAssumption
  <2>4. dev \notin DOMAIN b.profile.devices
    <3> SUFFICES ASSUME dev \in DOMAIN b.profile.devices PROVE FALSE
      OBVIOUS
    <3>1. PICK i \in H : deviceOf(obs, i) = dev
      BY DEF LearntOf
    <3> QED
      BY <3>1, <1>1, <1>2, <1>8
  <2> QED
    BY <2>3, <2>4, <1>3, <1>4
<1>9. NovelAt(more, n)
  <2> HIDE DEF H, n
  <2> QED
    BY <1>1, <1>5, <1>7, <1>8 DEF NovelAt
<1> QED
  BY <1>9 DEF more

\* One observation, made and learnt in one transaction under both locks.
LEMMA ObserveStep ==
  ASSUME UebaInv, NEW p \in Observers, ObserveUEBAEvent(p)
  PROVE  UebaInv'
<1> DEFINE e == observer[p].event
           k == entityOf(e)
           g == peerOf(e)
           b == baselines[k]
           c == decayBaseline(b, UebaEvents[e].day)
           u == updateBaseline(c, e)
           d == decayBaseline(baselines[g], UebaEvents[e].day)
           w == updateBaseline(d, e)
           F == Evaluate(c, d, e)
           o == [event |-> e, found |-> F,
                 full |-> Cardinality(DOMAIN b.profile.devices) >= MaximumCardinality]
           state == [at |-> "observed", event |-> e, matched |-> F # {}]
<1>0. /\ observed \in Seq(Observations) /\ ObserverOK(observer[p], baselines, observed)
      /\ baselines = [x \in baselineKeys |-> baselines[x]]
      /\ observer = [q \in Observers |-> observer[q]] /\ LocksExclude
  BY DEF UebaInv
<1>1. /\ observer[p].at = "read"
      /\ observer[p] = [at |-> "read", event |-> e, held |-> locksOf(e), entity |-> b, peer |-> baselines[g]]
      /\ e \in uebaEventIds
  <2>1. observer[p].at = "read"
    BY DEF ObserveUEBAEvent
  <2>2. PICK f \in uebaEventIds :
          observer[p] = [at |-> "read", event |-> f, held |-> locksOf(f),
                         entity |-> baselines[entityOf(f)], peer |-> baselines[peerOf(f)]]
    BY <2>1, <1>0 DEF ObserverOK, NoObservation
  <2>3. e = f
    BY <2>2
  <2> QED
    BY <2>1, <2>2, <2>3
<1>2. observer[p].entity = b /\ observer[p].peer = baselines[g] /\ observer[p].held = locksOf(e)
  <2> HIDE DEF b, g, e
  <2> QED
    BY <1>1
<1>3. /\ baselines' = [baselines EXCEPT ![k] = u, ![g] = w]
      /\ observed' = Append(observed, o)
      /\ observer' = [observer EXCEPT ![p] = state]
  BY <1>2 DEF ObserveUEBAEvent
<1>4. k \in baselineKeys /\ g \in baselineKeys /\ \A f \in uebaEventIds : entityOf(f) # g
  BY <1>1, LockFacts
<1> HIDE DEF u, w, F, c, d
<1>5. F \in SUBSET Features
  BY DEF F, Evaluate, Features
<1>6. o \in Observations /\ o.event = e /\ o.found = F
      /\ o.full = (Cardinality(DOMAIN b.profile.devices) >= MaximumCardinality)
  BY <1>1, <1>5 DEF Observations
<1> HIDE DEF o
<1>7. LearntOf(k, b, observed)
  BY <1>1 DEF UebaInv
<1>8. /\ baselines' = [x \in baselineKeys |-> baselines'[x]]
      /\ \A x \in baselineKeys : baselines'[x] = IF x = g THEN w ELSE IF x = k THEN u ELSE baselines[x]
  <2> HIDE DEF k, g
  <2> QED
    BY <1>0, <1>3
<1>9. baselines'[k] = u
  BY <1>1, <1>4, <1>8
<1>10. LearntOf(k, u, observed')
  BY <1>0, <1>1, <1>3, <1>6, <1>7, Learns DEF u, c
<1>11. ASSUME NEW f \in uebaEventIds PROVE LearntOf(entityOf(f), baselines'[entityOf(f)], observed')
  <2>1. CASE entityOf(f) = k
    BY <2>1, <1>9, <1>10
  <2>2. CASE entityOf(f) # k
    <3>1. entityOf(f) \in baselineKeys
      BY DEF baselineKeys
    <3>2. baselines'[entityOf(f)] = baselines[entityOf(f)]
      BY <3>1, <2>2, <1>4, <1>8
    <3>3. LearntOf(entityOf(f), baselines[entityOf(f)], observed)
      BY DEF UebaInv
    <3>4. entityOf(o.event) # entityOf(f)
      BY <2>2, <1>6
    <3> QED
      BY <3>2, <3>3, <3>4, <1>0, <1>3, <1>6, OthersKept
  <2> QED
    BY <2>1, <2>2
<1>12. /\ observed' \in Seq(Observations) /\ Len(observed') = Len(observed) + 1 /\ Len(observed) \in Nat
       /\ observed'[Len(observed) + 1] = o /\ \A i \in 1 .. Len(observed) : observed'[i] = observed[i]
  BY <1>0, <1>3, <1>6, AppendProperties
<1>13. ASSUME NEW i \in 1 .. Len(observed') PROVE NovelAt(observed', i)
  <2>1. CASE i \in 1 .. Len(observed)
    <3>1. NovelAt(observed, i)
      BY <2>1 DEF UebaInv
    <3> QED
      BY <3>1, <2>1, <1>0, <1>3, <1>6, NovelStays
  <2>2. CASE i = Len(observed) + 1
    <3>1. o.found = Evaluate(decayBaseline(b, UebaEvents[e].day), d, e)
      BY <1>6 DEF F, c
    <3>2. NovelAt(Append(observed, o), Len(observed) + 1)
      BY <3>1, <1>0, <1>1, <1>6, <1>7, NovelNow
    <3> QED
      BY <3>2, <2>2, <1>3
  <2> QED
    BY <2>1, <2>2, <1>12
<1>14. /\ observer' = [q \in Observers |-> observer'[q]] /\ observer'[p] = state
       /\ \A q \in Observers : q # p => observer'[q] = observer[q]
  <2> HIDE DEF state
  <2> QED
    BY <1>0, <1>3
<1>15. state.at = "observed"
  OBVIOUS
<1>16. LocksExclude'
  BY <1>0, <1>14, <1>15 DEF LocksExclude, locking
<1>17. ASSUME NEW q \in Observers PROVE ObserverOK(observer'[q], baselines', observed')
  <2>1. CASE q = p
    <3>1. observed'[Len(observed) + 1].event = e /\ observed'[Len(observed) + 1].found = F
          /\ Len(observed) + 1 \in 1 .. Len(observed')
      BY <1>6, <1>12
    <3>2. observer'[q] = [at |-> "observed", event |-> e, matched |-> observed'[Len(observed) + 1].found # {}]
      BY <3>1, <2>1, <1>14
    <3> QED
      BY <3>1, <3>2, <1>1 DEF ObserverOK
  <2>2. CASE q # p
    <3>1. observer'[q] = observer[q] /\ ObserverOK(observer[q], baselines, observed)
      BY <2>2, <1>14 DEF UebaInv
    <3>2. CASE observer[q] = NoObservation
      BY <3>1, <3>2 DEF ObserverOK
    <3>3. ASSUME NEW f \in uebaEventIds, NEW h \in {{}, {lockOrder(f)[1]}, locksOf(f)},
                 observer[q] = [at |-> "locking", event |-> f, held |-> h]
          PROVE  ObserverOK(observer'[q], baselines', observed')
      BY <3>1, <3>3 DEF ObserverOK
    <3>4. ASSUME NEW f \in uebaEventIds,
                 observer[q] = [at |-> "read", event |-> f, held |-> locksOf(f),
                                entity |-> baselines[entityOf(f)], peer |-> baselines[peerOf(f)]]
          PROVE  ObserverOK(observer'[q], baselines', observed')
      <4>1. observer[q].at = "read" /\ observer[q].held = locksOf(f)
        BY <3>4
      <4>2. locksOf(e) \cap locksOf(f) = {}
        BY <4>1, <2>2, <1>0, <1>1, <1>2 DEF LocksExclude, locking
      <4>3. entityOf(f) \notin {k, g} /\ peerOf(f) \notin {k, g}
        BY <4>2 DEF locksOf
      <4>4. entityOf(f) \in baselineKeys /\ peerOf(f) \in baselineKeys
        BY DEF baselineKeys
      <4>5. baselines'[entityOf(f)] = baselines[entityOf(f)] /\ baselines'[peerOf(f)] = baselines[peerOf(f)]
        <5> HIDE DEF k, g
        <5> QED
          BY <4>3, <4>4, <1>8
      <4>6. observer'[q] = [at |-> "read", event |-> f, held |-> locksOf(f),
                            entity |-> baselines'[entityOf(f)], peer |-> baselines'[peerOf(f)]]
        BY <3>1, <3>4, <4>5, Zenon
      <4> QED
        BY <4>6 DEF ObserverOK
    <3>5. ASSUME NEW f \in uebaEventIds, NEW i \in 1 .. Len(observed), observed[i].event = f,
                 observer[q] = [at |-> "observed", event |-> f, matched |-> observed[i].found # {}]
          PROVE  ObserverOK(observer'[q], baselines', observed')
      <4>1. i \in 1 .. Len(observed') /\ observed'[i] = observed[i]
        BY <1>12
      <4>2. observed'[i].event = f
            /\ observer'[q] = [at |-> "observed", event |-> f, matched |-> observed'[i].found # {}]
        BY <4>1, <3>1, <3>5
      <4> QED
        BY <4>1, <4>2 DEF ObserverOK
    <3> QED
      BY <3>1, <3>2, <3>3, <3>4, <3>5 DEF ObserverOK
  <2> QED
    BY <2>1, <2>2
<1> QED
  BY <1>8, <1>11, <1>12, <1>13, <1>14, <1>16, <1>17 DEF UebaInv

\* No baseline has learnt anything at the start.
LEMMA UebaStarts == UebaInit => UebaInv
<1> SUFFICES ASSUME UebaInit PROVE UebaInv
  OBVIOUS
<1>1. /\ observed = <<>> /\ observer = [p \in Observers |-> NoObservation]
      /\ baselines = [k \in baselineKeys |-> NewBaseline]
  BY DEF UebaInit
<1>2. observed \in Seq(Observations) /\ Len(observed) = 0
  BY <1>1
<1>3. /\ baselines = [k \in baselineKeys |-> baselines[k]]
      /\ observer = [p \in Observers |-> observer[p]]
  BY <1>1
<1>4. \A p \in Observers : observer[p] = NoObservation /\ observer[p].at = "idle"
  BY <1>1 DEF NoObservation
<1>5. LocksExclude
  BY <1>4 DEF LocksExclude, locking
<1>6. ASSUME NEW e \in uebaEventIds PROVE LearntOf(entityOf(e), baselines[entityOf(e)], observed)
  <2> DEFINE k == entityOf(e)
             b == NewBaseline
  <2>1. baselines[k] = b
    BY <1>1, LockFacts
  <2>2. b.observations = 0 /\ b.last = 0 /\ b.profile.devices = <<>>
        /\ b = [observations |-> b.observations, last |-> b.last, profile |-> b.profile]
    BY DEF NewBaseline, NewProfile
  <2>3. DOMAIN <<>> = {}
    OBVIOUS
  <2>4. BaselineOK(b) /\ DOMAIN b.profile.devices = {}
    BY <2>2, <2>3 DEF BaselineOK, Counts
  <2>5. History(k, observed) = {}
    BY <1>2 DEF History
  <2>6. Cardinality({}) = 0
    BY FS_EmptySet
  <2> HIDE DEF b, k
  <2> QED
    BY <2>1, <2>2, <2>4, <2>5, <2>6 DEF LearntOf, k
<1> QED
  BY <1>2, <1>3, <1>4, <1>5, <1>6 DEF UebaInv, ObserverOK

\* Every step of the processors keeps the invariant of learning.
LEMMA UebaStep == UebaInv /\ [UebaNext]_uebaVars => UebaInv'
<1> SUFFICES ASSUME UebaInv, [UebaNext]_uebaVars PROVE UebaInv'
  OBVIOUS
<1>1. CASE UNCHANGED <<baselines, observer, observed>>
  BY <1>1 DEF UebaInv, LocksExclude, locking
<1>2. ASSUME NEW p \in Observers, ObserveUEBAEvent(p) PROVE UebaInv'
  BY <1>2, ObserveStep
<1>3. UNCHANGED uebaVars => UNCHANGED <<baselines, observer, observed>>
  BY DEF uebaVars
<1>4. \A e, version, status : Feedback(e, version, status) => UNCHANGED <<baselines, observer, observed>>
  BY DEF Feedback
<1> QED
  BY <1>1, <1>2, <1>3, <1>4, ObserverSteps DEF UebaNext

\* The observations of an event in a history, and those that found something.
ObservationsOf(e, obs) == {i \in 1 .. Len(obs) : obs[i].event = e}
Findings(e, obs) == {i \in ObservationsOf(e, obs) : obs[i].found # {}}
FeedbackGiven == [saw : Nat, status : {"CONFIRMED", "FALSE_POSITIVE"}]

\* What the anomalies an and the feedback fb of an event have of its history.
KeptOf(e, an, fb, obs) ==
    /\ fb \in Seq(FeedbackGiven) /\ \A n \in 1 .. Len(fb) : fb[n].saw = n
    /\ (an = {}) <=> (Findings(e, obs) = {})
    /\ an = {} => Len(fb) = 0
    /\ \A a \in an :
          /\ a = [features |-> a.features, risk |-> a.risk, status |-> a.status, version |-> a.version]
          /\ \E i \in Findings(e, obs) : a.features = obs[i].found /\ \A j \in Findings(e, obs) : i <= j
          /\ a.version = Len(fb) + 1

\* An event that was processed after its one observation has its alert.
AlertedOf(e, obs, done, alerts) ==
    /\ e \in done => ObservationsOf(e, obs) # {}
    /\ e \in done /\ Findings(e, obs) # {} /\ (\A i, j \in ObservationsOf(e, obs) : i = j) => e \in alerts
    /\ e \in alerts => Findings(e, obs) # {}

AnomalyInv ==
    /\ anomalies = [e \in uebaEventIds |-> anomalies[e]] /\ feedback = [e \in uebaEventIds |-> feedback[e]]
    /\ \A e \in uebaEventIds : /\ KeptOf(e, anomalies[e], feedback[e], observed)
                               /\ AlertedOf(e, observed, pipelineDone, behaviorAlerts)

\* What one more observation o adds to the observations and findings of an event.
LEMMA FindingsGrow ==
  ASSUME NEW obs \in Seq(Observations), NEW o \in Observations, NEW e
  PROVE  LET n == Len(obs) + 1 grown == Append(obs, o) IN
         /\ \A i \in ObservationsOf(e, obs) : i \in 1 .. Len(obs) /\ i < n /\ grown[i] = obs[i]
         /\ grown[n] = o /\ n \in Nat
         /\ ObservationsOf(e, grown) = IF o.event = e THEN ObservationsOf(e, obs) \cup {n} ELSE ObservationsOf(e, obs)
         /\ Findings(e, grown) = IF o.event = e /\ o.found # {} THEN Findings(e, obs) \cup {n} ELSE Findings(e, obs)
<1> DEFINE n == Len(obs) + 1
           grown == Append(obs, o)
<1>1. /\ Len(grown) = n /\ Len(obs) \in Nat /\ grown[n] = o
      /\ \A i \in 1 .. Len(obs) : grown[i] = obs[i]
  BY AppendProperties
<1> HIDE DEF grown
<1>2. \A i \in 1 .. n : i \in 1 .. Len(obs) \/ i = n
  BY <1>1
<1>3. \A i \in 1 .. Len(obs) : i \in 1 .. n /\ i < n
  BY <1>1
<1>4. n \in 1 .. n /\ n \in Nat
  BY <1>1
<1> HIDE DEF n
<1>5. ObservationsOf(e, grown) = IF o.event = e THEN ObservationsOf(e, obs) \cup {n} ELSE ObservationsOf(e, obs)
  BY <1>1, <1>2, <1>3, <1>4 DEF ObservationsOf
<1>6. \A i \in ObservationsOf(e, obs) : i \in 1 .. Len(obs)
  BY DEF ObservationsOf
<1>7. Findings(e, grown) = IF o.event = e /\ o.found # {} THEN Findings(e, obs) \cup {n} ELSE Findings(e, obs)
  BY <1>1, <1>5, <1>6 DEF Findings
<1> QED
  BY <1>1, <1>3, <1>4, <1>5, <1>6, <1>7 DEF n, grown

\* The first finding makes the anomaly, a later one leaves it.
LEMMA AnomalyInserted ==
  ASSUME NEW obs \in Seq(Observations), NEW o \in Observations, NEW e, NEW an, NEW fb, NEW risk,
         KeptOf(e, an, fb, obs), NEW kept,
         kept = IF o.event # e \/ o.found = {} \/ an # {} THEN an
                ELSE {[features |-> o.found, risk |-> risk, status |-> "NEW", version |-> 1]}
  PROVE  KeptOf(e, kept, fb, Append(obs, o))
<1> DEFINE n == Len(obs) + 1
           grown == Append(obs, o)
<1>1. /\ \A i \in ObservationsOf(e, obs) : i \in 1 .. Len(obs) /\ i < n /\ grown[i] = obs[i]
      /\ grown[n] = o /\ n \in Nat
      /\ Findings(e, grown) = IF o.event = e /\ o.found # {} THEN Findings(e, obs) \cup {n} ELSE Findings(e, obs)
  BY FindingsGrow
<1> HIDE DEF grown, n
<1>2. \A i \in Findings(e, obs) : i < n /\ grown[i] = obs[i] /\ i \in Nat
  BY <1>1 DEF Findings
<1>3. CASE o.event # e \/ o.found = {}
  <2>1. Findings(e, grown) = Findings(e, obs) /\ kept = an
    BY <1>1, <1>3
  <2> QED
    BY <2>1, <1>2 DEF KeptOf, grown
<1>4. CASE o.event = e /\ o.found # {} /\ an # {}
  <2>1. Findings(e, grown) = Findings(e, obs) \cup {n} /\ kept = an /\ Findings(e, grown) # {}
    BY <1>1, <1>4
  <2>2. ASSUME NEW a \in an
        PROVE  \E i \in Findings(e, grown) : a.features = grown[i].found /\ \A j \in Findings(e, grown) : i <= j
    <3>1. PICK i \in Findings(e, obs) : a.features = obs[i].found /\ \A j \in Findings(e, obs) : i <= j
      BY DEF KeptOf
    <3>2. i <= n
      BY <1>1, <1>2
    <3> QED
      BY <3>1, <3>2, <2>1, <1>2
  <2> QED
    BY <2>1, <2>2, <1>4 DEF KeptOf, grown
<1>5. CASE o.event = e /\ o.found # {} /\ an = {}
  <2> DEFINE a == [features |-> o.found, risk |-> risk, status |-> "NEW", version |-> 1]
  <2>1. Findings(e, obs) = {} /\ Len(fb) = 0 /\ kept = {a}
    BY <1>5 DEF KeptOf
  <2>2. Findings(e, grown) = {n} /\ n <= n
    BY <2>1, <1>1, <1>5
  <2>3. a.features = grown[n].found /\ a.version = 1
        /\ a = [features |-> a.features, risk |-> a.risk, status |-> a.status, version |-> a.version]
    BY <1>1
  <2> HIDE DEF a
  <2>4. fb \in Seq(FeedbackGiven) /\ \A m \in 1 .. Len(fb) : fb[m].saw = m
    BY DEF KeptOf
  <2>5. \E i \in Findings(e, grown) : a.features = grown[i].found /\ \A j \in Findings(e, grown) : i <= j
    BY <2>2, <2>3
  <2>6. a.version = Len(fb) + 1
    BY <2>1, <2>3
  <2>7. kept # {} /\ Findings(e, grown) # {}
    BY <2>1, <2>2
  <2>8. KeptOf(e, kept, fb, grown)
    BY <2>1, <2>3, <2>4, <2>5, <2>6, <2>7 DEF KeptOf
  <2> QED
    BY <2>8 DEF grown
<1> QED
  BY <1>3, <1>4, <1>5

\* An observation keeps what is known of the alert of an event.
LEMMA AlertObserved ==
  ASSUME NEW obs \in Seq(Observations), NEW o \in Observations, NEW e, NEW done, NEW alerts,
         AlertedOf(e, obs, done, alerts)
  PROVE  AlertedOf(e, Append(obs, o), done, alerts)
<1> DEFINE n == Len(obs) + 1
           grown == Append(obs, o)
<1>1. /\ \A i \in ObservationsOf(e, obs) : i \in 1 .. Len(obs) /\ i < n /\ grown[i] = obs[i]
      /\ n \in Nat
      /\ ObservationsOf(e, grown) = IF o.event = e THEN ObservationsOf(e, obs) \cup {n} ELSE ObservationsOf(e, obs)
      /\ Findings(e, grown) = IF o.event = e /\ o.found # {} THEN Findings(e, obs) \cup {n} ELSE Findings(e, obs)
  BY FindingsGrow
<1> HIDE DEF grown, n
<1>2. CASE o.event # e
  BY <1>1, <1>2 DEF AlertedOf, grown
<1>3. CASE o.event = e
  <2>1. ObservationsOf(e, grown) = ObservationsOf(e, obs) \cup {n}
    BY <1>1, <1>3
  <2>2. Findings(e, obs) \subseteq Findings(e, grown)
    BY <1>1
  <2>3. ASSUME e \in done PROVE \E i, j \in ObservationsOf(e, grown) : i # j
    <3>1. PICK i \in ObservationsOf(e, obs) : TRUE
      BY <2>3 DEF AlertedOf
    <3>2. i # n
      BY <3>1, <1>1
    <3> QED
      BY <3>2, <2>1
  <2> QED
    BY <2>1, <2>2, <2>3 DEF AlertedOf, grown
<1> QED
  BY <1>2, <1>3

\* Accepted feedback names the next version of the anomaly.
LEMMA FeedbackKept ==
  ASSUME NEW obs, NEW e, NEW an, NEW fb, KeptOf(e, an, fb, obs), NEW version,
         NEW status \in {"CONFIRMED", "FALSE_POSITIVE"}, \E a \in an : a.version = version
  PROVE  KeptOf(e, {[a EXCEPT !.status = status, !.version = @ + 1] : a \in an},
                Append(fb, [saw |-> version, status |-> status]), obs)
<1> DEFINE given == [saw |-> version, status |-> status]
           said == Append(fb, given)
           moved == {[a EXCEPT !.status = status, !.version = @ + 1] : a \in an}
<1>1. fb \in Seq(FeedbackGiven) /\ Len(fb) \in Nat /\ version = Len(fb) + 1 /\ an # {}
  BY DEF KeptOf
<1>2. given \in FeedbackGiven /\ given.saw = version
  BY <1>1 DEF FeedbackGiven
<1> HIDE DEF given
<1>3. /\ said \in Seq(FeedbackGiven) /\ Len(said) = Len(fb) + 1 /\ said[Len(fb) + 1] = given
      /\ \A m \in 1 .. Len(fb) : said[m] = fb[m]
  BY <1>1, <1>2, AppendProperties
<1> HIDE DEF said
<1>4. \A m \in 1 .. Len(said) : said[m].saw = m
  <2> TAKE m \in 1 .. Len(said)
  <2>1. CASE m \in 1 .. Len(fb)
    BY <2>1, <1>3 DEF KeptOf
  <2>2. CASE m = Len(fb) + 1
    BY <2>2, <1>1, <1>2, <1>3
  <2> QED
    BY <2>1, <2>2, <1>1, <1>3
<1>5. moved # {} /\ Findings(e, obs) # {}
  <2>1. Findings(e, obs) # {}
    BY <1>1 DEF KeptOf
  <2>2. PICK a : a \in an
    BY <1>1
  <2>3. [a EXCEPT !.status = status, !.version = @ + 1] \in moved
    BY <2>2
  <2> QED
    BY <2>1, <2>3
<1>6. ASSUME NEW b \in moved
      PROVE  /\ b = [features |-> b.features, risk |-> b.risk, status |-> b.status, version |-> b.version]
             /\ \E i \in Findings(e, obs) : b.features = obs[i].found /\ \A j \in Findings(e, obs) : i <= j
             /\ b.version = Len(said) + 1
  <2>1. PICK a \in an : b = [a EXCEPT !.status = status, !.version = @ + 1]
    OBVIOUS
  <2>2. a = [features |-> a.features, risk |-> a.risk, status |-> a.status, version |-> a.version]
        /\ a.version = Len(fb) + 1
    BY DEF KeptOf
  <2>3. b = [features |-> a.features, risk |-> a.risk, status |-> status, version |-> a.version + 1]
    BY <2>1, <2>2
  <2>4. b.features = a.features /\ b.risk = a.risk /\ b.status = status /\ b.version = a.version + 1
    BY <2>3
  <2>5. \E i \in Findings(e, obs) : a.features = obs[i].found /\ \A j \in Findings(e, obs) : i <= j
    BY DEF KeptOf
  <2>6. b.version = Len(said) + 1
    BY <2>2, <2>4, <1>3
  <2> QED
    BY <2>3, <2>4, <2>5, <2>6
<1> HIDE DEF moved
<1>7. KeptOf(e, moved, said, obs)
  BY <1>3, <1>4, <1>5, <1>6 DEF KeptOf
<1> QED
  BY <1>7 DEF moved, said, given

\* Nothing has been found, said or processed at the start.
LEMMA AnomalyStarts == UebaInit => AnomalyInv
<1> SUFFICES ASSUME UebaInit PROVE AnomalyInv
  OBVIOUS
<1>1. /\ observed = <<>> /\ pipelineDone = {} /\ behaviorAlerts = {}
      /\ anomalies = [e \in uebaEventIds |-> {}] /\ feedback = [e \in uebaEventIds |-> <<>>]
  BY DEF UebaInit
<1>2. Len(observed) = 0
  BY <1>1
<1>3. ASSUME NEW e \in uebaEventIds
      PROVE  KeptOf(e, anomalies[e], feedback[e], observed) /\ AlertedOf(e, observed, pipelineDone, behaviorAlerts)
  <2>1. anomalies[e] = {} /\ feedback[e] = <<>>
    BY <1>1
  <2>2. ObservationsOf(e, observed) = {} /\ Findings(e, observed) = {}
    BY <1>2 DEF ObservationsOf, Findings
  <2>3. feedback[e] \in Seq(FeedbackGiven) /\ Len(feedback[e]) = 0
    BY <2>1
  <2> QED
    BY <2>1, <2>2, <2>3, <1>1 DEF KeptOf, AlertedOf
<1> QED
  BY <1>1, <1>3 DEF AnomalyInv

\* An observation keeps its finding with what it learns.
LEMMA AnomalyObserve ==
  ASSUME UebaInv, AnomalyInv, NEW p \in Observers, ObserveUEBAEvent(p)
  PROVE  AnomalyInv'
<1> DEFINE e == observer[p].event
           F == Evaluate(decayBaseline(observer[p].entity, UebaEvents[e].day),
                         decayBaseline(observer[p].peer, UebaEvents[e].day), e)
           full == Cardinality(DOMAIN baselines[entityOf(e)].profile.devices) >= MaximumCardinality
           o == [event |-> e, found |-> F, full |-> full]
<1>1. /\ anomalies' = [anomalies EXCEPT ![e] = insertUEBAAnomaly(e, F)]
      /\ observed' = Append(observed, o) /\ observer[p].at = "read"
      /\ pipelineDone' = pipelineDone /\ behaviorAlerts' = behaviorAlerts /\ feedback' = feedback
  BY DEF ObserveUEBAEvent
<1>2. F \in SUBSET Features
  BY DEF Evaluate, Features
<1>3. e \in uebaEventIds
  BY <1>1 DEF UebaInv, ObserverOK, NoObservation
<1> HIDE DEF F, full
<1>4. full \in BOOLEAN
  BY DEF full
<1>5. o \in Observations /\ o.event = e /\ o.found = F
  BY <1>2, <1>3, <1>4 DEF Observations
<1> HIDE DEF o
<1>6. observed \in Seq(Observations)
  BY DEF UebaInv
<1>7. /\ anomalies = [f \in uebaEventIds |-> anomalies[f]] /\ feedback = [f \in uebaEventIds |-> feedback[f]]
      /\ \A f \in uebaEventIds : /\ KeptOf(f, anomalies[f], feedback[f], observed)
                                 /\ AlertedOf(f, observed, pipelineDone, behaviorAlerts)
  BY DEF AnomalyInv
<1> DEFINE kept(f) == IF o.event # f \/ o.found = {} \/ anomalies[f] # {} THEN anomalies[f]
                      ELSE {[features |-> o.found, risk |-> riskOf(F), status |-> "NEW", version |-> 1]}
<1>8. ASSUME NEW f \in uebaEventIds PROVE anomalies'[f] = kept(f)
  <2>1. CASE f = e
    <3>1. anomalies'[f] = insertUEBAAnomaly(e, F)
      BY <2>1, <1>1, <1>3, <1>7
    <3> QED
      BY <3>1, <2>1, <1>5 DEF insertUEBAAnomaly
  <2>2. CASE f # e
    <3>1. anomalies'[f] = anomalies[f]
      BY <2>2, <1>1, <1>7
    <3> QED
      BY <3>1, <2>2, <1>5
  <2> QED
    BY <2>1, <2>2
<1>9. ASSUME NEW f \in uebaEventIds
      PROVE  KeptOf(f, anomalies'[f], feedback'[f], observed') /\ AlertedOf(f, observed', pipelineDone', behaviorAlerts')
  <2>1. KeptOf(f, anomalies[f], feedback[f], observed) /\ AlertedOf(f, observed, pipelineDone, behaviorAlerts)
    BY <1>7
  <2> DEFINE an == anomalies[f]
             new == anomalies'[f]
             fb == feedback[f]
             risk == riskOf(F)
  <2>2. new = IF o.event # f \/ o.found = {} \/ an # {} THEN an
              ELSE {[features |-> o.found, risk |-> risk, status |-> "NEW", version |-> 1]}
    BY <1>8
  <2> HIDE DEF an, new, fb, risk
  <2>3. KeptOf(f, new, fb, Append(observed, o))
    BY <2>1, <2>2, <1>5, <1>6, AnomalyInserted DEF an, fb
  <2>4. AlertedOf(f, Append(observed, o), pipelineDone, behaviorAlerts)
    BY <2>1, <1>5, <1>6, AlertObserved
  <2> QED
    BY <2>3, <2>4, <1>1 DEF new, fb
<1>10. anomalies' = [f \in uebaEventIds |-> anomalies'[f]]
  BY <1>1, <1>7
<1> QED
  BY <1>1, <1>7, <1>9, <1>10 DEF AnomalyInv

\* The match that becomes an alert is the finding of an observation.
LEMMA AnomalyMatched ==
  ASSUME UebaInv, AnomalyInv, NEW p \in Observers, matchUEBA(p)
  PROVE  AnomalyInv'
<1> DEFINE e == observer[p].event
           matched == IF observer[p].matched THEN {e} ELSE {}
<1>1. /\ observer[p].at = "observed"
      /\ behaviorAlerts' = behaviorAlerts \cup matched /\ pipelineDone' = pipelineDone \cup {e}
      /\ anomalies' = anomalies /\ feedback' = feedback /\ observed' = observed
  BY DEF matchUEBA
<1>2. PICK f \in uebaEventIds, i \in 1 .. Len(observed) :
         /\ observed[i].event = f
         /\ observer[p] = [at |-> "observed", event |-> f, matched |-> observed[i].found # {}]
  <2>1. ObserverOK(observer[p], baselines, observed)
    BY DEF UebaInv
  <2>2. observer[p] # NoObservation
    BY <1>1 DEF NoObservation
  <2>3. \A f, h : observer[p] # [at |-> "locking", event |-> f, held |-> h]
    BY <1>1
  <2>4. \A f, h, b, g : observer[p] # [at |-> "read", event |-> f, held |-> h, entity |-> b, peer |-> g]
    BY <1>1
  <2> QED
    BY <2>1, <2>2, <2>3, <2>4, Zenon DEF ObserverOK
<1>3. e = f /\ observer[p].matched = (observed[i].found # {})
  BY <1>2
<1>4. i \in ObservationsOf(f, observed)
  BY <1>2 DEF ObservationsOf
<1>5. /\ anomalies = [x \in uebaEventIds |-> anomalies[x]] /\ feedback = [x \in uebaEventIds |-> feedback[x]]
      /\ \A x \in uebaEventIds : /\ KeptOf(x, anomalies[x], feedback[x], observed)
                                 /\ AlertedOf(x, observed, pipelineDone, behaviorAlerts)
  BY DEF AnomalyInv
<1>6. AlertedOf(f, observed, pipelineDone \cup {f}, behaviorAlerts \cup matched)
  <2>1. CASE observed[i].found # {}
    <3>1. f \in matched /\ i \in Findings(f, observed)
      BY <2>1, <1>3, <1>4 DEF Findings
    <3> QED
      BY <3>1, <1>4 DEF AlertedOf
  <2>2. CASE observed[i].found = {}
    <3>1. matched = {} /\ i \notin Findings(f, observed)
      BY <2>2, <1>3 DEF Findings
    <3>2. ASSUME \A j, k \in ObservationsOf(f, observed) : j = k PROVE Findings(f, observed) = {}
      BY <3>1, <3>2, <1>4 DEF Findings
    <3>3. f \in behaviorAlerts => Findings(f, observed) # {}
      BY <1>5 DEF AlertedOf
    <3> QED
      BY <3>1, <3>2, <3>3, <1>4 DEF AlertedOf
  <2> QED
    BY <2>1, <2>2
<1>7. ASSUME NEW x \in uebaEventIds, x # f
      PROVE  AlertedOf(x, observed, pipelineDone \cup {f}, behaviorAlerts \cup matched)
  <2>1. (x \in pipelineDone \cup {f} <=> x \in pipelineDone) /\ (x \in behaviorAlerts \cup matched <=> x \in behaviorAlerts)
    BY <1>3, <1>7
  <2> QED
    BY <2>1, <1>5 DEF AlertedOf
<1>8. \A x \in uebaEventIds : AlertedOf(x, observed', pipelineDone', behaviorAlerts')
  BY <1>1, <1>3, <1>6, <1>7
<1> QED
  BY <1>1, <1>5, <1>8 DEF AnomalyInv

\* Feedback on the version that is current moves the anomaly to the next version.
LEMMA AnomalyFeedback ==
  ASSUME AnomalyInv, NEW e \in uebaEventIds, NEW version, NEW status \in {"CONFIRMED", "FALSE_POSITIVE"},
         Feedback(e, version, status)
  PROVE  AnomalyInv'
<1> DEFINE moved == {[a EXCEPT !.status = status, !.version = @ + 1] : a \in anomalies[e]}
           said == Append(feedback[e], [saw |-> version, status |-> status])
<1>1. /\ anomalies' = [anomalies EXCEPT ![e] = moved] /\ feedback' = [feedback EXCEPT ![e] = said]
      /\ \E a \in anomalies[e] : a.version = version
      /\ observed' = observed /\ pipelineDone' = pipelineDone /\ behaviorAlerts' = behaviorAlerts
  BY DEF Feedback, currentVersion
<1>2. /\ anomalies = [x \in uebaEventIds |-> anomalies[x]] /\ feedback = [x \in uebaEventIds |-> feedback[x]]
      /\ \A x \in uebaEventIds : /\ KeptOf(x, anomalies[x], feedback[x], observed)
                                 /\ AlertedOf(x, observed, pipelineDone, behaviorAlerts)
  BY DEF AnomalyInv
<1>3. KeptOf(e, moved, said, observed)
  <2>1. KeptOf(e, anomalies[e], feedback[e], observed)
    BY <1>2
  <2> DEFINE an == anomalies[e]
             fb == feedback[e]
             obs == observed
  <2>2. KeptOf(e, an, fb, obs) /\ \E a \in an : a.version = version
    BY <2>1, <1>1
  <2> HIDE DEF an, fb, obs
  <2>3. KeptOf(e, {[a EXCEPT !.status = status, !.version = @ + 1] : a \in an},
               Append(fb, [saw |-> version, status |-> status]), obs)
    BY <2>2, FeedbackKept
  <2> QED
    BY <2>3 DEF an, fb, obs
<1> HIDE DEF moved, said
<1>4. /\ anomalies' = [x \in uebaEventIds |-> anomalies'[x]] /\ feedback' = [x \in uebaEventIds |-> feedback'[x]]
      /\ anomalies'[e] = moved /\ feedback'[e] = said
      /\ \A x \in uebaEventIds : x # e => anomalies'[x] = anomalies[x] /\ feedback'[x] = feedback[x]
  BY <1>1, <1>2
<1>5. ASSUME NEW x \in uebaEventIds PROVE KeptOf(x, anomalies'[x], feedback'[x], observed)
  <2>1. CASE x = e
    BY <2>1, <1>3, <1>4
  <2>2. CASE x # e
    <3>1. anomalies'[x] = anomalies[x] /\ feedback'[x] = feedback[x]
      BY <2>2, <1>4
    <3> QED
      BY <3>1, <1>2
  <2> QED
    BY <2>1, <2>2
<1> QED
  BY <1>1, <1>2, <1>4, <1>5 DEF AnomalyInv

\* Every step keeps the anomalies, their feedback and their alerts in step.
LEMMA AnomalyStep == UebaInv /\ AnomalyInv /\ [UebaNext]_uebaVars => AnomalyInv'
<1> SUFFICES ASSUME UebaInv, AnomalyInv, [UebaNext]_uebaVars PROVE AnomalyInv'
  OBVIOUS
<1> DEFINE still == /\ anomalies' = anomalies /\ feedback' = feedback /\ observed' = observed
                    /\ pipelineDone' = pipelineDone /\ behaviorAlerts' = behaviorAlerts
<1>1. CASE still
  BY <1>1 DEF AnomalyInv
<1>2. UNCHANGED uebaVars => still
  BY DEF uebaVars
<1>3. ASSUME NEW p \in Observers, \/ \E e \in uebaEventIds : Deliver(p, e)
                                  \/ lockNext(p) \/ lockUEBABaseline(p) \/ ProcessingFails(p)
      PROVE  still
  BY <1>3 DEF Deliver, lockNext, lockUEBABaseline, ProcessingFails
<1> QED
  BY <1>1, <1>2, <1>3, AnomalyObserve, AnomalyMatched, AnomalyFeedback DEF UebaNext

\* The invariants say what BaselineIsFaithful says.
LEMMA BaselineFollows == UebaInv /\ AnomalyInv => BaselineIsFaithful
<1> SUFFICES ASSUME UebaInv, AnomalyInv PROVE NoveltyIsFaithful /\ AnomalyIsKept
  BY DEF BaselineIsFaithful
<1>1. observed \in Seq(Observations) /\ Len(observed) \in Nat /\ DOMAIN observed = 1 .. Len(observed)
  BY DEF UebaInv
<1>2. NoveltyIsFaithful
  <2>1. \A i, j : lateAfter(i, j) = (dayOf(observed, j) > dayOf(observed, i) + 1)
    BY DEF lateAfter, dayOf
  <2>2. \A i : earlier(i) = Before(observed, i)
    BY DEF earlier, Before
  <2>3. \A i, j : sameDevice(i, j) = (deviceOf(observed, i) = deviceOf(observed, j))
    BY DEF sameDevice, deviceOf
  <2>4. \A i \in 1 .. Len(observed) : NovelAt(observed, i)
    BY DEF UebaInv
  <2> QED
    BY <2>1, <2>2, <2>3, <2>4, <1>1 DEF NoveltyIsFaithful, NovelAt
<1>3. ASSUME NEW e \in uebaEventIds PROVE AnomalyIsKept!(e)
  <2> DEFINE foundAt == {i \in DOMAIN observed : observed[i].event = e /\ observed[i].found # {}}
  <2>1. KeptOf(e, anomalies[e], feedback[e], observed) /\ AlertedOf(e, observed, pipelineDone, behaviorAlerts)
    BY DEF AnomalyInv
  <2>2. foundAt = Findings(e, observed)
    BY <1>1 DEF Findings, ObservationsOf
  <2>3. ObservationsOf(e, observed) = {i \in DOMAIN observed : observed[i].event = e}
    BY <1>1 DEF ObservationsOf
  <2>4. ASSUME observations(e) = 1 PROVE \A i, j \in ObservationsOf(e, observed) : i = j
    <3> DEFINE S == ObservationsOf(e, observed)
    <3>1. IsFiniteSet(1 .. Len(observed))
      BY <1>1, FS_Interval
    <3>2. IsFiniteSet(S)
      BY <3>1, FS_Subset DEF ObservationsOf
    <3>3. Cardinality(S) = 1
      BY <2>3, <2>4 DEF observations
    <3> HIDE DEF S
    <3>4. \E x : S = {x}
      BY <3>2, <3>3, FS_Singleton
    <3> QED
      BY <3>4 DEF S
  <2>5. DOMAIN feedback[e] = 1 .. Len(feedback[e])
    BY <2>1 DEF KeptOf
  <2> HIDE DEF foundAt
  <2>6. (anomalies[e] = {}) <=> (foundAt = {})
    BY <2>1, <2>2 DEF KeptOf
  <2>7. ASSUME NEW a \in anomalies[e]
        PROVE  /\ \E i \in foundAt : a.features = observed[i].found /\ \A j \in foundAt : i <= j
               /\ a.version = Len(feedback[e]) + 1
               /\ \A n \in DOMAIN feedback[e] : feedback[e][n].saw = n
               /\ e \in pipelineDone /\ observations(e) = 1 => e \in behaviorAlerts
    <3>1. foundAt # {}
      BY <2>6
    <3>2. e \in pipelineDone /\ observations(e) = 1 => e \in behaviorAlerts
      BY <3>1, <2>1, <2>2, <2>4 DEF AlertedOf
    <3> QED
      BY <3>2, <2>1, <2>2, <2>5 DEF KeptOf
  <2>8. e \in behaviorAlerts => anomalies[e] # {}
    BY <2>1, <2>2, <2>6 DEF AlertedOf
  <2> QED
    BY <2>6, <2>7, <2>8 DEF foundAt
<1> QED
  BY <1>2, <1>3 DEF AnomalyIsKept

\* BaselineIsFaithful holds for any processors, events, decay and bounds.
THEOREM BaselineStaysFaithful == UebaSpec => []BaselineIsFaithful
<1>1. UebaInit => UebaInv /\ AnomalyInv
  BY UebaStarts, AnomalyStarts
<1>2. UebaInv /\ AnomalyInv /\ [UebaNext]_uebaVars => (UebaInv /\ AnomalyInv)'
  BY UebaStep, AnomalyStep
<1> QED
  BY <1>1, <1>2, BaselineFollows, PTL DEF UebaSpec
=============================================================================
