--------------------------- MODULE AgentDelivery ---------------------------
(***************************************************************************)
(* Store-and-forward delivery of host telemetry: one agent, its telemetry  *)
(* source with a durable checkpoint, its on-disk queue, the batch ingest   *)
(* handler of the API and the raw Kafka topic behind it.                   *)
(*                                                                         *)
(* The agent is one loop: drain the queue, then poll the source.  The      *)
(* gateway runs beside it, so an answer may be late, lost, or come after   *)
(* only a part of the batch was published, and a request the agent has     *)
(* given up on may go on publishing.  The agent may stop at any step and   *)
(* starts again from the files on its disk.                                *)
(***************************************************************************)
EXTENDS Integers, Sequences, FiniteSets

CONSTANTS
    NEvents,    \* the source's log is the events 1..NEvents, in order
    Size,       \* bytes of the queue file of an event
    Estimate,   \* bytes the event is estimated to take in a request
    MaxBytes,   \* KCSP_AGENT_QUEUE_MAX_BYTES, the limit of the queue
    BatchSize,  \* KCSP_AGENT_BATCH_SIZE, events per read and per request
    BatchBytes, \* KCSP_AGENT_BATCH_MAX_BYTES, estimated bytes per request
    Quota,      \* licensed events per quota window
    MaxFaults   \* bound on crashes, failed calls and lost answers

Events == 1..NEvents

ASSUME DeliveryAssumption ==
    /\ NEvents \in Nat
    /\ Size \in [Events -> Nat]
    /\ Estimate \in [Events -> Nat]
    /\ MaxBytes \in Nat /\ BatchBytes \in Nat /\ Quota \in Nat
    /\ BatchSize \in Nat \ {0}
    /\ MaxFaults \in Nat

VARIABLES
    cursor,     \* the source's durable checkpoint: the last event committed
    readTo,     \* the last event of the page read from the source
    files,      \* the queue directory: the events queued, in name order
    cache,      \* DiskQueue.count, .bytes and .measured
    pc,         \* where the agent's loop is
    unacked,    \* events of the accepted batch still to be acknowledged
    request,    \* the request the agent waits for
    abandoned,  \* requests nobody waits for any more
    topic,      \* copies of each event in the raw topic
    reserved,   \* events reserved in the current quota window
    faults      \* faults so far

agentVars == <<cursor, readTo, files, cache, pc, unacked, request, abandoned,
              topic, reserved, faults>>

Stages == {"received", "admitted", "accepted", "refused"}
Requests == [id : 0..MaxFaults, items : Seq(Events), next : Nat, stage : Stages]
NoRequest == [id |-> 0, items |-> <<>>, next |-> 1, stage |-> "refused"]

\* The weights of a sequence of events, added up.
Total(weight, q) ==
    LET sum[n \in 0..Len(q)] == IF n = 0 THEN 0 ELSE sum[n - 1] + weight[q[n]]
    IN sum[Len(q)]

DiskBytes(q) == Total(Size, q)

\* What a scan of the directory finds.
Measured(q) == [count |-> Len(q), bytes |-> DiskBytes(q), measured |-> TRUE]

EstimatedBytes(q) == Total(Estimate, q)

AgentInit ==
    /\ cursor = 0 /\ readTo = 0
    /\ files = <<>>
    /\ cache = Measured(<<>>)
    /\ pc = "drain" /\ unacked = 0
    /\ request = NoRequest /\ abandoned = {}
    /\ topic = [e \in Events |-> 0]
    /\ reserved = 0
    /\ faults = 0

-----------------------------------------------------------------------------
(* The agent: flush.                                                       *)

Peeked == SubSeq(files, 1, IF Len(files) < BatchSize THEN Len(files) ELSE BatchSize)

\* A prefix of the peeked files is taken while its estimate stays within the
\* request's limit; the first file is taken in any case.
Fits(k) == k = 1 \/ EstimatedBytes(SubSeq(Peeked, 1, k)) <= BatchBytes

Selects(k) ==
    /\ \A j \in 1..k : Fits(j)
    /\ k < Len(Peeked) => ~Fits(k + 1)

\* A mistake: the largest event a request may hold is taken for too large.
MeetsOversizedOffByOne ==
    \E i \in 1..Len(Peeked) :
        /\ Estimate[Peeked[i]] >= BatchBytes
        /\ \A j \in 1..(i - 1) : Fits(j)

\* The loop meets a file that is too large for any request: the ones it takes
\* and the one it stops at are looked at.
MeetsOversized ==
    \E i \in 1..Len(Peeked) :
        /\ Estimate[Peeked[i]] > BatchBytes
        /\ \A j \in 1..(i - 1) : Fits(j)

\* flush up to the call of SendBatch.
FlushSend ==
    /\ pc = "drain" /\ files # <<>> /\ ~MeetsOversized
    /\ \E k \in 1..Len(Peeked) :
          /\ Selects(k)
          /\ request' = [id |-> faults, items |-> SubSeq(files, 1, k),
                         next |-> 1, stage |-> "received"]
    /\ pc' = "await"
    /\ UNCHANGED <<cursor, readTo, files, cache, unacked, abandoned, topic,
                   reserved, faults>>

\* flush with nothing to send, or refusing an event too large to be sent.
FlushNothing ==
    /\ pc = "drain" /\ (files = <<>> \/ MeetsOversized)
    /\ pc' = "read"
    /\ UNCHANGED <<cursor, readTo, files, cache, unacked, request, abandoned,
                   topic, reserved, faults>>

\* SendBatch returns one receipt per event.
SendAccepted ==
    /\ pc = "await" /\ request.stage = "accepted"
    /\ unacked' = Len(request.items)
    /\ pc' = "ack"
    /\ UNCHANGED <<cursor, readTo, files, cache, request, abandoned, topic,
                   reserved, faults>>

\* A mistake: an answer that is no 202 is taken for the batch's receipt.
SendRefusedAcknowledges ==
    /\ pc = "await" /\ request.stage = "refused"
    /\ unacked' = Len(request.items)
    /\ pc' = "ack"
    /\ UNCHANGED <<cursor, readTo, files, cache, request, abandoned, topic,
                   reserved, faults>>

\* SendBatch returns an error: the gateway said so.
SendRefused ==
    /\ pc = "await" /\ request.stage = "refused"
    /\ request' = NoRequest
    /\ pc' = "read"
    /\ UNCHANGED <<cursor, readTo, files, cache, unacked, abandoned, topic,
                   reserved, faults>>

\* SendBatch returns an error: the connection failed or the answer is late.
SendTimesOut ==
    /\ pc = "await" /\ faults < MaxFaults
    /\ abandoned' = abandoned \union {request}
    /\ request' = NoRequest
    /\ pc' = "read"
    /\ faults' = faults + 1
    /\ UNCHANGED <<cursor, readTo, files, cache, unacked, topic, reserved>>

\* A mistake: the size of a file that is gone is not taken off the total.
AckedForgetsBytes ==
    [cache EXCEPT !.count = IF @ > 0 THEN @ - 1 ELSE 0]

\* Ack of the first file of the batch.
Acked ==
    LET count == IF cache.count > 0 THEN cache.count - 1 ELSE 0
        bytes == cache.bytes - Size[Head(files)]
    IN [count    |-> count, bytes |-> bytes,
        measured |-> cache.measured /\ ~(bytes < 0 \/ (count = 0 /\ bytes # 0))]

Ack ==
    /\ pc = "ack" /\ unacked > 0
    /\ files' = Tail(files)
    /\ cache' = Acked
    /\ unacked' = unacked - 1
    /\ UNCHANGED <<cursor, readTo, pc, request, abandoned, topic, reserved,
                   faults>>

\* os.Remove fails: flush reports no event as sent and leaves the rest queued.
AckFails ==
    /\ pc = "ack" /\ unacked > 0 /\ faults < MaxFaults
    /\ cache' = [cache EXCEPT !.measured = FALSE]
    /\ unacked' = 0 /\ request' = NoRequest
    /\ pc' = "read"
    /\ faults' = faults + 1
    /\ UNCHANGED <<cursor, readTo, files, abandoned, topic, reserved>>

\* drain goes on only after a full batch and within its time budget.
FlushDone ==
    /\ pc = "ack" /\ unacked = 0
    /\ pc' \in IF Len(request.items) < BatchSize THEN {"read"}
               ELSE {"drain", "read"}
    /\ request' = NoRequest
    /\ UNCHANGED <<cursor, readTo, files, cache, unacked, abandoned, topic,
                   reserved, faults>>

-----------------------------------------------------------------------------
(* The agent: polling the source.                                          *)

\* source.Read returns the events after the checkpoint, a page at most.
SourceRead ==
    /\ pc = "read"
    /\ readTo' = IF cursor + BatchSize < NEvents THEN cursor + BatchSize ELSE NEvents
    /\ pc' = "poll"
    /\ UNCHANGED <<cursor, files, cache, unacked, request, abandoned, topic,
                   reserved, faults>>

SourceReadFails ==
    /\ pc = "read" /\ faults < MaxFaults
    /\ pc' = "drain"
    /\ faults' = faults + 1
    /\ UNCHANGED <<cursor, readTo, files, cache, unacked, request, abandoned,
                   topic, reserved>>

\* The occupancy enqueueLocked decides on: rescanned when it is not trusted.
Occupancy == IF cache.measured THEN cache ELSE Measured(files)

Enqueue ==
    /\ pc = "poll" /\ cursor < readTo
    /\ Occupancy.bytes + Size[cursor + 1] <= MaxBytes
    /\ files' = Append(files, cursor + 1)
    /\ cache' = [Occupancy EXCEPT !.count = @ + 1, !.bytes = @ + Size[cursor + 1]]
    /\ pc' = "commit"
    /\ UNCHANGED <<cursor, readTo, unacked, request, abandoned, topic,
                   reserved, faults>>

\* ErrQueueFull: the checkpoint stays, the rest of the page is read again.
EnqueueFull ==
    /\ pc = "poll" /\ cursor < readTo
    /\ Occupancy.bytes + Size[cursor + 1] > MaxBytes
    /\ cache' = Occupancy
    /\ pc' = "drain"
    /\ UNCHANGED <<cursor, readTo, files, unacked, request, abandoned, topic,
                   reserved, faults>>

CommitEvent ==
    /\ pc = "commit"
    /\ cursor' = cursor + 1
    /\ pc' = "poll"
    /\ UNCHANGED <<readTo, files, cache, unacked, request, abandoned, topic,
                   reserved, faults>>

PollDone ==
    /\ pc = "poll" /\ cursor >= readTo
    /\ pc' = "drain"
    /\ UNCHANGED <<cursor, readTo, files, cache, unacked, request, abandoned,
                   topic, reserved, faults>>

\* The agent stops, or an error ends its loop, and the service manager starts
\* it again: OpenDiskQueue scans the directory.
Crash ==
    /\ faults < MaxFaults
    /\ abandoned' = IF pc = "await" THEN abandoned \union {request} ELSE abandoned
    /\ request' = NoRequest
    /\ unacked' = 0
    /\ cache' = Measured(files)
    /\ readTo' = cursor
    /\ pc' = "drain"
    /\ faults' = faults + 1
    /\ UNCHANGED <<cursor, files, topic, reserved>>

-----------------------------------------------------------------------------
(* The gateway, for the request the agent waits for and for abandoned ones. *)

\* The next state of a request that the gateway serves is r', for an r that is
\* the awaited one or an abandoned one.
Serve(r, after) ==
    \/ r = request /\ pc = "await" /\ request' = after /\ UNCHANGED abandoned
    \/ /\ r \in abandoned
       /\ abandoned' = (abandoned \ {r}) \union {after}
       /\ UNCHANGED request

InService == abandoned \union (IF pc = "await" THEN {request} ELSE {})

\* ReserveIngestBatch: the whole batch or nothing.
ReserveBatch(r) ==
    /\ r.stage = "received"
    /\ \/ /\ reserved + Len(r.items) <= Quota
          /\ reserved' = reserved + Len(r.items)
          /\ Serve(r, [r EXCEPT !.stage = "admitted"])
       \/ /\ reserved + Len(r.items) > Quota
          /\ UNCHANGED reserved
          /\ Serve(r, [r EXCEPT !.stage = "refused"])
    /\ UNCHANGED <<cursor, readTo, files, cache, pc, unacked, topic, faults>>

\* submit of the next item is acknowledged by the brokers.
Publish(r) ==
    /\ r.stage = "admitted" /\ r.next <= Len(r.items)
    /\ topic' = [topic EXCEPT ![r.items[r.next]] = @ + 1]
    /\ Serve(r, [r EXCEPT !.next = @ + 1])
    /\ UNCHANGED <<cursor, readTo, files, cache, pc, unacked, reserved, faults>>

\* submit returns an error, with or without the record in the topic; the
\* handler answers with the error and the items before it stay published.
PublishFails(r) ==
    /\ r.stage = "admitted" /\ r.next <= Len(r.items) /\ faults < MaxFaults
    /\ \E written \in {0, 1} :
          topic' = [topic EXCEPT ![r.items[r.next]] = @ + written]
    /\ Serve(r, [r EXCEPT !.stage = "refused"])
    /\ faults' = faults + 1
    /\ UNCHANGED <<cursor, readTo, files, cache, pc, unacked, reserved>>

\* 202 with a receipt for every item.
Respond(r) ==
    /\ r.stage = "admitted" /\ r.next > Len(r.items)
    /\ Serve(r, [r EXCEPT !.stage = "accepted"])
    /\ UNCHANGED <<cursor, readTo, files, cache, pc, unacked, topic, reserved,
                   faults>>

\* The next second or day: the counters of the quota ledger are new keys.
NextWindow ==
    /\ reserved > 0
    /\ reserved' = 0
    /\ UNCHANGED <<cursor, readTo, files, cache, pc, unacked, request, abandoned,
                   topic, faults>>

-----------------------------------------------------------------------------
Agent ==
    \/ FlushSend \/ FlushNothing \/ SendAccepted \/ SendRefused
    \/ Ack \/ FlushDone
    \/ SourceRead \/ Enqueue \/ EnqueueFull \/ CommitEvent \/ PollDone

Gateway == \E r \in InService : ReserveBatch(r) \/ Publish(r) \/ Respond(r)

Faulty ==
    \/ SendTimesOut \/ AckFails \/ SourceReadFails \/ Crash
    \/ \E r \in InService : PublishFails(r)

AgentNext == Agent \/ Gateway \/ NextWindow \/ Faulty

AgentSpec == AgentInit /\ [][AgentNext]_agentVars

\* The agent's loop and the gateway's handler run on; time goes on.
AgentFairSpec == AgentSpec /\ WF_agentVars(Agent) /\ WF_agentVars(Gateway) /\ WF_agentVars(NextWindow)

-----------------------------------------------------------------------------
AgentTypeOK ==
    /\ cursor \in 0..NEvents /\ readTo \in 0..NEvents
    /\ files \in Seq(Events)
    /\ cache \in [count : Nat, bytes : Int, measured : BOOLEAN]
    /\ pc \in {"drain", "await", "ack", "read", "poll", "commit"}
    /\ unacked \in Nat
    /\ request \in Requests /\ abandoned \subseteq Requests
    /\ topic \in [Events -> Nat]
    /\ reserved \in 0..Quota
    /\ faults \in 0..MaxFaults

OnDisk(e) == \E i \in 1..Len(files) : files[i] = e

\* An event the checkpoint has passed is in a queue file or in the raw topic,
\* whatever stops, times out or is accepted in part (the durability order of
\* the poll loop, and flush acknowledging only what the gateway accepted).
NoLoss == \A e \in 1..cursor : OnDisk(e) \/ topic[e] > 0

\* The occupancy kept in memory, while it is trusted, is the directory's, and
\* the directory never exceeds the configured limit (Enqueue, Ack, reopening).
OccupancyHonest ==
    /\ cache.measured => cache = Measured(files)
    /\ DiskBytes(files) <= MaxBytes

\* Copies of an event come from faults only: none without a fault, and each
\* fault at most doubles them (a file queued twice in a batch sent twice).
FewDuplicates == \A e \in Events : topic[e] <= 2 ^ faults

\* What the agent believes of its queue, and what it sends because of it, is
\* honest (queue.go and forwarder.go).
SpoolIsHonest == OccupancyHonest /\ FewDuplicates

\* No event is too large for a request or for the queue, and no request for
\* the quota of a window.
AllFit ==
    /\ \A e \in Events : Estimate[e] <= BatchBytes /\ Size[e] <= MaxBytes
    /\ BatchSize <= Quota

\* Once faults end every event of the source reaches the raw topic, through a
\* full queue and a spent quota, unless one of them can never be sent: flush
\* then stops at it for ever (drain, the poll loop, ReserveIngestBatch).
Delivered == AllFit => \A e \in Events : <>(topic[e] > 0)
=============================================================================
