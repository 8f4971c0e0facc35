-------------------------------- MODULE Ueba --------------------------------
(***************************************************************************)
(* Behaviour baselines: processors observe events against the profile of   *)
(* the entity and of its peer group under two advisory locks, in one       *)
(* transaction that learns the event and keeps the anomaly it found; the   *)
(* rest of the pipeline then turns the anomaly into an alert, or fails and *)
(* the event comes again.  internal/ueba, internal/store/ueba.go,          *)
(* internal/httpapi/ueba.go, matchUEBA of internal/pipeline/engine.go.     *)
(*                                                                         *)
(* An event has an entity, a peer group, a device (the address, country,   *)
(* network and privileged action are compared in the same way), a process  *)
(* (and destination), the day of its arrival at the gateway, which a       *)
(* redelivery keeps, and what else deviates when it comes: the volume, the *)
(* hour of the day.  The counts behind these two are not kept: they decide *)
(* nothing about the other features.  The lowest risk reported (35) is no  *)
(* more than any feature scores.  The drift score, which nothing reads, is *)
(* left out.                                                               *)
(***************************************************************************)
EXTENDS Integers, Sequences, FiniteSets, FiniteSetsExt

CONSTANTS
    Observers,           \* processors
    UebaEvents,          \* event -> [kind, entity, peer, device, process, day, deviates]
    Remaining,           \* days of silence -> percent of a count that is left
    MinimumObservations, MinimumPeerSamples, MaximumCardinality,
    MaxObservations,     \* bound on the observations that commit
    MaxFeedback          \* bound on the feedback on one anomaly

VARIABLES
    baselines,    \* entity or peer group -> profile
    observer,     \* processor -> the event it has, and how far it is
    anomalies,    \* event -> the anomaly kept for it, if any
    observed,     \* the committed observations, in order
    pipelineDone, \* events whose processing has committed
    behaviorAlerts, \* events with an alert for their anomaly
    feedback      \* event -> feedback that was accepted, in order

uebaVars == <<baselines, observer, anomalies, observed, pipelineDone, behaviorAlerts, feedback>>

uebaEventIds == DOMAIN UebaEvents
entityOf(e) == <<UebaEvents[e].kind, UebaEvents[e].entity>>
peerOf(e) == <<"peer", UebaEvents[e].peer>>
baselineKeys == {entityOf(e) : e \in uebaEventIds} \cup {peerOf(e) : e \in uebaEventIds}

(* Entities are users and devices (EntityForEvent), and a factor of decay   *)
(* leaves a part of a count.                                                *)
ASSUME UebaAssumption ==
    /\ \A e \in uebaEventIds : UebaEvents[e].kind \in {"user", "device"} /\ UebaEvents[e].day \in Nat
    /\ \A e, f \in uebaEventIds : \A days \in {UebaEvents[e].day, UebaEvents[e].day - UebaEvents[f].day} :
          days > 1 => Remaining[days] \in 0 .. 100
    /\ MinimumObservations \in Nat

NewProfile == [devices |-> <<>>, processes |-> <<>>]
NewBaseline == [observations |-> 0, last |-> 0, profile |-> NewProfile]
NoObservation == [at |-> "idle"]
UebaInit ==
    /\ baselines = [k \in baselineKeys |-> NewBaseline]
    /\ observer = [p \in Observers |-> NoObservation]
    /\ anomalies = [e \in uebaEventIds |-> {}]
    /\ observed = <<>> /\ pipelineDone = {} /\ behaviorAlerts = {}
    /\ feedback = [e \in uebaEventIds |-> <<>>]

-----------------------------------------------------------------------------
(* The model. *)
timesSeen(counts, value) == IF value \in DOMAIN counts THEN counts[value] ELSE 0

(* A value that is new to a full map takes the place of a rarest one, the  *)
(* first in the order of the keys. *)
without(counts, value) == [v \in DOMAIN counts \ {value} |-> counts[v]]
victims(counts) == {v \in DOMAIN counts : \A w \in DOMAIN counts : counts[v] <= counts[w]}
evicted(counts) == without(counts, Min(victims(counts)))
incrementBounded(counts, value) ==
    LET room == IF value \notin DOMAIN counts /\ Cardinality(DOMAIN counts) >= MaximumCardinality
                THEN evicted(counts) ELSE counts
    IN [v \in DOMAIN room \cup {value} |-> timesSeen(room, v) + (IF v = value THEN 1 ELSE 0)]

(* More than a day of silence shrinks every count; what rounds to zero is  *)
(* forgotten. *)
scaled(count, days) == (count * Remaining[days] + 50) \div 100
scaleMap(counts, days) == [v \in {w \in DOMAIN counts : scaled(counts[w], days) >= 1} |-> scaled(counts[v], days)]
decayBaseline(baseline, day) ==
    LET days == day - baseline.last
    IN IF days <= 1 THEN baseline
       ELSE [baseline EXCEPT !.observations = scaled(@, days),
                             !.profile = [devices |-> scaleMap(@.devices, days), processes |-> scaleMap(@.processes, days)]]

updateBaseline(baseline, e) ==
    [observations |-> baseline.observations + 1,
     last |-> IF UebaEvents[e].day > baseline.last THEN UebaEvents[e].day ELSE baseline.last,
     profile |-> [devices |-> incrementBounded(baseline.profile.devices, UebaEvents[e].device),
                  processes |-> incrementBounded(baseline.profile.processes, UebaEvents[e].process)]]

peerRare(peer, process) ==
    LET share == peer.observations \div 100
    IN /\ peer.observations >= MinimumPeerSamples
       /\ timesSeen(peer.profile.processes, process) <= (IF share > 1 THEN share ELSE 1)

(* The features are looked up in what was learnt before the event. *)
Evaluate(entity, peer, e) ==
    IF entity.observations < MinimumObservations THEN {}
    ELSE {feature \in {"new_device", "rare_process", "volume_anomaly", "time_of_day_deviation"} :
             CASE feature = "new_device" -> timesSeen(entity.profile.devices, UebaEvents[e].device) = 0
               [] feature = "rare_process" -> /\ timesSeen(entity.profile.processes, UebaEvents[e].process) = 0
                                              /\ peerRare(peer, UebaEvents[e].process)
               [] OTHER -> feature \in UebaEvents[e].deviates}

featureScore == [new_device |-> 55, rare_process |-> 45, volume_anomaly |-> 55,
                 time_of_day_deviation |-> 35]
riskOf(features) ==
    LET risk == Max({featureScore[f] : f \in features}) + Min({15, 5 * (Cardinality(features) - 1)})
    IN Min({75, risk})

-----------------------------------------------------------------------------
(* An event is delivered until its processing commits.  Its two locks are  *)
(* taken in the order of their keys, where "device" < "peer" < "user".     *)
lockOrder(e) == IF UebaEvents[e].kind = "device" THEN <<entityOf(e), peerOf(e)>> ELSE <<peerOf(e), entityOf(e)>>
observations(e) == Cardinality({i \in DOMAIN observed : observed[i].event = e})

Deliver(p, e) ==
    /\ observer[p].at = "idle" /\ e \notin pipelineDone /\ Len(observed) < MaxObservations
    /\ \A q \in Observers : observer[q].at # "idle" => observer[q].event # e
    /\ observer' = [observer EXCEPT ![p] = [at |-> "locking", event |-> e, held |-> {}]]
    /\ UNCHANGED <<baselines, anomalies, observed, pipelineDone, behaviorAlerts, feedback>>

nobodyElse(p) == {}
heldByOthers(p) == UNION {observer[q].held : q \in {r \in Observers \ {p} : observer[r].at \in {"locking", "read"}}}
lockNext(p) ==
    /\ observer[p].at = "locking" /\ Cardinality(observer[p].held) < 2
    /\ LET key == lockOrder(observer[p].event)[Cardinality(observer[p].held) + 1]
       IN /\ key \notin heldByOthers(p)
          /\ observer' = [observer EXCEPT ![p].held = @ \cup {key}]
    /\ UNCHANGED <<baselines, anomalies, observed, pipelineDone, behaviorAlerts, feedback>>

(* With both locks the rows are read, created when they are missing. *)
holdsLocks(p) == Cardinality(observer[p].held) = 2
lockUEBABaseline(p) ==
    /\ observer[p].at = "locking" /\ holdsLocks(p)
    /\ LET e == observer[p].event
       IN observer' = [observer EXCEPT ![p] = [at |-> "read", event |-> e, held |-> @.held,
                                               entity |-> baselines[entityOf(e)], peer |-> baselines[peerOf(e)]]]
    /\ UNCHANGED <<baselines, anomalies, observed, pipelineDone, behaviorAlerts, feedback>>

(* Learning and the anomaly commit together.  The anomaly of an event that *)
(* was already kept stays as it is and is the one returned. *)
insertUEBAAnomaly(e, features) ==
    IF features = {} \/ anomalies[e] # {} THEN anomalies[e]
    ELSE {[features |-> features, risk |-> riskOf(features), status |-> "NEW", version |-> 1]}

ObserveUEBAEvent(p) ==
    /\ observer[p].at = "read" /\ Len(observed) < MaxObservations
    /\ LET e == observer[p].event
           entity == decayBaseline(observer[p].entity, UebaEvents[e].day)
           peer == decayBaseline(observer[p].peer, UebaEvents[e].day)
           features == Evaluate(entity, peer, e)
       IN /\ baselines' = [baselines EXCEPT ![entityOf(e)] = updateBaseline(entity, e),
                                            ![peerOf(e)] = updateBaseline(peer, e)]
          /\ anomalies' = [anomalies EXCEPT ![e] = insertUEBAAnomaly(e, features)]
          /\ observed' = Append(observed, [event |-> e, found |-> features,
                                           full |-> Cardinality(DOMAIN baselines[entityOf(e)].profile.devices) >= MaximumCardinality])
          /\ observer' = [observer EXCEPT ![p] = [at |-> "observed", event |-> e, matched |-> features # {}]]
    /\ UNCHANGED <<pipelineDone, behaviorAlerts, feedback>>

(* The rest of the pipeline: the match becomes an alert and the processing *)
(* commits; an error on the way, before or after the observation, rolls    *)
(* back what is open and returns the event. *)
matchUEBA(p) ==
    /\ observer[p].at = "observed"
    /\ behaviorAlerts' = behaviorAlerts \cup (IF observer[p].matched THEN {observer[p].event} ELSE {})
    /\ pipelineDone' = pipelineDone \cup {observer[p].event}
    /\ observer' = [observer EXCEPT ![p] = NoObservation]
    /\ UNCHANGED <<baselines, anomalies, observed, feedback>>
ProcessingFails(p) ==
    /\ observer[p].at # "idle"
    /\ observer' = [observer EXCEPT ![p] = NoObservation]
    /\ UNCHANGED <<baselines, anomalies, observed, pipelineDone, behaviorAlerts, feedback>>

(* Feedback names the version its author has seen. *)
currentVersion(e, version) == \E a \in anomalies[e] : a.version = version
Feedback(e, version, status) ==
    /\ Len(feedback[e]) < MaxFeedback /\ currentVersion(e, version)
    /\ anomalies' = [anomalies EXCEPT ![e] = {[a EXCEPT !.status = status, !.version = @ + 1] : a \in @}]
    /\ feedback' = [feedback EXCEPT ![e] = Append(@, [saw |-> version, status |-> status])]
    /\ UNCHANGED <<baselines, observer, observed, pipelineDone, behaviorAlerts>>

UebaNext ==
    \/ \E p \in Observers : \/ \E e \in uebaEventIds : Deliver(p, e)
                            \/ lockNext(p) \/ lockUEBABaseline(p)
                            \/ ObserveUEBAEvent(p)
                            \/ matchUEBA(p) \/ ProcessingFails(p)
    \/ \E e \in uebaEventIds, version \in 1 .. MaxFeedback, status \in {"CONFIRMED", "FALSE_POSITIVE"} :
          Feedback(e, version, status)

UebaSpec == UebaInit /\ [][UebaNext]_uebaVars

-----------------------------------------------------------------------------
earlier(i) == {j \in 1 .. i - 1 : entityOf(observed[j].event) = entityOf(observed[i].event)}
sameDevice(i, j) == UebaEvents[observed[i].event].device = UebaEvents[observed[j].event].device
lateAfter(i, j) == UebaEvents[observed[j].event].day > UebaEvents[observed[i].event].day + 1

(* A device is reported as new only when the entity had not been seen with *)
(* it, or the profile was full or the entity silent for more than a day    *)
(* since; and a device never seen before is reported once the baseline has *)
(* its observations and none was lost to silence.  Concurrent observers of *)
(* one entity, and redeliveries, do not blur this.  (Evaluate,             *)
(* incrementBounded, decayBaseline under the locks of ObserveUEBAEvent)    *)
NoveltyIsFaithful ==
    \A i \in DOMAIN observed :
        LET forgot == \E j \in earlier(i) : observed[j].full \/ observed[i].full
            silent == \E j, k \in earlier(i) \cup {i} : j < k /\ lateAfter(j, k)
            known == \E j \in earlier(i) : sameDevice(i, j)
        IN /\ "new_device" \in observed[i].found => ~known \/ forgot \/ silent
           /\ ~known /\ ~silent /\ Cardinality(earlier(i)) >= MinimumObservations => "new_device" \in observed[i].found

(* The anomaly of an event is what its first finding said, carries exactly *)
(* the feedback its analysts gave on what they saw, and is alerted on once *)
(* its event is processed unless the event had to be observed again: the   *)
(* second look no longer finds what the first has learnt.                  *)
(* (insertUEBAAnomaly, UpdateUEBAAnomalyFeedback, matchUEBA)               *)
AnomalyIsKept ==
    \A e \in uebaEventIds :
        LET findings == {i \in DOMAIN observed : observed[i].event = e /\ observed[i].found # {}}
        IN /\ (anomalies[e] = {}) <=> (findings = {})
           /\ \A a \in anomalies[e] :
                 /\ \E i \in findings : a.features = observed[i].found /\ \A j \in findings : i <= j
                 /\ a.version = Len(feedback[e]) + 1
                 /\ \A n \in DOMAIN feedback[e] : feedback[e][n].saw = n
                 /\ e \in pipelineDone /\ observations(e) = 1 => e \in behaviorAlerts
           /\ e \in behaviorAlerts => anomalies[e] # {}

(* Neither what is learnt of an entity nor what is found because of it goes *)
(* astray (ObserveUEBAEvent).                                               *)
BaselineIsFaithful == NoveltyIsFaithful /\ AnomalyIsKept
=============================================================================
