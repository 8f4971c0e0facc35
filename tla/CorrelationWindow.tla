-------------------------- MODULE CorrelationWindow --------------------------
(***************************************************************************)
(* One group of one correlation rule: matches of the source rules are      *)
(* observed in any order and more than once, kept for two windows, and a   *)
(* correlation is emitted when an observation completes it.                *)
(* internal/detection/correlation.go, internal/store/                      *)
(* detection_correlation.go.  An observation is one transaction under the  *)
(* group's advisory lock.                                                  *)
(***************************************************************************)
EXTENDS Integers, Sequences, FiniteSets, Functions

CONSTANTS
    CorrelationEvents,   \* events: [id, time, rules, value]; rules are the source rules it matches
    CorrelationTypes,    \* the kinds of correlation examined
    Thresholds,          \* their condition.gte
    CorrelatedRules,     \* the correlation's source rules, in order, without repetition
    maximumEvidenceIDs,  \* events an emission of a count names at most
    Timespan             \* the window

(* What the compiler accepts.                                              *)
compileCorrelation ==
    /\ CorrelationTypes \subseteq {"event_count", "value_count", "temporal", "temporal_ordered"}
    /\ Thresholds \subseteq Nat \ {0, 1} /\ Timespan \in Nat \ {0}
    /\ CorrelatedRules # <<>> /\ IsInjective(CorrelatedRules)
    /\ CorrelationTypes \cap {"temporal", "temporal_ordered"} # {} => Len(CorrelatedRules) >= 2

ASSUME CorrelationAssumption == compileCorrelation /\ maximumEvidenceIDs \in Nat \ {0}

(* Times and the ids of events and rules are ordered; the id tells an      *)
(* event.                                                                  *)
ASSUME CorrelationEventsAssumption ==
    /\ \A e \in CorrelationEvents : e.id \in Nat /\ e.time \in Nat /\ e.rules \subseteq Nat
    /\ \A e, f \in CorrelationEvents : e.id = f.id => e = f
    /\ CorrelatedRules \in Seq(Nat)

VARIABLES
    correlation,     \* the rule's type and threshold
    inMemory,        \* the store: in memory (samples, tests) or PostgreSQL
    remembered,      \* rows the memory store has ever taken
    observations,    \* stored rows: [rule, event]
    emissions,       \* emitted correlations: the event that completed one, the events named
    observed,        \* history: the events that arrived
    disordered       \* history: an event arrived after a later one

correlationVars == <<correlation, inMemory, remembered, observations, emissions, observed, disordered>>

CorrelationInit ==
    /\ correlation \in [type : CorrelationTypes, threshold : Thresholds] /\ inMemory \in BOOLEAN /\ remembered = {}
    /\ observations = {} /\ emissions = {} /\ observed = {} /\ disordered = FALSE

-----------------------------------------------------------------------------
(* The evaluation of a set of records.                                     *)

(* ORDER BY event_time, event_id, source_rule_id                           *)
before(a, b) ==
    \/ a.event.time < b.event.time
    \/ a.event.time = b.event.time /\ a.event.id < b.event.id
    \/ a.event = b.event /\ a.rule < b.rule

uniqueEventIDs(records) == {r.event : r \in records}
(* A count names the first of its events only. *)
boundedCorrelationIDs(events) ==
    LET earlier(e) == {o \in events : o.time < e.time \/ (o.time = e.time /\ o.id < e.id)}
    IN {e \in events : Cardinality(earlier(e)) < maximumEvidenceIDs}

distinctValues(records) == {r.event.value : r \in records} \ {""}

(* Unordered: the assignment by backtracking finds distinct events, one    *)
(* for each rule, whenever there are any.                                  *)
assignments(records) ==
    {f \in [1 .. Len(CorrelatedRules) -> uniqueEventIDs(records)] :
        /\ IsInjective(f)
        /\ \A i \in DOMAIN f : \E r \in records : r.rule = CorrelatedRules[i] /\ r.event = f[i]}

(* Ordered: in one pass, each rule takes the first record after the last   *)
(* one taken whose event is not used yet.                                  *)
nextMatch(records, taken, i) ==
    {r \in records : /\ r.rule = CorrelatedRules[i]
                     /\ i > 1 => before(taken[i - 1], r)
                     /\ \A k \in 1 .. i - 1 : taken[k].event # r.event}
orderedPasses(records) ==
    {taken \in [1 .. Len(CorrelatedRules) -> records] :
        \A i \in DOMAIN taken : /\ taken[i] \in nextMatch(records, taken, i)
                                /\ \A r \in nextMatch(records, taken, i) \ {taken[i]} : before(taken[i], r)}

(* The events taken for the rules, if all have one. *)
matchTemporal(records) ==
    IF correlation.type = "temporal" THEN assignments(records)
    ELSE {[i \in DOMAIN taken |-> taken[i].event] : taken \in orderedPasses(records)}

EvaluateCorrelation(records) ==
    LET filtered == {r \in records : r.rule \in Range(CorrelatedRules)}
        ids == uniqueEventIDs(filtered)
        match == matchTemporal(filtered)
    IN CASE correlation.type = "event_count" ->
              [satisfied |-> Cardinality(ids) >= correlation.threshold, events |-> boundedCorrelationIDs(ids)]
         [] correlation.type = "value_count" ->
              [satisfied |-> Cardinality(distinctValues(filtered)) >= correlation.threshold, events |-> boundedCorrelationIDs(ids)]
         [] OTHER ->
              [satisfied |-> match # {}, events |-> IF match = {} THEN {} ELSE Range(CHOOSE f \in match : TRUE)]

-----------------------------------------------------------------------------
(* The store.                                                              *)

validObservation(e) == e.rules # {}

inShortWindow(records, e) == {r \in records : r.event.time > e.time - Timespan /\ r.event.time <= e.time}
inWindow(records, e) == {r \in records : r.event.time >= e.time - Timespan /\ r.event.time <= e.time}
retained(records, e) == {r \in records : r.event.time >= e.time - 2 * Timespan}

(* Rows taken before are left alone; the memory store remembers them for   *)
(* good, the table only until they are pruned.                             *)
newRows(e) == {[rule |-> rule, event |-> e] : rule \in e.rules} \ (IF inMemory THEN remembered ELSE observations)

(* When no row is new nothing is evaluated.  The fingerprint of trigger    *)
(* and events is emitted once.                                             *)
ObserveCorrelation(e) ==
    LET new == newRows(e)
        rows == retained(observations \cup new, e)
        records == inWindow(rows, e)
        was == EvaluateCorrelation({r \in records : r.event # e})
        now == EvaluateCorrelation(records)
    IN /\ validObservation(e)
       /\ observed' = observed \cup {e}
       /\ disordered' = (disordered \/ (new # {} /\ \E o \in observed : o.time > e.time))
       /\ remembered' = IF inMemory THEN remembered \cup new ELSE remembered
       /\ UNCHANGED <<correlation, inMemory>>
       /\ IF new = {} THEN UNCHANGED <<observations, emissions>>
          ELSE /\ observations' = rows
               /\ emissions' = IF ~was.satisfied /\ now.satisfied
                               THEN emissions \cup {[trigger |-> e, events |-> now.events]} ELSE emissions

CorrelationNext == \E e \in CorrelationEvents : ObserveCorrelation(e)

CorrelationSpec == CorrelationInit /\ [][CorrelationNext]_correlationVars

-----------------------------------------------------------------------------
(* What a correlation means, for any set of events: enough events or       *)
(* values, or one event for each rule, in the order of their times for the *)
(* ordered kind (events of one time count in the order of their ids).      *)
windowOf(e) == {o \in observed : o.time >= e.time - Timespan /\ o.time <= e.time}

Correlated(events) ==
    LET matching == {e \in events : e.rules \cap Range(CorrelatedRules) # {}}
        later(a, b) == a.time < b.time \/ (a.time = b.time /\ a.id < b.id)
    IN CASE correlation.type = "event_count" -> Cardinality(matching) >= correlation.threshold
         [] correlation.type = "value_count" -> Cardinality({e.value : e \in matching} \ {""}) >= correlation.threshold
         [] OTHER -> \E f \in [1 .. Len(CorrelatedRules) -> matching] :
                        /\ \A i \in DOMAIN f : CorrelatedRules[i] \in f[i].rules
                        /\ \A i, j \in DOMAIN f : i < j =>
                              IF correlation.type = "temporal" THEN f[i] # f[j] ELSE later(f[i], f[j])

(* Every emission is backed by events that arrived, inside the trigger's   *)
(* window, and that window is a correlation: late arrivals, repetitions    *)
(* and the pruning of old rows never make one up.  The events it names are *)
(* one by themselves, unless it is a count and the window has more events  *)
(* than an emission names.                                                 *)
EmissionIsReal ==
    \A x \in emissions :
        /\ x.events \subseteq windowOf(x.trigger) /\ Correlated(windowOf(x.trigger))
        /\ \/ Correlated(x.events)
           \/ /\ correlation.type \in {"event_count", "value_count"}
              /\ Cardinality(windowOf(x.trigger)) > maximumEvidenceIDs

(* While events arrive in order, a correlated window has its alarm: there  *)
(* is an emission no later than its last event, and the windows of all     *)
(* events since were correlated too, so that the alarm still stands.       *)
AlarmStands ==
    ~disordered => \A e \in observed : Correlated(windowOf(e)) =>
        \E x \in emissions : /\ x.trigger.time <= e.time
                             /\ \A o \in observed : (o.time >= x.trigger.time /\ o.time <= e.time) => Correlated(windowOf(o))

(* Correlations are neither made up nor missed.                            *)
CorrelationIsFaithful == EmissionIsReal /\ AlarmStands
=============================================================================
