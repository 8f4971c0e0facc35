----------------------------- MODULE MCSources -----------------------------
(* What comes into the platform and steers it: the collector's sources, the *)
(* threat intelligence feeds, and the versions of playbooks and detection   *)
(* rules that editors publish. These parts share no state; a behaviour      *)
(* exercises one of them.                                                   *)
EXTENDS Collectors, ThreatIntel, PlaybookVersions, DetectionContent

VARIABLE part
contentVars == <<playbookVars, detectionVars>>
vars == <<part, collectorVars, threatVars, contentVars>>

SourceSets == {{"api", "syslog"}, {"file", "syslog"}, {"http"}}
ApiPages == <<{<<"api", 1>>, <<"api", 2>>}, {}, {<<"api", 3>>}>>
HttpRequests == {{<<"http", 1>>, <<"http", 2>>}, {<<"http", 3>>}}
SyslogMessages == {<<"syslog", 1>>}

attribute(value, class) == [value |-> value, class |-> class]
Feeds == <<<<attribute("x", "ok"), attribute("y", "malformed"), attribute("x", "deleted")>>,
           <<attribute("x", "ok")>>>>
LongFeed == <<<<attribute("x", "ok"), attribute("y", "ok"), attribute("z", "ok"),
                attribute("x", "ok")>>>>

Init ==
    /\ CollectorInit /\ ThreatInit /\ PlaybookInit /\ DetectionInit
    /\ part \in {"collector", "feeds", "playbooks", "detections"}
    /\ part # "collector" => sources = CHOOSE c \in Configured : TRUE
    /\ part # "feeds" => kind = CHOOSE k \in Kinds : TRUE

Next ==
    \/ part = "collector" /\ CollectorNext /\ UNCHANGED <<part, threatVars, contentVars>>
    \/ part = "feeds" /\ ThreatNext /\ UNCHANGED <<part, collectorVars, contentVars>>
    \/ part = "playbooks" /\ PlaybookNext /\ UNCHANGED <<part, collectorVars, threatVars, detectionVars>>
    \/ part = "detections" /\ DetectionNext /\ UNCHANGED <<part, collectorVars, threatVars, playbookVars>>

\* The poller's goroutine, the collector's main loop and the feed worker of
\* every replica keep running; time passes, so a lease nobody finishes ends.
Fairness ==
    /\ WF_workVars(part = "collector" /\ PollerStep)
    /\ WF_workVars(part = "collector" /\ LoopStep)
    /\ \A w \in SyncWorkers : WF_syncVars(part = "feeds" /\ SyncWork(w))
    /\ WF_syncVars(part = "feeds" /\ LeaseExpires)

Spec == Init /\ [][Next]_vars /\ Fairness

\* The poller's events reach the gateway once faults end (pollSource and the main
\* loop's flush), in the behaviours of a collector.
ApiEventsArrive == part = "collector" => APIDrains

\* A feed that is synchronised comes to rest, whoever stops while holding its
\* lease (ClaimThreatIntelFeedSync), in the behaviours of a feed.
ActiveFeedSettles == part = "feeds" => FeedSettles
=============================================================================
