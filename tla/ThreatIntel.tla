---------------------------- MODULE ThreatIntel ----------------------------
(* A provider feed and the workers of the API replicas that synchronise it: *)
(* a lease on the feed's row, pages fetched from a cursor, each record      *)
(* normalised and merged into the indicators, and the result written back   *)
(* by the lease's holder. Meanwhile operators edit the feed, analysts       *)
(* revoke indicators and STIX bundles are imported.                         *)
EXTENDS Naturals, Sequences, FiniteSets

CONSTANTS
    SyncWorkers,      \* one per API replica
    Kinds,            \* kinds of provider: "MISP", "OPENCTI"
    Provider,         \* for each source URL, its records in timestamp order:
                      \* [value, class], class is "ok", "malformed" or "deleted"
    FeedPageSize,
    MaximumFeedPages,
    Watched,          \* the values analysts and bundles speak of
    MaxSyncs,         \* bound: times the feed falls due or is queued or edited
    MaxSyncFaults     \* bound: provider and storage failures, crashes, slow syncs

Records(url) == 1 .. Len(Provider[url])
Values == UNION {{Provider[u][r].value : r \in Records(u)} : u \in DOMAIN Provider}

ASSUME ThreatIntelAssumption ==
    /\ 1 \in DOMAIN Provider /\ \A u \in DOMAIN Provider : Len(Provider[u]) \in Nat
    /\ Watched \subseteq Values
    /\ FeedPageSize \in Nat \ {0} /\ MaximumFeedPages \in Nat \ {0}
    /\ MaxSyncs \in Nat /\ MaxSyncFaults \in Nat

VARIABLES
    kind,        \* the feed's kind
    feed,        \* threat_intel_feeds row
    syncing,     \* what each worker is doing
    ioc,         \* threat_intel_indicators: state by normalised value
    view,        \* the version an editor read: "none", "current" or "stale"
    turns,       \* times the feed fell due or was edited so far
    syncFaults,  \* faults so far
    considered,  \* history: records of each source taken or rejected
    moved        \* history: the source changed under a cursor

feedVars == <<feed, turns, moved>>
iocVars == <<ioc, view>>
syncVars == <<feedVars, iocVars, syncing, syncFaults, considered>>
threatVars == <<kind, syncVars>>

Nobody == "nobody"
Resting == [at |-> "idle", url |-> 1, cursor |-> 0, saved |-> 0, page |-> 0, got |-> 0,
            todo |-> <<>>, status |-> "FAILED"]
Editors == {"analyst", "importer"}

ThreatInit ==
    /\ kind \in Kinds
    /\ feed = [state |-> "ACTIVE", url |-> 1, auth |-> TRUE, cursor |-> 0, status |-> "QUEUED",
               due |-> TRUE, owner |-> Nobody, leased |-> FALSE]
    /\ syncing = [w \in SyncWorkers |-> Resting]
    /\ ioc = [v \in Values |-> "none"]
    /\ view = [e \in Editors |-> [v \in Watched |-> "none"]]
    /\ turns = 0 /\ syncFaults = 0 /\ considered = [u \in DOMAIN Provider |-> {}]
    /\ moved = FALSE

----------------------------------------------------------------------------
(* Indicators                                                               *)

mergeIntoActive(v) == "ACTIVE"   \* mutant of mergeThreatIndicator

\* An indicator that was revoked stays so however often it is imported.
mergeThreatIndicator(v) == IF ioc[v] = "REVOKED" THEN "REVOKED" ELSE "ACTIVE"

\* Every write raises the row's version, so what others have read is stale.
written(v, editor) ==
    view' = [e \in Editors |-> [u \in Watched |->
               CASE u = v /\ e = editor -> "current"
                 [] u = v /\ e # editor /\ view[e][u] # "none" -> "stale"
                 [] OTHER -> view[e][u]]]

UpsertThreatIndicator(v, editor) ==
    /\ ioc' = [ioc EXCEPT ![v] = mergeThreatIndicator(v)]
    /\ written(v, editor)

GetThreatIndicator(v) ==
    /\ ioc[v] # "none"
    /\ view' = [view EXCEPT !["analyst"][v] = "current"]
    /\ UNCHANGED <<feedVars, ioc, syncing, syncFaults, considered>>

SetThreatIndicatorState(v, state) ==
    /\ ioc[v] # "none" /\ view["analyst"][v] # "none"
    /\ IF view["analyst"][v] = "current"
       THEN ioc' = [ioc EXCEPT ![v] = state] /\ written(v, "analyst")
       ELSE view' = [view EXCEPT !["analyst"][v] = "none"] /\ UNCHANGED ioc
    /\ UNCHANGED <<feedVars, syncing, syncFaults, considered>>

\* A bundle's revoked indicator is merged first and revoked by a second write,
\* under the version the first returned.
ImportSTIX(v) ==
    /\ turns < MaxSyncs /\ turns' = turns + 1
    /\ view["importer"][v] = "none"
    /\ UpsertThreatIndicator(v, "importer")
    /\ UNCHANGED <<feed, moved, syncing, syncFaults, considered>>

ImportRevokes(v) ==
    /\ view["importer"][v] # "none"
    /\ LET applies == view["importer"][v] = "current" /\ ioc[v] # "REVOKED"
       IN /\ ioc' = IF applies THEN [ioc EXCEPT ![v] = "REVOKED"] ELSE ioc
          /\ view' = [view EXCEPT !["importer"][v] = "none",
                                  !["analyst"][v] = IF applies /\ @ # "none" THEN "stale" ELSE @]
    /\ UNCHANGED <<feedVars, syncing, syncFaults, considered>>

----------------------------------------------------------------------------
(* The feed's row                                                           *)

statusAfter(state, auth, changed) ==
    CASE state = "DISABLED" -> "NOT_APPLICABLE"
      [] state = "ACTIVE" /\ ~auth -> "CREDENTIALS_REQUIRED"
      [] state = "ACTIVE" /\ auth /\ changed -> "QUEUED"
      [] OTHER -> feed.status

\* A change of the state, the source or the credential takes the lease from
\* whoever holds it. The cursor stays, whatever source it came from.
UpdateThreatIntelFeed ==
    /\ turns < MaxSyncs /\ turns' = turns + 1
    /\ \E state \in {"ACTIVE", "DISABLED"}, url \in DOMAIN Provider, auth \in BOOLEAN :
         LET changed == state # feed.state \/ url # feed.url \/ auth # feed.auth
         IN /\ feed' = [state |-> state, url |-> url, auth |-> auth, cursor |-> feed.cursor,
                        status |-> statusAfter(state, auth, changed),
                        due |-> feed.due \/ (changed /\ state = "ACTIVE"),
                        owner |-> IF changed THEN Nobody ELSE feed.owner,
                        leased |-> feed.leased /\ ~changed]
            /\ moved' = (moved \/ url # feed.url)
    /\ UNCHANGED <<iocVars, syncing, syncFaults, considered>>

\* Whoever holds the lease loses it here too.
QueueThreatIntelFeedSync ==
    /\ turns < MaxSyncs /\ turns' = turns + 1
    /\ feed.state = "ACTIVE"
    /\ feed' = [state |-> feed.state, url |-> feed.url, auth |-> feed.auth, cursor |-> feed.cursor,
                status |-> IF feed.auth THEN "QUEUED" ELSE "CREDENTIALS_REQUIRED",
                due |-> TRUE, owner |-> Nobody, leased |-> FALSE]
    /\ UNCHANGED <<moved, iocVars, syncing, syncFaults, considered>>

\* next_sync_at is reached.
FallDue ==
    /\ turns < MaxSyncs /\ turns' = turns + 1
    /\ feed.state = "ACTIVE" /\ ~feed.due
    /\ feed' = [feed EXCEPT !.due = TRUE]
    /\ UNCHANGED <<moved, iocVars, syncing, syncFaults, considered>>

\* A sync outlasts its lease, which is never renewed.
LeaseExpires ==
    /\ feed.leased
    /\ \/ syncing[feed.owner].at = "idle" /\ UNCHANGED syncFaults
       \/ syncFaults < MaxSyncFaults /\ syncFaults' = syncFaults + 1
    /\ feed' = [feed EXCEPT !.leased = FALSE]
    /\ UNCHANGED <<turns, moved, iocVars, syncing, considered>>

----------------------------------------------------------------------------
(* The worker                                                               *)

neverClaimed == feed.state = "ACTIVE" /\ feed.due /\ feed.owner = Nobody   \* mutant of candidate

\* A lease that has ended does not keep the next worker away.
candidate == feed.state = "ACTIVE" /\ feed.due /\ ~feed.leased

syncGoes(w, sync) == syncing' = [syncing EXCEPT ![w] = sync]

\* Sync begins by resolving the secret; without one no provider is called.
ClaimThreatIntelFeedSync(w) ==
    /\ syncing[w].at = "idle"
    /\ candidate
    /\ feed' = [state |-> feed.state, url |-> feed.url, auth |-> feed.auth, cursor |-> feed.cursor,
                status |-> "RUNNING", due |-> feed.due, owner |-> w, leased |-> TRUE]
    /\ syncGoes(w, [at |-> IF feed.auth THEN "fetch" ELSE "done", url |-> feed.url,
                    cursor |-> feed.cursor, saved |-> feed.cursor, page |-> 1, got |-> 0, todo |-> <<>>,
                    status |-> IF feed.auth THEN "FAILED" ELSE "CREDENTIALS_REQUIRED"])
    /\ UNCHANGED <<turns, moved, iocVars, syncFaults, considered>>

\* restSearch: the records no older than the timestamp, counted in pages.
mispFirst(s) == (IF s.cursor = 0 THEN 1 ELSE s.cursor) + (s.page - 1) * FeedPageSize

\* Relay: the records after the cursor.
openCTIFirst(s) == s.cursor + 1

\* The records of the page that begins with the given one.
onPage(first, s) ==
    LET last == Len(Provider[s.url])
    IN  IF first > last THEN 0 ELSE IF last - first < FeedPageSize THEN last - first + 1 ELSE FeedPageSize

\* doFeedRequest and the parser of its answer.
fetch(w) ==
    /\ syncing[w].at = "fetch"
    /\ LET s == syncing[w]
           first == IF kind = "MISP" THEN mispFirst(s) ELSE openCTIFirst(s)
           size == onPage(first, s)
       IN syncGoes(w, [at |-> IF size = 0 THEN "done" ELSE "page", url |-> s.url, cursor |-> s.cursor,
                       saved |-> s.saved, page |-> s.page, got |-> size,
                       todo |-> [i \in 1 .. size |-> first + i - 1],
                       status |-> IF size = 0 THEN "SUCCEEDED" ELSE s.status])
    /\ UNCHANGED <<feedVars, iocVars, syncFaults, considered>>

\* One record: rejected, or merged into the indicator its value normalises to.
upsertFeedDraft(w) ==
    /\ syncing[w].at = "page" /\ syncing[w].todo # <<>>
    /\ LET s == syncing[w]
           r == Head(s.todo)
           record == Provider[s.url][r]
       IN /\ IF record.class = "ok"
             THEN UpsertThreatIndicator(record.value, Nobody)
             ELSE UNCHANGED iocVars
          /\ considered' = [considered EXCEPT ![s.url] = @ \cup {r}]
          /\ syncGoes(w, [at |-> "page", url |-> s.url,
                          cursor |-> IF kind = "MISP" /\ record.class # "deleted" /\ r > s.cursor
                                     THEN r ELSE s.cursor,
                          saved |-> s.saved, page |-> s.page, got |-> s.got,
                          todo |-> Tail(s.todo), status |-> s.status])
    /\ UNCHANGED <<feedVars, syncFaults>>

\* mutant of nextPage: the OpenCTI cursor is taken from the page at once
pageCursorFirst(w) ==
    /\ syncing[w].at = "page"
    /\ LET s == syncing[w]
           end == IF s.todo = <<>> THEN s.cursor ELSE s.todo[Len(s.todo)]
       IN syncing' = [syncing EXCEPT
            ![w] = IF s.todo = <<>>
                   THEN [s EXCEPT !.at = IF end = Len(Provider[s.url]) THEN "done" ELSE "fetch",
                                  !.status = "SUCCEEDED"]
                   ELSE [s EXCEPT !.saved = end, !.cursor = end]]
    /\ UNCHANGED <<feedVars, iocVars, syncFaults, considered>>

\* The end of a page: its cursor is what the result will carry.
nextPage(w) ==
    /\ syncing[w].at = "page" /\ syncing[w].todo = <<>>
    /\ LET s == syncing[w]
           cursor == IF kind = "MISP" THEN s.cursor ELSE s.cursor + s.got
           last == IF kind = "MISP" THEN s.got < FeedPageSize ELSE cursor = Len(Provider[s.url])
           ends == last \/ s.page = MaximumFeedPages
       IN syncGoes(w, [at |-> IF ends THEN "done" ELSE "fetch", url |-> s.url, cursor |-> cursor,
                       saved |-> cursor, page |-> s.page + 1, got |-> 0, todo |-> <<>>,
                       status |-> IF ends THEN "SUCCEEDED" ELSE s.status])
    /\ UNCHANGED <<feedVars, iocVars, syncFaults, considered>>

\* The provider fails three times, or an indicator cannot be stored.
syncFails(w) ==
    /\ syncFaults < MaxSyncFaults /\ syncFaults' = syncFaults + 1
    /\ syncing[w].at \in {"fetch", "page"}
    /\ LET s == syncing[w]
       IN syncGoes(w, [at |-> "done", url |-> s.url, cursor |-> s.cursor, saved |-> s.saved,
                       page |-> s.page, got |-> s.got, todo |-> s.todo, status |-> "FAILED"])
    /\ UNCHANGED <<feedVars, iocVars, considered>>

mayFinishAnyway(w) == TRUE   \* mutant of mayFinish
mayFinish(w) == feed.owner = w /\ feed.leased

FinishThreatIntelFeedSync(w) ==
    /\ syncing[w].at = "done"
    /\ feed' = IF mayFinish(w)
               THEN [state |-> feed.state, url |-> feed.url, auth |-> feed.auth,
                     cursor |-> syncing[w].saved, status |-> syncing[w].status,
                     due |-> FALSE, owner |-> Nobody, leased |-> FALSE]
               ELSE feed
    /\ syncGoes(w, Resting)
    /\ UNCHANGED <<turns, moved, iocVars, syncFaults, considered>>

\* The replica restarts; the new worker takes a new identity.
WorkerStops(w) ==
    /\ syncFaults < MaxSyncFaults /\ syncFaults' = syncFaults + 1
    /\ syncing[w].at # "idle"
    /\ syncGoes(w, Resting)
    /\ UNCHANGED <<feedVars, iocVars, considered>>

SyncWork(w) ==
    \/ ClaimThreatIntelFeedSync(w)
    \/ fetch(w) \/ upsertFeedDraft(w) \/ nextPage(w) \/ FinishThreatIntelFeedSync(w)

ThreatStep ==
    \/ \E v \in Watched :
         \/ GetThreatIndicator(v) \/ ImportSTIX(v) \/ ImportRevokes(v)
         \/ \E state \in {"ACTIVE", "REVOKED"} : SetThreatIndicatorState(v, state)
    \/ UpdateThreatIntelFeed \/ QueueThreatIntelFeedSync \/ FallDue \/ LeaseExpires
    \/ \E w \in SyncWorkers :
         SyncWork(w) \/ syncFails(w) \/ WorkerStops(w)

ThreatNext == ThreatStep /\ UNCHANGED kind

ThreatSpec == ThreatInit /\ [][ThreatNext]_threatVars

----------------------------------------------------------------------------

CurrentResult ==
    feed'.cursor # feed.cursor =>
        \E w \in SyncWorkers : /\ syncing[w].at = "done" /\ syncing[w].url = feed.url
                               /\ syncing[w].saved >= feed.cursor

\* A feed's cursor changes only to the result of a sync that read the feed's
\* current source: a worker overtaken by an edit, by a request for another
\* sync or by the end of its lease writes nothing.
ResultIsCurrent == [][CurrentResult]_threatVars

\* Every record at or below the committed cursor of an OpenCTI feed, unless
\* its source was replaced, has been merged or rejected: no failure between
\* two pages, or within one, loses records.
CursorCovers ==
    kind = "OPENCTI" /\ ~moved => 1 .. feed.cursor \subseteq considered[feed.url]

\* The same of a MISP feed, whose sync reports "feed synchronization completed".
MISPCursorCovers ==
    kind = "MISP" /\ ~moved => 1 .. feed.cursor \subseteq considered[feed.url]

RevocationKept ==
    \A v \in Watched : ioc[v] = "REVOKED" /\ ioc'[v] = "ACTIVE" => view["analyst"][v] = "current"

\* Only an analyst who has seen the revocation takes it back: no import, by a
\* feed or from a bundle, does, and no analyst acts on a version gone by.
RevocationSticks == [][RevocationKept]_threatVars

\* A feed that stays active does not remain queued or running.
FeedSettles == <>[](feed.state = "ACTIVE" => feed.status \notin {"QUEUED", "RUNNING"})

=============================================================================
