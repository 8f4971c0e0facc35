--------------------------- MODULE SourcesProofs ---------------------------
(***************************************************************************)
(* Safety of the two ways records come in from elsewhere: threat           *)
(* intelligence feeds, for every provider, page size and number of workers,*)
(* and the collectors, for every API, request, file and spool.             *)
(***************************************************************************)
EXTENDS Collectors, ThreatIntel, TLAPS

----------------------------------------------------------------------------
(* A feed, its workers and its indicators                                   *)

Outcomes == {"SUCCEEDED", "FAILED", "CREDENTIALS_REQUIRED"}

Syncs == [at : {"idle", "fetch", "page", "done"}, url : DOMAIN Provider, cursor : Nat, saved : Nat,
          page : Nat, got : Nat, todo : Seq(Nat), status : Outcomes]

FeedRows == [state : {"ACTIVE", "DISABLED"}, url : DOMAIN Provider, auth : BOOLEAN, cursor : Nat,
             status : Outcomes \cup {"QUEUED", "RUNNING", "NOT_APPLICABLE"},
             due : BOOLEAN, owner : SyncWorkers \cup {Nobody}, leased : BOOLEAN]

ThreatTypes ==
    /\ feed \in FeedRows
    /\ syncing \in [SyncWorkers -> Syncs]
    /\ considered \in [DOMAIN Provider -> SUBSET Nat]
    /\ ioc \in [Values -> {"none", "ACTIVE", "REVOKED"}]
    /\ \A w \in SyncWorkers : syncing[w].at # "idle" => syncing[w].page > 0

\* Where a sync of w starts is never behind the cursor of the row it holds.
LeaseHolds ==
    /\ \A w \in SyncWorkers : syncing[w].saved <= syncing[w].cursor
    /\ feed.leased /\ syncing[feed.owner].at # "idle" =>
         /\ syncing[feed.owner].url = feed.url
         /\ feed.cursor <= syncing[feed.owner].saved
    /\ feed.leased => feed.owner \in SyncWorkers

\* Of the page at hand, what is before the records still to do was taken.
PageCovered(s, done) ==
    /\ Len(s.todo) <= s.got
    /\ s.cursor + 1 .. s.cursor + (s.got - Len(s.todo)) \subseteq done
    /\ \A i \in 1 .. Len(s.todo) : s.todo[i] = s.cursor + (s.got - Len(s.todo)) + i

SyncCovered(s, done) ==
    /\ s.url = 1
    /\ 1 .. s.cursor \subseteq done
    /\ s.at = "page" => PageCovered(s, done)

\* Until the source is replaced every worker reads the first one.
CoverInv ==
    kind = "OPENCTI" /\ ~moved =>
      /\ feed.url = 1
      /\ 1 .. feed.cursor \subseteq considered[1]
      /\ \A w \in SyncWorkers : SyncCovered(syncing[w], considered[1])

\* A product of naturals is one: the offset of a page of MISP records.
LEMMA PageOffset ==
    ASSUME NEW n \in Nat, NEW size \in Nat, n > 0
    PROVE  (n - 1) * size \in Nat
  <1>1. \A a \in Nat, b \in Nat : a * b \in Nat
    OBVIOUS
  <1> QED
    BY <1>1

\* The state of a worker, field by field.
LEMMA SyncRecord ==
    ASSUME NEW at \in {"idle", "fetch", "page", "done"}, NEW url \in DOMAIN Provider, NEW cursor \in Nat,
           NEW saved \in Nat, NEW page \in Nat, NEW got \in Nat, NEW todo \in Seq(Nat),
           NEW status \in Outcomes
    PROVE  [at |-> at, url |-> url, cursor |-> cursor, saved |-> saved, page |-> page, got |-> got,
            todo |-> todo, status |-> status] \in Syncs
  BY DEF Syncs

\* The rows, the workers' state and the history keep their types.
LEMMA ThreatTypesStep ==
    ASSUME ThreatTypes, [ThreatNext]_threatVars
    PROVE  ThreatTypes'
  <1> USE ThreatIntelAssumption
  <1>1. CASE UNCHANGED threatVars
    BY <1>1 DEF ThreatTypes, threatVars, syncVars, feedVars, iocVars
  <1>2. ASSUME NEW v \in Watched, GetThreatIndicator(v) PROVE ThreatTypes'
    BY <1>2 DEF ThreatTypes, GetThreatIndicator, feedVars
  <1>3. ASSUME NEW v \in Watched, ImportSTIX(v) PROVE ThreatTypes'
    BY <1>3 DEF ThreatTypes, ImportSTIX, UpsertThreatIndicator, mergeThreatIndicator, feedVars
  <1>4. ASSUME NEW v \in Watched, ImportRevokes(v) PROVE ThreatTypes'
    BY <1>4 DEF ThreatTypes, ImportRevokes, feedVars
  <1>5. ASSUME NEW v \in Watched, NEW state \in {"ACTIVE", "REVOKED"}, SetThreatIndicatorState(v, state)
        PROVE ThreatTypes'
    BY <1>5 DEF ThreatTypes, SetThreatIndicatorState, feedVars
  <1>6. CASE UpdateThreatIntelFeed
    <2>1. PICK state \in {"ACTIVE", "DISABLED"}, url \in DOMAIN Provider, auth \in BOOLEAN :
            LET changed == state # feed.state \/ url # feed.url \/ auth # feed.auth
            IN feed' = [state |-> state, url |-> url, auth |-> auth, cursor |-> feed.cursor,
                        status |-> statusAfter(state, auth, changed),
                        due |-> feed.due \/ (changed /\ state = "ACTIVE"),
                        owner |-> IF changed THEN Nobody ELSE feed.owner,
                        leased |-> feed.leased /\ ~changed]
      BY <1>6 DEF UpdateThreatIntelFeed
    <2> DEFINE changed == state # feed.state \/ url # feed.url \/ auth # feed.auth
    <2>2. statusAfter(state, auth, changed) \in Outcomes \cup {"QUEUED", "RUNNING", "NOT_APPLICABLE"}
      BY DEF statusAfter, Outcomes, ThreatTypes, FeedRows
    <2>3. /\ (feed.due \/ (changed /\ state = "ACTIVE")) \in BOOLEAN
          /\ (feed.leased /\ ~changed) \in BOOLEAN
      OBVIOUS
    <2>4. feed' \in FeedRows
      BY <2>1, <2>2, <2>3 DEF ThreatTypes, FeedRows
    <2> QED
      BY <2>4, <1>6 DEF ThreatTypes, UpdateThreatIntelFeed, iocVars
  <1>7. CASE QueueThreatIntelFeedSync
    <2>1. feed' \in FeedRows
      BY <1>7 DEF ThreatTypes, FeedRows, Outcomes, QueueThreatIntelFeedSync
    <2> QED
      BY <2>1, <1>7 DEF ThreatTypes, QueueThreatIntelFeedSync, iocVars
  <1>8. CASE FallDue \/ LeaseExpires
    <2>1. feed' \in FeedRows
      BY <1>8, Zenon DEF ThreatTypes, FeedRows, FallDue, LeaseExpires
    <2> QED
      BY <2>1, <1>8 DEF ThreatTypes, FallDue, LeaseExpires, iocVars
  <1>9. ASSUME NEW w \in SyncWorkers, ClaimThreatIntelFeedSync(w) PROVE ThreatTypes'
    <2>1. feed' \in FeedRows
      BY <1>9 DEF ThreatTypes, FeedRows, Outcomes, ClaimThreatIntelFeedSync
    <2>2. <<>> \in Seq(Nat)
      OBVIOUS
    <2>3. PICK at \in {"fetch", "done"}, status \in Outcomes :
            syncing' = [syncing EXCEPT ![w] =
              [at |-> at, url |-> feed.url, cursor |-> feed.cursor, saved |-> feed.cursor,
               page |-> 1, got |-> 0, todo |-> <<>>, status |-> status]]
      BY <1>9 DEF Outcomes, ClaimThreatIntelFeedSync, syncGoes
    <2> DEFINE s == [at |-> at, url |-> feed.url, cursor |-> feed.cursor, saved |-> feed.cursor,
                     page |-> 1, got |-> 0, todo |-> <<>>, status |-> status]
    <2>4. /\ at \in {"idle", "fetch", "page", "done"}
          /\ feed.url \in DOMAIN Provider /\ feed.cursor \in Nat
      BY <2>3 DEF ThreatTypes, FeedRows
    <2>5. s \in Syncs
      BY <2>2, <2>3, <2>4, SyncRecord
    <2>6. s.page > 0 /\ syncing' = [syncing EXCEPT ![w] = s]
      BY <2>3
    <2> HIDE DEF s
    <2> QED
      BY <2>1, <2>5, <2>6, <1>9 DEF ThreatTypes, ClaimThreatIntelFeedSync, iocVars
  <1>10. ASSUME NEW w \in SyncWorkers, fetch(w) PROVE ThreatTypes'
    <2> DEFINE s == syncing[w]
               first == IF kind = "MISP" THEN mispFirst(s) ELSE openCTIFirst(s)
               size == onPage(first, s)
               todo == [i \in 1 .. size |-> first + i - 1]
    <2>1. s \in Syncs /\ s.page > 0
      BY <1>10 DEF ThreatTypes, fetch
    <2>2. first \in Nat /\ first > 0
      <3>1. (s.page - 1) * FeedPageSize \in Nat
        BY <2>1, PageOffset DEF Syncs
      <3>2. s.cursor \in Nat
        BY <2>1 DEF Syncs
      <3>3. mispFirst(s) \in Nat /\ mispFirst(s) > 0
        BY <3>1, <3>2 DEF mispFirst
      <3>4. openCTIFirst(s) \in Nat /\ openCTIFirst(s) > 0
        BY <3>2 DEF openCTIFirst
      <3> QED
        BY <3>3, <3>4
    <2>3. size \in Nat
      <3> HIDE DEF first, s
      <3> QED
        BY <2>1, <2>2 DEF Syncs, onPage
    <2>4. todo \in Seq(Nat)
      <3> HIDE DEF first, s, size
      <3> QED
        BY <2>2, <2>3
    <2> HIDE DEF first, s, size, todo
    <2> DEFINE next == [at |-> IF size = 0 THEN "done" ELSE "page", url |-> s.url, cursor |-> s.cursor,
                        saved |-> s.saved, page |-> s.page, got |-> size, todo |-> todo,
                        status |-> IF size = 0 THEN "SUCCEEDED" ELSE s.status]
    <2>5. next \in Syncs /\ next.page > 0
      BY <2>1, <2>3, <2>4 DEF Syncs, Outcomes
    <2>6. syncing' = [syncing EXCEPT ![w] = next]
      BY <1>10 DEF fetch, syncGoes, s, first, size, todo
    <2> HIDE DEF next
    <2> QED
      BY <2>5, <2>6, <1>10 DEF ThreatTypes, fetch, feedVars, iocVars
  <1>11. ASSUME NEW w \in SyncWorkers, upsertFeedDraft(w) PROVE ThreatTypes'
    <2> DEFINE s == syncing[w]
               r == Head(s.todo)
               record == Provider[s.url][r]
               cursor == IF kind = "MISP" /\ record.class # "deleted" /\ r > s.cursor THEN r ELSE s.cursor
               next == [at |-> "page", url |-> s.url, cursor |-> cursor, saved |-> s.saved,
                        page |-> s.page, got |-> s.got, todo |-> Tail(s.todo), status |-> s.status]
    <2>1. s \in Syncs /\ s.page > 0 /\ s.todo # <<>>
      BY <1>11 DEF ThreatTypes, upsertFeedDraft
    <2>2. r \in Nat /\ Tail(s.todo) \in Seq(Nat)
      BY <2>1 DEF Syncs
    <2>3. /\ syncing' = [syncing EXCEPT ![w] = next]
          /\ considered' = [considered EXCEPT ![s.url] = @ \cup {r}]
          /\ ioc' = [ioc EXCEPT ![record.value] = mergeThreatIndicator(record.value)] \/ ioc' = ioc
          /\ feed' = feed
      BY <1>11 DEF upsertFeedDraft, syncGoes, UpsertThreatIndicator, iocVars, feedVars
    <2> HIDE DEF s, r, record
    <2>4. cursor \in Nat
      BY <2>1, <2>2 DEF Syncs
    <2> HIDE DEF cursor
    <2>5. next \in Syncs /\ next.page > 0
      BY <2>1, <2>2, <2>4 DEF Syncs
    <2> HIDE DEF next
    <2>6. considered' \in [DOMAIN Provider -> SUBSET Nat]
      BY <2>1, <2>2, <2>3 DEF ThreatTypes, Syncs
    <2>7. ioc' \in [Values -> {"none", "ACTIVE", "REVOKED"}]
      BY <2>3 DEF ThreatTypes, mergeThreatIndicator
    <2> QED
      BY <2>3, <2>5, <2>6, <2>7 DEF ThreatTypes
  <1>12. ASSUME NEW w \in SyncWorkers, nextPage(w) PROVE ThreatTypes'
    <2>1. syncing[w] \in Syncs /\ <<>> \in Seq(Nat)
      BY DEF ThreatTypes
    <2>2. PICK at \in {"fetch", "done"}, cursor \in Nat, status \in Outcomes :
            syncing' = [syncing EXCEPT ![w] =
              [at |-> at, url |-> syncing[w].url, cursor |-> cursor, saved |-> cursor,
               page |-> syncing[w].page + 1, got |-> 0, todo |-> <<>>, status |-> status]]
      <3> DEFINE q == syncing[w]
                 cursor == IF kind = "MISP" THEN q.cursor ELSE q.cursor + q.got
                 last == IF kind = "MISP" THEN q.got < FeedPageSize ELSE cursor = Len(Provider[q.url])
                 ends == last \/ q.page = MaximumFeedPages
                 at == IF ends THEN "done" ELSE "fetch"
                 status == IF ends THEN "SUCCEEDED" ELSE q.status
      <3>1. cursor \in Nat
        BY <2>1 DEF Syncs
      <3>2. at \in {"fetch", "done"} /\ status \in Outcomes
        BY <2>1 DEF Syncs, Outcomes
      <3>3. syncing' = [syncing EXCEPT ![w] =
              [at |-> at, url |-> syncing[w].url, cursor |-> cursor, saved |-> cursor,
               page |-> syncing[w].page + 1, got |-> 0, todo |-> <<>>, status |-> status]]
        BY <1>12 DEF nextPage, syncGoes
      <3> HIDE DEF cursor, at, status
      <3> QED
        BY <3>1, <3>2, <3>3
    <2> DEFINE s == [at |-> at, url |-> syncing[w].url, cursor |-> cursor, saved |-> cursor,
                     page |-> syncing[w].page + 1, got |-> 0, todo |-> <<>>, status |-> status]
    <2>3. /\ at \in {"idle", "fetch", "page", "done"} /\ syncing[w].url \in DOMAIN Provider
          /\ syncing[w].page + 1 \in Nat /\ syncing[w].page + 1 > 0 /\ 0 \in Nat
      <3>1. syncing[w].page \in Nat /\ syncing[w].url \in DOMAIN Provider
        BY <2>1 DEF Syncs
      <3> QED
        BY <3>1
    <2>4. s \in Syncs
      BY <2>1, <2>2, <2>3, SyncRecord
    <2>5. s.page > 0
      BY <2>3
    <2>6. syncing' = [syncing EXCEPT ![w] = s]
      BY <2>2
    <2> HIDE DEF s
    <2> QED
      BY <2>4, <2>5, <2>6, <1>12 DEF ThreatTypes, nextPage, feedVars, iocVars
  <1>13. ASSUME NEW w \in SyncWorkers, syncFails(w) PROVE ThreatTypes'
    <2>1. syncing[w] \in Syncs /\ syncing[w].page > 0
      BY <1>13 DEF ThreatTypes, syncFails
    <2>2. PICK s : /\ s \in Syncs /\ s.page > 0
                   /\ syncing' = [syncing EXCEPT ![w] = s]
      BY <1>13, <2>1 DEF Syncs, Outcomes, syncFails, syncGoes
    <2> QED
      BY <2>2, <1>13 DEF ThreatTypes, syncFails, feedVars, iocVars
  <1>14. ASSUME NEW w \in SyncWorkers, FinishThreatIntelFeedSync(w) \/ WorkerStops(w) PROVE ThreatTypes'
    <2>1. 1 \in DOMAIN Provider /\ <<>> \in Seq(Nat)
      OBVIOUS
    <2>2. Resting \in Syncs /\ Resting.at = "idle"
      <3>1. "idle" \in {"idle", "fetch", "page", "done"} /\ "FAILED" \in Outcomes
        BY DEF Outcomes
      <3>2. Resting \in Syncs
        BY <2>1, <3>1, SyncRecord DEF Resting
      <3> QED
        BY <3>2 DEF Resting
    <2>3. syncing[w] \in Syncs
      BY DEF ThreatTypes
    <2>4. feed' \in FeedRows
      <3>1. CASE feed' = feed
        BY <3>1 DEF ThreatTypes
      <3>2. CASE feed' # feed
        <4>1. feed' = [state |-> feed.state, url |-> feed.url, auth |-> feed.auth,
                       cursor |-> syncing[w].saved, status |-> syncing[w].status,
                       due |-> FALSE, owner |-> Nobody, leased |-> FALSE]
          BY <1>14, <3>2 DEF FinishThreatIntelFeedSync, WorkerStops, feedVars
        <4>2. syncing[w].saved \in Nat /\ syncing[w].status \in Outcomes
          BY <2>3 DEF Syncs
        <4> QED
          BY <4>1, <4>2 DEF ThreatTypes, FeedRows
      <3> QED
        BY <3>1, <3>2
    <2>5. /\ syncing' = [syncing EXCEPT ![w] = Resting]
          /\ considered' = considered /\ ioc' = ioc
      BY <1>14 DEF FinishThreatIntelFeedSync, WorkerStops, syncGoes, iocVars
    <2> QED
      BY <2>2, <2>4, <2>5 DEF ThreatTypes
  <1> QED
    BY <1>1, <1>2, <1>3, <1>4, <1>5, <1>6, <1>7, <1>8, <1>9, <1>10, <1>11, <1>12, <1>13, <1>14
    DEF ThreatNext, ThreatStep, SyncWork

\* Of the row and the workers, what a step that is neither a claim, nor an
\* edit, nor a worker's leaves alone.
LEMMA FeedUntouched ==
    ASSUME NEW v, \/ GetThreatIndicator(v) \/ ImportSTIX(v) \/ ImportRevokes(v)
                  \/ \E state : SetThreatIndicatorState(v, state)
    PROVE  feed' = feed /\ moved' = moved /\ syncing' = syncing /\ considered' = considered
  BY DEF GetThreatIndicator, ImportSTIX, ImportRevokes, SetThreatIndicatorState, feedVars

\* While a worker holds the lease nobody else moves the feed's cursor or its
\* source, so that its result is about the row as it stands.
LEMMA LeaseStep ==
    ASSUME ThreatTypes, LeaseHolds, [ThreatNext]_threatVars
    PROVE  LeaseHolds' /\ CurrentResult
  <1> DEFINE Result == LeaseHolds' /\ CurrentResult
  <1>t. /\ \A w \in SyncWorkers : syncing[w] \in Syncs
        /\ feed \in FeedRows
        /\ syncing \in [SyncWorkers -> Syncs]
    BY DEF ThreatTypes
  <1>1. ASSUME feed' = feed, syncing' = syncing PROVE Result
    BY <1>1 DEF LeaseHolds, CurrentResult
  <1>2. CASE UNCHANGED threatVars
    BY <1>1, <1>2 DEF threatVars, syncVars, feedVars
  <1>3. ASSUME NEW v, \/ GetThreatIndicator(v) \/ ImportSTIX(v) \/ ImportRevokes(v)
                      \/ \E state : SetThreatIndicatorState(v, state)
        PROVE Result
    BY <1>1, <1>3, FeedUntouched
  <1>4. CASE UpdateThreatIntelFeed
    <2>1. /\ feed'.cursor = feed.cursor
          /\ feed'.leased => feed.leased /\ feed'.owner = feed.owner /\ feed'.url = feed.url
      <3>1. PICK state \in {"ACTIVE", "DISABLED"}, url \in DOMAIN Provider, auth \in BOOLEAN :
              LET changed == state # feed.state \/ url # feed.url \/ auth # feed.auth
              IN feed' = [state |-> state, url |-> url, auth |-> auth, cursor |-> feed.cursor,
                          status |-> statusAfter(state, auth, changed),
                          due |-> feed.due \/ (changed /\ state = "ACTIVE"),
                          owner |-> IF changed THEN Nobody ELSE feed.owner,
                          leased |-> feed.leased /\ ~changed]
        BY <1>4 DEF UpdateThreatIntelFeed
      <3> DEFINE changed == state # feed.state \/ url # feed.url \/ auth # feed.auth
      <3>2. /\ feed'.cursor = feed.cursor /\ feed'.url = url
            /\ feed'.owner = (IF changed THEN Nobody ELSE feed.owner)
            /\ feed'.leased = (feed.leased /\ ~changed)
        BY <3>1
      <3>3. ~changed => url = feed.url
        OBVIOUS
      <3> HIDE DEF changed
      <3> QED
        BY <3>2, <3>3
    <2>2. syncing' = syncing
      BY <1>4 DEF UpdateThreatIntelFeed
    <2> QED
      BY <2>1, <2>2 DEF LeaseHolds, CurrentResult
  <1>5. CASE QueueThreatIntelFeedSync
    BY <1>5 DEF QueueThreatIntelFeedSync, LeaseHolds, CurrentResult
  <1>6. CASE FallDue \/ LeaseExpires
    BY <1>6, <1>t DEF FallDue, LeaseExpires, LeaseHolds, CurrentResult, FeedRows
  <1>7. ASSUME NEW w \in SyncWorkers, NEW s \in Syncs, syncing' = [syncing EXCEPT ![w] = s], feed' = feed,
               s.at # "idle" => /\ s.url = syncing[w].url /\ s.saved >= syncing[w].saved
                                /\ syncing[w].at # "idle",
               s.saved <= s.cursor
        PROVE Result
    <2>1. \A x \in SyncWorkers : syncing'[x].saved <= syncing'[x].cursor
      BY <1>7, <1>t DEF LeaseHolds
    <2>2. ASSUME feed.leased PROVE feed.owner \in SyncWorkers
      BY <2>2 DEF LeaseHolds
    <2>3. ASSUME feed.leased, syncing'[feed.owner].at # "idle"
          PROVE  syncing'[feed.owner].url = feed.url /\ feed.cursor <= syncing'[feed.owner].saved
      <3>1. CASE feed.owner = w
        <4>1. syncing'[w] = s
          BY <1>7, <1>t
        <4>2. /\ syncing[w].url = feed.url /\ feed.cursor <= syncing[w].saved
          BY <1>7, <2>3, <3>1, <4>1 DEF LeaseHolds
        <4>3. feed.cursor \in Nat /\ s.saved \in Nat /\ syncing[w].saved \in Nat
          BY <1>t, <1>7 DEF Syncs, FeedRows
        <4> QED
          BY <1>7, <2>3, <3>1, <4>1, <4>2, <4>3
      <3>2. CASE feed.owner # w
        BY <1>7, <1>t, <2>2, <2>3, <3>2 DEF LeaseHolds
      <3> QED
        BY <3>1, <3>2
    <2> QED
      BY <1>7, <2>1, <2>2, <2>3 DEF LeaseHolds, CurrentResult
  <1>8. ASSUME NEW w \in SyncWorkers, ClaimThreatIntelFeedSync(w) PROVE Result
    <2>1. /\ feed'.cursor = feed.cursor /\ feed'.url = feed.url /\ feed'.owner = w
          /\ \A x \in SyncWorkers \ {w} : syncing'[x] = syncing[x]
          /\ syncing'[w].url = feed.url /\ syncing'[w].cursor = feed.cursor
          /\ syncing'[w].saved = feed.cursor
      BY <1>8, <1>t DEF ClaimThreatIntelFeedSync, syncGoes
    <2>2. feed.cursor \in Nat
      BY <1>t DEF FeedRows
    <2> QED
      BY <2>1, <2>2 DEF LeaseHolds, CurrentResult
  <1>9. ASSUME NEW w \in SyncWorkers, fetch(w) \/ upsertFeedDraft(w) \/ nextPage(w) \/ syncFails(w)
        PROVE Result
    <2>1. feed' = feed /\ syncing[w].at # "idle"
      BY <1>9 DEF fetch, upsertFeedDraft, nextPage, syncFails, feedVars
    <2>2. syncing' = [syncing EXCEPT ![w] = syncing'[w]] /\ syncing'[w] \in Syncs
      <3>1. syncing' \in [SyncWorkers -> Syncs]
        BY <1>9, ThreatTypesStep DEF ThreatTypes
      <3>2. \E s : syncing' = [syncing EXCEPT ![w] = s]
        BY <1>9 DEF fetch, upsertFeedDraft, nextPage, syncFails, syncGoes
      <3> QED
        BY <3>1, <3>2, <1>t
    <2>3. /\ syncing[w].cursor \in Nat /\ syncing[w].saved \in Nat /\ syncing[w].got \in Nat
          /\ syncing[w].saved <= syncing[w].cursor
      BY <1>t DEF Syncs, LeaseHolds
    <2>4. /\ syncing'[w].url = syncing[w].url /\ syncing'[w].saved >= syncing[w].saved
          /\ syncing'[w].saved <= syncing'[w].cursor
      <3>1. CASE fetch(w) \/ syncFails(w)
        BY <3>1, <1>t, <2>3 DEF fetch, syncFails, syncGoes
      <3>2. CASE upsertFeedDraft(w)
        <4>1. /\ syncing'[w].url = syncing[w].url /\ syncing'[w].saved = syncing[w].saved
              /\ \/ syncing'[w].cursor = syncing[w].cursor
                 \/ syncing'[w].cursor > syncing[w].cursor
          BY <3>2, <1>t DEF upsertFeedDraft, syncGoes
        <4>2. syncing'[w].cursor \in Nat
          BY <2>2 DEF Syncs
        <4> QED
          BY <4>1, <4>2, <2>3
      <3>3. CASE nextPage(w)
        BY <3>3, <1>t, <2>3 DEF nextPage, syncGoes
      <3> QED
        BY <1>9, <3>1, <3>2, <3>3
    <2> HIDE DEF Result
    <2> QED
      BY <1>7, <2>1, <2>2, <2>4
  <1>10. ASSUME NEW w \in SyncWorkers, WorkerStops(w) PROVE Result
    <2>1. feed' = feed /\ syncing' = [syncing EXCEPT ![w] = Resting]
      BY <1>10 DEF WorkerStops, syncGoes, feedVars
    <2>2. Resting.at = "idle" /\ Resting.saved = 0 /\ Resting.cursor = 0
      BY DEF Resting
    <2> QED
      BY <2>1, <2>2, <1>t DEF LeaseHolds, CurrentResult
  <1>11. ASSUME NEW w \in SyncWorkers, FinishThreatIntelFeedSync(w) PROVE Result
    <2>1. syncing' = [syncing EXCEPT ![w] = Resting]
      BY <1>11 DEF FinishThreatIntelFeedSync, syncGoes
    <2>2. Resting.at = "idle" /\ Resting.saved = 0 /\ Resting.cursor = 0
      BY DEF Resting
    <2>3. CASE mayFinish(w)
      <3>1. ~feed'.leased
        BY <1>11, <2>3 DEF FinishThreatIntelFeedSync
      <3>2. /\ syncing[w].at = "done" /\ syncing[w].url = feed.url /\ feed.cursor <= syncing[w].saved
            /\ feed.cursor \in Nat /\ syncing[w].saved \in Nat
        BY <1>11, <2>3, <1>t DEF FinishThreatIntelFeedSync, mayFinish, LeaseHolds, Syncs, FeedRows
      <3> QED
        BY <2>1, <2>2, <3>1, <3>2, <1>t DEF LeaseHolds, CurrentResult
    <2>4. CASE ~mayFinish(w)
      <3>1. feed' = feed
        BY <1>11, <2>4 DEF FinishThreatIntelFeedSync
      <3> QED
        BY <2>1, <2>2, <3>1, <1>t DEF LeaseHolds, CurrentResult
    <2> QED
      BY <2>3, <2>4
  <1> QED
    BY <1>2, <1>3, <1>4, <1>5, <1>6, <1>8, <1>9, <1>10, <1>11 DEF ThreatNext, ThreatStep, SyncWork

\* What a worker has covered stays covered as more records are considered.
LEMMA CoveredMonotone ==
    ASSUME NEW s \in Syncs, NEW done, NEW more, done \subseteq more, SyncCovered(s, done)
    PROVE  SyncCovered(s, more)
  BY DEF SyncCovered, PageCovered

\* A page that has just been fetched from OpenCTI begins after the cursor.
LEMMA FetchCovers ==
    ASSUME ThreatTypes, kind = "OPENCTI", NEW w \in SyncWorkers, fetch(w), NEW done,
           SyncCovered(syncing[w], done)
    PROVE  SyncCovered(syncing'[w], done)
  <1> DEFINE s == syncing[w]
             size == onPage(openCTIFirst(s), s)
             todo == [i \in 1 .. size |-> openCTIFirst(s) + i - 1]
             t == [at |-> IF size = 0 THEN "done" ELSE "page", url |-> s.url, cursor |-> s.cursor,
                   saved |-> s.saved, page |-> s.page, got |-> size, todo |-> todo,
                   status |-> IF size = 0 THEN "SUCCEEDED" ELSE s.status]
  <1>1. syncing'[w] = t
    BY DEF fetch, syncGoes, ThreatTypes
  <1>2. s.cursor \in Nat /\ s.url \in DOMAIN Provider
    BY DEF ThreatTypes, Syncs
  <1>3. size \in Nat
    BY <1>2, ThreatIntelAssumption DEF onPage, openCTIFirst
  <1>4. /\ todo \in Seq(Nat) /\ Len(todo) = size
        /\ \A i \in 1 .. size : todo[i] = s.cursor + i
    <2> HIDE DEF size, s
    <2> QED
      BY <1>2, <1>3 DEF openCTIFirst
  <1> HIDE DEF size, todo
  <1>5. t.todo = todo /\ t.got = size /\ t.cursor = s.cursor /\ t.url = s.url
    OBVIOUS
  <1> HIDE DEF t, s
  <1>6. PageCovered(t, done)
    BY <1>2, <1>3, <1>4, <1>5 DEF PageCovered
  <1>7. s.url = 1 /\ 1 .. s.cursor \subseteq done
    BY DEF SyncCovered, s
  <1> QED
    BY <1>1, <1>5, <1>6, <1>7 DEF SyncCovered

\* One more record of a page of OpenCTI, the next one, is taken.
LEMMA DraftCovers ==
    ASSUME ThreatTypes, kind = "OPENCTI", NEW w \in SyncWorkers, upsertFeedDraft(w),
           SyncCovered(syncing[w], considered[1])
    PROVE  /\ considered[1] \subseteq considered'[1]
           /\ SyncCovered(syncing'[w], considered'[1])
  <1> DEFINE s == syncing[w]
             t == [at |-> "page", url |-> s.url, cursor |-> s.cursor, saved |-> s.saved,
                   page |-> s.page, got |-> s.got, todo |-> Tail(s.todo), status |-> s.status]
  <1>1. syncing'[w] = t
    BY DEF upsertFeedDraft, syncGoes, ThreatTypes
  <1>2. /\ s.cursor \in Nat /\ s.got \in Nat /\ s.todo \in Seq(Nat) /\ s.todo # <<>>
        /\ s.url = 1 /\ 1 .. s.cursor \subseteq considered[1] /\ PageCovered(s, considered[1])
    BY DEF ThreatTypes, Syncs, upsertFeedDraft, SyncCovered
  <1>3. considered'[1] = considered[1] \cup {Head(s.todo)}
    BY <1>2, ThreatIntelAssumption DEF upsertFeedDraft, ThreatTypes
  <1>4. /\ t.todo = Tail(s.todo) /\ t.got = s.got /\ t.cursor = s.cursor /\ t.url = s.url
    OBVIOUS
  <1> HIDE DEF t, s
  <1>5. /\ Len(s.todo) \in Nat \ {0} /\ Len(Tail(s.todo)) = Len(s.todo) - 1
        /\ Head(s.todo) = s.todo[1]
        /\ \A i \in 1 .. Len(s.todo) - 1 : Tail(s.todo)[i] = s.todo[i + 1]
    BY <1>2
  <1>6. PageCovered(t, considered'[1])
    <2> DEFINE n == Len(s.todo)
    <2>1. n \in Nat \ {0} /\ n <= s.got
      BY <1>2, <1>5 DEF PageCovered
    <2>2. s.cursor + 1 .. s.cursor + (s.got - n) \subseteq considered[1]
      BY <1>2 DEF PageCovered
    <2>3. \A i \in 1 .. n : s.todo[i] = s.cursor + (s.got - n) + i
      BY <1>2 DEF PageCovered
    <2>4. Head(s.todo) = s.cursor + (s.got - n) + 1
      BY <1>5, <2>1, <2>3
    <2>5. Len(t.todo) = n - 1 /\ t.got = s.got /\ t.cursor = s.cursor
      BY <1>4, <1>5
    <2>6. \A i \in 1 .. n - 1 : t.todo[i] = s.todo[i + 1]
      BY <1>4, <1>5
    <2>0. s.cursor \in Nat /\ s.got \in Nat
      BY <1>2
    <2> HIDE DEF n
    <2>7. \A i \in 1 .. n - 1 : t.todo[i] = s.cursor + (s.got - (n - 1)) + i
      <3> SUFFICES ASSUME NEW i \in 1 .. n - 1 PROVE t.todo[i] = s.cursor + (s.got - (n - 1)) + i
        OBVIOUS
      <3>1. i + 1 \in 1 .. n
        BY <2>1
      <3>2. t.todo[i] = s.cursor + (s.got - n) + (i + 1)
        BY <3>1, <2>3, <2>6
      <3>3. s.cursor + (s.got - n) + (i + 1) = s.cursor + (s.got - (n - 1)) + i
        BY <2>1, <2>0
      <3> QED
        BY <3>2, <3>3
    <2>8. s.cursor + 1 .. s.cursor + (s.got - (n - 1)) \subseteq considered'[1]
      <3> SUFFICES ASSUME NEW k \in s.cursor + 1 .. s.cursor + (s.got - (n - 1)) PROVE k \in considered'[1]
        OBVIOUS
      <3>1. k \in s.cursor + 1 .. s.cursor + (s.got - n) \/ k = s.cursor + (s.got - n) + 1
        BY <2>1, <2>0
      <3> QED
        BY <3>1, <1>3, <2>2, <2>4
    <2> QED
      BY <1>2, <2>1, <2>5, <2>7, <2>8 DEF PageCovered
  <1> QED
    BY <1>1, <1>2, <1>3, <1>4, <1>6 DEF SyncCovered

\* At the end of a page of OpenCTI the cursor moves past what was taken.
LEMMA PageEndCovers ==
    ASSUME ThreatTypes, kind = "OPENCTI", NEW w \in SyncWorkers, nextPage(w), NEW done,
           SyncCovered(syncing[w], done)
    PROVE  SyncCovered(syncing'[w], done)
  <1> DEFINE s == syncing[w]
  <1>1. /\ syncing'[w].url = s.url /\ syncing'[w].cursor = s.cursor + s.got
        /\ syncing'[w].at # "page"
    BY DEF nextPage, syncGoes, ThreatTypes
  <1>2. /\ s.cursor \in Nat /\ s.got \in Nat /\ s.todo = <<>> /\ s.url = 1
        /\ 1 .. s.cursor \subseteq done /\ PageCovered(s, done)
    BY DEF ThreatTypes, Syncs, nextPage, SyncCovered
  <1>3. Len(s.todo) = 0
    BY <1>2
  <1> HIDE DEF s
  <1>4. s.cursor + 1 .. s.cursor + s.got \subseteq done
    BY <1>2, <1>3 DEF PageCovered
  <1>5. 1 .. s.cursor + s.got \subseteq done
    BY <1>2, <1>4
  <1> QED
    BY <1>1, <1>2, <1>5 DEF SyncCovered

\* No step commits a cursor of OpenCTI past a record that was not taken.
LEMMA CoverStep ==
    ASSUME ThreatTypes, LeaseHolds, CoverInv, [ThreatNext]_threatVars
    PROVE  CoverInv'
  <1> SUFFICES ASSUME kind' = "OPENCTI", ~moved' PROVE CoverInv'
    BY DEF CoverInv
  <1>t. /\ feed \in FeedRows /\ syncing \in [SyncWorkers -> Syncs]
        /\ \A w \in SyncWorkers : syncing[w] \in Syncs
    BY DEF ThreatTypes
  <1>0. kind = "OPENCTI" /\ kind' = kind
    BY DEF ThreatNext, threatVars
  <1>1. ~moved
    BY DEF ThreatNext, ThreatStep, SyncWork, threatVars, syncVars, feedVars, GetThreatIndicator, ImportSTIX,
           ImportRevokes, SetThreatIndicatorState, UpdateThreatIntelFeed, QueueThreatIntelFeedSync, FallDue,
           LeaseExpires, ClaimThreatIntelFeedSync, fetch, upsertFeedDraft, nextPage, syncFails,
           FinishThreatIntelFeedSync, WorkerStops
  <1>2. /\ feed.url = 1 /\ 1 .. feed.cursor \subseteq considered[1]
        /\ \A w \in SyncWorkers : SyncCovered(syncing[w], considered[1])
    BY <1>0, <1>1 DEF CoverInv
  <1>3. ASSUME feed'.url = feed.url, feed'.cursor = feed.cursor, syncing' = syncing, considered' = considered
        PROVE  CoverInv'
    BY <1>2, <1>3 DEF CoverInv
  <1>4. CASE UNCHANGED threatVars
    BY <1>3, <1>4 DEF threatVars, syncVars, feedVars
  <1>5. ASSUME NEW v, \/ GetThreatIndicator(v) \/ ImportSTIX(v) \/ ImportRevokes(v)
                      \/ \E state : SetThreatIndicatorState(v, state)
        PROVE CoverInv'
    BY <1>3, <1>5, FeedUntouched
  <1>6. CASE UpdateThreatIntelFeed
    <2>1. feed'.cursor = feed.cursor /\ feed'.url = feed.url
      <3>1. PICK state \in {"ACTIVE", "DISABLED"}, url \in DOMAIN Provider, auth \in BOOLEAN :
              LET changed == state # feed.state \/ url # feed.url \/ auth # feed.auth
              IN /\ feed' = [state |-> state, url |-> url, auth |-> auth, cursor |-> feed.cursor,
                             status |-> statusAfter(state, auth, changed),
                             due |-> feed.due \/ (changed /\ state = "ACTIVE"),
                             owner |-> IF changed THEN Nobody ELSE feed.owner,
                             leased |-> feed.leased /\ ~changed]
                 /\ moved' = (moved \/ url # feed.url)
        BY <1>6 DEF UpdateThreatIntelFeed
      <3>2. feed'.cursor = feed.cursor /\ feed'.url = url
        BY <3>1
      <3>3. url = feed.url
        BY <3>1
      <3> QED
        BY <3>2, <3>3
    <2>2. syncing' = syncing /\ considered' = considered
      BY <1>6 DEF UpdateThreatIntelFeed
    <2> QED
      BY <1>3, <2>1, <2>2
  <1>7. CASE QueueThreatIntelFeedSync \/ FallDue \/ LeaseExpires
    <2>1. feed'.url = feed.url /\ feed'.cursor = feed.cursor /\ syncing' = syncing /\ considered' = considered
      BY <1>7, <1>t DEF QueueThreatIntelFeedSync, FallDue, LeaseExpires, FeedRows
    <2> QED
      BY <1>3, <2>1
  <1>8. ASSUME NEW w \in SyncWorkers, feed'.url = feed.url, 1 .. feed'.cursor \subseteq considered'[1],
               \A x \in SyncWorkers \ {w} : syncing'[x] = syncing[x],
               considered[1] \subseteq considered'[1],
               SyncCovered(syncing'[w], considered'[1])
        PROVE  CoverInv'
    <2>1. \A x \in SyncWorkers : SyncCovered(syncing'[x], considered'[1])
      BY <1>2, <1>8, <1>t, CoveredMonotone
    <2> QED
      BY <1>2, <1>8, <2>1 DEF CoverInv
  <1>9. ASSUME NEW w \in SyncWorkers, NEW s, syncGoes(w, s)
        PROVE  \A x \in SyncWorkers \ {w} : syncing'[x] = syncing[x]
    BY <1>9, <1>t DEF syncGoes
  <1>10. ASSUME NEW w \in SyncWorkers, ClaimThreatIntelFeedSync(w) PROVE CoverInv'
    <2>1. /\ feed'.cursor = feed.cursor /\ feed'.url = feed.url /\ considered' = considered
          /\ syncing'[w].url = feed.url /\ syncing'[w].cursor = feed.cursor /\ syncing'[w].at # "page"
      BY <1>10, <1>t DEF ClaimThreatIntelFeedSync, syncGoes
    <2>2. \A x \in SyncWorkers \ {w} : syncing'[x] = syncing[x]
      BY <1>9, <1>10 DEF ClaimThreatIntelFeedSync
    <2>3. SyncCovered(syncing'[w], considered'[1])
      BY <1>2, <2>1 DEF SyncCovered
    <2> QED
      BY <1>2, <1>8, <2>1, <2>2, <2>3
  <1>11. ASSUME NEW w \in SyncWorkers, fetch(w) PROVE CoverInv'
    <2>1. /\ feed' = feed /\ considered' = considered
          /\ \A x \in SyncWorkers \ {w} : syncing'[x] = syncing[x]
      BY <1>9, <1>11 DEF fetch, feedVars
    <2>2. SyncCovered(syncing'[w], considered[1])
      BY <1>0, <1>2, <1>11, FetchCovers
    <2> QED
      BY <1>2, <1>8, <2>1, <2>2
  <1>12. ASSUME NEW w \in SyncWorkers, upsertFeedDraft(w) PROVE CoverInv'
    <2>1. /\ feed' = feed
          /\ \A x \in SyncWorkers \ {w} : syncing'[x] = syncing[x]
      BY <1>9, <1>12 DEF upsertFeedDraft, feedVars
    <2>2. SyncCovered(syncing'[w], considered'[1]) /\ considered[1] \subseteq considered'[1]
      BY <1>0, <1>2, <1>12, DraftCovers
    <2> QED
      BY <1>2, <1>8, <2>1, <2>2
  <1>13. ASSUME NEW w \in SyncWorkers, nextPage(w) PROVE CoverInv'
    <2>1. /\ feed' = feed /\ considered' = considered
          /\ \A x \in SyncWorkers \ {w} : syncing'[x] = syncing[x]
      BY <1>9, <1>13 DEF nextPage, feedVars
    <2>2. SyncCovered(syncing'[w], considered[1])
      BY <1>0, <1>2, <1>13, PageEndCovers
    <2> QED
      BY <1>2, <1>8, <2>1, <2>2
  <1>14. ASSUME NEW w \in SyncWorkers, syncFails(w) PROVE CoverInv'
    <2>1. /\ feed' = feed /\ considered' = considered
          /\ \A x \in SyncWorkers \ {w} : syncing'[x] = syncing[x]
      BY <1>9, <1>14 DEF syncFails, feedVars
    <2>2. /\ syncing'[w].url = syncing[w].url /\ syncing'[w].cursor = syncing[w].cursor
          /\ syncing'[w].at # "page"
      BY <1>14, <1>t DEF syncFails, syncGoes
    <2>3. SyncCovered(syncing'[w], considered[1])
      BY <1>2, <2>2 DEF SyncCovered
    <2> QED
      BY <1>2, <1>8, <2>1, <2>3
  <1>15. ASSUME NEW w \in SyncWorkers, FinishThreatIntelFeedSync(w) \/ WorkerStops(w) PROVE CoverInv'
    <2>1. /\ considered' = considered
          /\ \A x \in SyncWorkers \ {w} : syncing'[x] = syncing[x]
          /\ syncing'[w] = Resting
      BY <1>t, <1>15 DEF FinishThreatIntelFeedSync, WorkerStops, syncGoes
    <2>2. SyncCovered(Resting, considered[1])
      BY DEF Resting, SyncCovered
    <2>3. feed'.url = feed.url /\ feed'.cursor \in {feed.cursor, syncing[w].saved}
      BY <1>15 DEF FinishThreatIntelFeedSync, WorkerStops, feedVars
    <2>4. 1 .. syncing[w].saved \subseteq considered[1]
      <3>1. syncing[w].saved \in Nat /\ syncing[w].cursor \in Nat
        BY <1>t DEF Syncs
      <3>2. 1 .. syncing[w].cursor \subseteq considered[1]
        BY <1>2 DEF SyncCovered
      <3>3. syncing[w].saved <= syncing[w].cursor
        BY DEF LeaseHolds
      <3> QED
        BY <3>1, <3>2, <3>3
    <2> QED
      BY <1>2, <1>8, <2>1, <2>2, <2>3, <2>4
  <1> QED
    BY <1>4, <1>5, <1>6, <1>7, <1>10, <1>11, <1>12, <1>13, <1>14, <1>15 DEF ThreatNext, ThreatStep, SyncWork

\* A revocation is taken back only by an analyst who has seen it.
LEMMA RevocationStep ==
    ASSUME ThreatTypes, [ThreatNext]_threatVars
    PROVE  RevocationKept
  <1> USE ThreatIntelAssumption
  <1>0. /\ ioc \in [Values -> {"none", "ACTIVE", "REVOKED"}]
        /\ \A u \in Watched : u \in Values
    BY DEF ThreatTypes
  <1>1. CASE ioc' = ioc
    BY <1>1, <1>0 DEF RevocationKept
  <1>2. ASSUME NEW v, ioc' = [ioc EXCEPT ![v] = mergeThreatIndicator(v)] PROVE RevocationKept
    BY <1>2, <1>0 DEF RevocationKept, mergeThreatIndicator
  <1>3. ASSUME NEW v \in Watched, ImportRevokes(v) PROVE RevocationKept
    BY <1>3, <1>0 DEF RevocationKept, ImportRevokes
  <1>4. ASSUME NEW v \in Watched, NEW state, SetThreatIndicatorState(v, state) PROVE RevocationKept
    BY <1>4, <1>0 DEF RevocationKept, SetThreatIndicatorState
  <1>5. ASSUME NEW v, ImportSTIX(v) PROVE RevocationKept
    BY <1>2, <1>5 DEF ImportSTIX, UpsertThreatIndicator
  <1>6. ASSUME NEW w, upsertFeedDraft(w) PROVE RevocationKept
    BY <1>1, <1>2, <1>6 DEF upsertFeedDraft, UpsertThreatIndicator, iocVars
  <1>7. ASSUME \/ UNCHANGED threatVars
               \/ \E v : GetThreatIndicator(v)
               \/ UpdateThreatIntelFeed \/ QueueThreatIntelFeedSync \/ FallDue \/ LeaseExpires
               \/ \E w : ClaimThreatIntelFeedSync(w) \/ fetch(w) \/ nextPage(w) \/ syncFails(w)
               \/ \E w : FinishThreatIntelFeedSync(w) \/ WorkerStops(w)
        PROVE RevocationKept
    BY <1>1, <1>7 DEF threatVars, syncVars, iocVars, GetThreatIndicator, UpdateThreatIntelFeed,
       QueueThreatIntelFeedSync, FallDue, LeaseExpires, ClaimThreatIntelFeedSync, fetch, nextPage, syncFails,
       FinishThreatIntelFeedSync, WorkerStops
  <1> QED
    BY <1>3, <1>4, <1>5, <1>6, <1>7 DEF ThreatNext, ThreatStep, SyncWork

\* The feed starts with nothing taken and nobody at work.
LEMMA ThreatInitial ==
    ASSUME ThreatInit
    PROVE  ThreatTypes /\ LeaseHolds /\ CoverInv
  <1>1. 1 \in DOMAIN Provider /\ <<>> \in Seq(Nat)
    BY ThreatIntelAssumption
  <1>2. Resting \in Syncs /\ Resting.at = "idle" /\ Resting.saved = 0 /\ Resting.cursor = 0
    <2>1. "idle" \in {"idle", "fetch", "page", "done"} /\ "FAILED" \in Outcomes
      BY DEF Outcomes
    <2>2. Resting \in Syncs
      BY <1>1, <2>1, SyncRecord DEF Resting
    <2> QED
      BY <2>2 DEF Resting
  <1>3. feed \in FeedRows
    BY <1>1 DEF ThreatInit, FeedRows, Outcomes
  <1>4. ThreatTypes
    BY <1>2, <1>3 DEF ThreatInit, ThreatTypes
  <1>5. LeaseHolds
    BY <1>2 DEF ThreatInit, LeaseHolds
  <1>6. SyncCovered(Resting, {})
    BY DEF Resting, SyncCovered
  <1>7. CoverInv
    BY <1>1, <1>6 DEF ThreatInit, CoverInv
  <1> QED
    BY <1>4, <1>5, <1>7

\* The inductive invariant of the feed's synchronisation.
ThreatInv == ThreatTypes /\ LeaseHolds /\ CoverInv

\* Every step of the feed, its editors and its workers keeps the invariant.
LEMMA ThreatInductive == ThreatSpec => []ThreatInv
  <1>1. ThreatInit => ThreatInv
    BY ThreatInitial DEF ThreatInv
  <1>2. ThreatInv /\ [ThreatNext]_threatVars => ThreatInv'
    BY ThreatTypesStep, LeaseStep, CoverStep DEF ThreatInv
  <1> QED
    BY <1>1, <1>2, PTL DEF ThreatSpec

\* For every OpenCTI provider, page size and number of workers: what is behind
\* the cursor FinishThreatIntelFeedSync commits was merged or rejected.
THEOREM FeedLosesNothing == ThreatSpec => []CursorCovers
  <1>1. ThreatInv => CursorCovers
    BY DEF ThreatInv, CoverInv, CursorCovers
  <1> QED
    BY <1>1, ThreatInductive, PTL

\* A worker that lost its lease, or whose feed was given another source, does
\* not move the feed's cursor (the condition of FinishThreatIntelFeedSync).
THEOREM OvertakenSyncsWriteNothing == ThreatSpec => ResultIsCurrent
  <1>1. ThreatInv /\ [ThreatNext]_threatVars => [CurrentResult]_threatVars
    BY LeaseStep DEF ThreatInv
  <1> QED
    BY <1>1, ThreatInductive, PTL DEF ThreatSpec, ResultIsCurrent

\* No import undoes a revocation, by a feed or a bundle, in any interleaving
\* with analysts (mergeThreatIndicator and the row versions).
THEOREM RevocationsStick == ThreatSpec => RevocationSticks
  <1>1. ThreatInv /\ [ThreatNext]_threatVars => [RevocationKept]_threatVars
    BY RevocationStep DEF ThreatInv
  <1> QED
    BY <1>1, ThreatInductive, PTL DEF ThreatSpec, RevocationSticks

----------------------------------------------------------------------------
(* The collectors                                                           *)

Acknowledged == \A i \in loop.item : i.event \in delivered

PagesKept ==
    /\ cursorFile \in Nat /\ poller.cursor \in Nat
    /\ \A p \in 1 .. cursorFile : \A e \in Pages[p] : kept(e)
    /\ \A p \in 1 .. poller.cursor : \A e \in Pages[p] : kept(e)
    /\ poller.at = "page" =>
         /\ poller.page = poller.cursor + 1
         /\ \A e \in Pages[poller.page] \ poller.left : kept(e)

LinesKept(g, offset) == blind \/ \A n \in 1 .. offset : kept(line(g, n))

FileKept ==
    /\ checkpoint.offset \in Nat /\ tailer.offset \in Nat
    /\ checkpoint.fingerprint \in {0, counts}
    /\ LinesKept(counts, checkpoint.offset)
    /\ tailer.at # "idle" => /\ tailer.fingerprint \in {0, tailer.gen}
                             /\ LinesKept(tailer.gen, tailer.offset)

RequestsKept ==
    /\ requests = [r \in Requests |-> requests[r]]
    /\ \A r \in Requests :
         /\ requests[r].state = "accepted" => \A e \in r : kept(e)
         /\ requests[r].state = "handler" => \A e \in r \ requests[r].left : kept(e)

\* Spooling an event, under a name of its own or a stable one, keeps it and
\* what was in the spool.
LEMMA EnqueueKeeps ==
    ASSUME NEW e, Enqueue(e) \/ EnqueueUnique(e)
    PROVE  /\ spool \subseteq spool'
           /\ kept(e)'
  <1>1. PICK i : spool' = spool \cup {i} /\ i.event = e
    <2>1. CASE EnqueueUnique(e)
      <3> DEFINE i == [event |-> e, copy |-> 0]
      <3>1. spool' = spool \cup {i} /\ i.event = e
        BY <2>1 DEF EnqueueUnique
      <3> HIDE DEF i
      <3> QED
        BY <3>1
    <2>2. CASE Enqueue(e)
      <3> DEFINE used == {q.copy : q \in {j \in spool : j.event = e}}
                 number == CHOOSE n \in 1 .. MaxBytes : n \notin used
                 i == [event |-> e, copy |-> number]
      <3>1. spool' = spool \cup {i}
        BY <2>2 DEF Enqueue
      <3>2. i.event = e
        OBVIOUS
      <3> HIDE DEF i
      <3> QED
        BY <3>1, <3>2
    <2> QED
      BY <2>1, <2>2
  <1> QED
    BY <1>1 DEF kept

\* Only what the gateway has acknowledged leaves the spool (Ack), so that
\* whatever is kept stays kept; and Send records the acknowledgement first.
LEMMA KeptStep ==
    ASSUME Acknowledged, [CollectorNext]_collectorVars
    PROVE  Acknowledged' /\ \A e : kept(e) => kept(e)'
  <1> DEFINE Result == Acknowledged' /\ \A e : kept(e) => kept(e)'
  <1>1. ASSUME delivered' = delivered, spool \subseteq spool', loop'.item = loop.item \/ loop'.item = {}
        PROVE  Result
    BY <1>1 DEF Acknowledged, kept
  <1>2. CASE UNCHANGED collectorVars
    BY <1>1, <1>2 DEF collectorVars, workVars
  <1>3. CASE fetchPage \/ fetchFails \/ commitAPICheckpoint \/ AppendLine \/ RotateFile \/ openFile
             \/ commitCheckpoint
    BY <1>1, <1>3 DEF fetchPage, fetchFails, commitAPICheckpoint, AppendLine, RotateFile, openFile,
       commitCheckpoint
  <1>4. ASSUME NEW r, receive(r) \/ accept(r) PROVE Result
    BY <1>1, <1>4 DEF receive, accept
  <1>5. ASSUME NEW m, emit(m) PROVE Result
    BY <1>1, <1>5 DEF emit
  <1>6. CASE enqueuePage
    BY <1>1, <1>6, EnqueueKeeps DEF enqueuePage
  <1>7. CASE readLine
    BY <1>1, <1>7, EnqueueKeeps DEF readLine
  <1>8. ASSUME NEW r, sink(r) PROVE Result
    BY <1>1, <1>8, EnqueueKeeps DEF sink
  <1>9. CASE takeEvent
    BY <1>1, <1>9, EnqueueKeeps DEF takeEvent
  <1>10. CASE Peek
    BY <1>1, <1>10 DEF Peek
  <1>11. CASE Send
    BY <1>11 DEF Send, Acknowledged, kept
  <1>12. CASE Ack
    BY <1>12 DEF Ack, Acknowledged, kept
  <1>13. CASE retryEnqueue
    BY <1>1, <1>13, EnqueueKeeps DEF retryEnqueue, restart, NoFlush
  <1>14. CASE SendFails \/ CollectorCrash
    BY <1>1, <1>14 DEF SendFails, CollectorCrash, restart, NoFlush
  <1> QED
    BY <1>2, <1>3, <1>4, <1>5, <1>6, <1>7, <1>8, <1>9, <1>10, <1>11, <1>12, <1>13, <1>14
    DEF CollectorNext, CollectorStep, PollerStep, LoopStep

\* Steps of the other parts leave the poller alone, but for a restart, which
\* takes it back to the committed cursor.
LEMMA PagesKeptStep ==
    ASSUME PagesKept, Acknowledged, [CollectorNext]_collectorVars
    PROVE  PagesKept'
  <1>k. \A e : kept(e) => kept(e)'
    BY KeptStep
  <1>1. ASSUME UNCHANGED apiVars PROVE PagesKept'
    BY <1>k, <1>1 DEF PagesKept, apiVars
  <1>2. ASSUME cursorFile' = cursorFile, poller' = [Idle EXCEPT !.cursor = cursorFile] PROVE PagesKept'
    BY <1>k, <1>2 DEF PagesKept, Idle
  <1>3. ASSUME cursorFile' = cursorFile, pollError PROVE PagesKept'
    BY <1>k, <1>3 DEF PagesKept, pollError, Idle
  <1>4. CASE fetchPage
    BY <1>k, <1>4 DEF fetchPage, PagesKept
  <1>5. CASE enqueuePage
    <2>1. PICK e \in poller.left :
            \/ /\ EnqueueUnique(e)
               /\ poller' = [at |-> "page", cursor |-> poller.cursor, page |-> poller.page,
                             left |-> poller.left \ {e}, taken |-> poller.taken]
            \/ pollError
      BY <1>5 DEF enqueuePage
    <2>2. cursorFile' = cursorFile /\ poller.at = "page"
      BY <1>5 DEF enqueuePage
    <2>3. CASE EnqueueUnique(e) /\ poller'.at = "page" /\ poller'.cursor = poller.cursor
               /\ poller'.page = poller.page /\ poller'.left = poller.left \ {e}
      <3>1. kept(e)'
        BY <2>3, EnqueueKeeps
      <3> QED
        BY <1>k, <2>2, <2>3, <3>1 DEF PagesKept
    <2> QED
      BY <1>3, <2>1, <2>2, <2>3
  <1>6. CASE commitAPICheckpoint
    <2>1. /\ cursorFile' = poller.page /\ poller'.cursor = poller.page /\ poller'.at # "page"
          /\ poller.left = {} /\ poller.page = poller.cursor + 1
      BY <1>6 DEF commitAPICheckpoint, Idle, PagesKept
    <2>2. \A p \in 1 .. poller.page : \A e \in Pages[p] : kept(e)
      <3>1. \A p \in 1 .. poller.page : p \in 1 .. poller.cursor \/ p = poller.page
        BY <2>1 DEF PagesKept
      <3> QED
        BY <1>6, <2>1, <3>1 DEF PagesKept, commitAPICheckpoint
    <2>3. poller.page \in Nat
      BY <2>1 DEF PagesKept
    <2> QED
      BY <1>k, <2>1, <2>2, <2>3 DEF PagesKept
  <1>7. CASE fetchFails
    BY <1>3, <1>7 DEF fetchFails
  <1>8. CASE retryEnqueue \/ SendFails \/ CollectorCrash
    BY <1>1, <1>2, <1>8 DEF retryEnqueue, SendFails, CollectorCrash, restart
  <1>9. ASSUME \/ UNCHANGED collectorVars
               \/ takeEvent \/ Peek \/ Send \/ Ack
               \/ openFile \/ readLine \/ commitCheckpoint
               \/ \E r : receive(r) \/ sink(r) \/ accept(r)
               \/ AppendLine \/ RotateFile
               \/ \E m : emit(m)
        PROVE PagesKept'
    BY <1>1, <1>9 DEF collectorVars, workVars, takeEvent, Peek, Send, Ack, openFile, readLine,
       commitCheckpoint, receive, sink, accept, AppendLine, RotateFile, emit
  <1> QED
    BY <1>4, <1>5, <1>6, <1>7, <1>8, <1>9 DEF CollectorNext, CollectorStep, PollerStep, LoopStep

\* An offset counts lines of the generation it is recorded with, unless it was
\* applied blindly: two fingerprints that are known and equal are of one file.
LEMMA FileKeptStep ==
    ASSUME FileKept, Acknowledged, [CollectorNext]_collectorVars
    PROVE  FileKept'
  <1>k. \A e : kept(e) => kept(e)'
    BY KeptStep
  <1>b. \A g, n : kept(line(g, n)) => kept(line(g, n))'
    BY <1>k
  <1>1. ASSUME UNCHANGED <<checkpoint, tailer, counts, blind>> PROVE FileKept'
    BY <1>b, <1>1 DEF FileKept, LinesKept
  <1>2. ASSUME UNCHANGED <<checkpoint, counts, blind>>, tailer' = NoRead PROVE FileKept'
    BY <1>b, <1>2 DEF FileKept, LinesKept, NoRead
  <1>3. CASE openFile
    <2> DEFINE offset == IF startsOver THEN 0 ELSE checkpoint.offset
    <2>1. /\ tailer' = [at |-> "read", gen |-> generation, offset |-> offset,
                        fingerprint |-> filePrefixFingerprint(generation), dirty |-> FALSE]
          /\ blind' = (blind \/ (offset > 0 /\ counts # generation
                                 /\ 0 \in {checkpoint.fingerprint, filePrefixFingerprint(generation)}))
          /\ UNCHANGED <<checkpoint, counts, generation>>
      BY <1>3 DEF openFile
    <2>2. offset \in Nat
      BY DEF FileKept
    <2>3. filePrefixFingerprint(generation) \in {0, generation}
      BY DEF filePrefixFingerprint
    <2>4. blind' \/ \A n \in 1 .. checkpoint.offset : kept(line(counts, n))'
      BY <1>b, <2>1 DEF FileKept, LinesKept
    <2>5. blind' \/ \A n \in 1 .. offset : kept(line(generation, n))'
      <3>1. CASE offset = 0
        BY <3>1
      <3>2. CASE counts = generation /\ offset # 0
        BY <2>1, <2>4, <3>2
      <3>3. CASE counts # generation /\ offset # 0
        <4>1. ~startsOver
          BY <3>3
        <4>2. 0 \in {checkpoint.fingerprint, filePrefixFingerprint(generation)}
          BY <2>3, <3>3, <4>1 DEF startsOver, FileKept
        <4>3. offset > 0
          BY <2>2, <3>3
        <4> HIDE DEF offset
        <4> QED
          BY <2>1, <3>3, <4>2, <4>3
      <3> QED
        BY <3>1, <3>2, <3>3
    <2> HIDE DEF offset
    <2>6. /\ tailer'.offset = offset /\ tailer'.gen = generation
          /\ tailer'.fingerprint = filePrefixFingerprint(generation)
      BY <2>1
    <2>7. LinesKept(counts, checkpoint.offset)'
      BY <2>1, <2>4 DEF LinesKept
    <2>8. LinesKept(tailer.gen, tailer.offset)'
      BY <2>1, <2>5, <2>6 DEF LinesKept
    <2> QED
      BY <2>1, <2>2, <2>3, <2>6, <2>7, <2>8 DEF FileKept
  <1>4. CASE readLine
    <2>0. PICK g, offset : g = tailer.gen /\ offset = tailer.offset
      OBVIOUS
    <2>1. /\ tailer.at = "read" /\ UNCHANGED <<checkpoint, counts, blind>>
          /\ tailer'.at # "idle" /\ tailer'.gen = g /\ tailer'.fingerprint = tailer.fingerprint
      BY <1>4, <2>0 DEF readLine
    <2>2. \/ tailer'.offset = offset
          \/ tailer'.offset = offset + 1 /\ kept(line(g, offset + 1))'
      BY <1>4, <2>0, EnqueueKeeps DEF readLine
    <2>3. offset \in Nat /\ tailer'.offset \in Nat
      BY <2>0, <2>2 DEF FileKept
    <2>4. blind \/ \A n \in 1 .. tailer'.offset : kept(line(g, n))'
      <3>1. blind \/ \A n \in 1 .. offset : kept(line(g, n))'
        BY <1>b, <2>0, <2>1 DEF FileKept, LinesKept
      <3>2. \A n \in 1 .. offset + 1 : n \in 1 .. offset \/ n = offset + 1
        BY <2>3
      <3> QED
        BY <2>2, <3>1, <3>2
    <2>5. LinesKept(tailer.gen, tailer.offset)'
      BY <2>1, <2>4 DEF LinesKept
    <2>6. LinesKept(counts, checkpoint.offset)'
      BY <1>b, <2>1 DEF FileKept, LinesKept
    <2> QED
      BY <2>0, <2>1, <2>3, <2>5, <2>6 DEF FileKept
  <1>5. CASE commitCheckpoint
    <2>1. CASE tailer.dirty
      <3>1. /\ checkpoint'.offset = tailer.offset /\ checkpoint'.fingerprint = tailer.fingerprint
            /\ counts' = tailer.gen /\ tailer' = NoRead /\ blind' = blind /\ tailer.at # "idle"
        BY <1>5, <2>1 DEF commitCheckpoint
      <3> QED
        BY <1>b, <3>1 DEF FileKept, LinesKept, NoRead
    <2>2. CASE ~tailer.dirty
      BY <1>2, <1>5, <2>2 DEF commitCheckpoint
    <2> QED
      BY <2>1, <2>2
  <1>6. CASE retryEnqueue \/ SendFails \/ CollectorCrash
    BY <1>1, <1>2, <1>6 DEF retryEnqueue, SendFails, CollectorCrash, restart, fileVars
  <1>7. ASSUME \/ UNCHANGED collectorVars
               \/ fetchPage \/ enqueuePage \/ commitAPICheckpoint \/ fetchFails
               \/ takeEvent \/ Peek \/ Send \/ Ack
               \/ \E r : receive(r) \/ sink(r) \/ accept(r)
               \/ AppendLine \/ RotateFile
               \/ \E m : emit(m)
        PROVE FileKept'
    BY <1>1, <1>7 DEF collectorVars, workVars, fileVars, fetchPage, enqueuePage, commitAPICheckpoint,
       fetchFails, takeEvent, Peek, Send, Ack, receive, sink, accept, AppendLine, RotateFile, emit
  <1> QED
    BY <1>3, <1>4, <1>5, <1>6, <1>7 DEF CollectorNext, CollectorStep, PollerStep, LoopStep

\* A handler's request holds back only what is still to be spooled.
LEMMA RequestsKeptStep ==
    ASSUME RequestsKept, Acknowledged, [CollectorNext]_collectorVars
    PROVE  RequestsKept'
  <1>k. \A e : kept(e) => kept(e)'
    BY KeptStep
  <1>1. ASSUME requests' = requests PROVE RequestsKept'
    BY <1>k, <1>1 DEF RequestsKept
  <1>2. ASSUME NEW r \in Requests, NEW state, NEW left, requestGoes(r, state, left),
               state = "accepted" => \A e \in r : kept(e)',
               state = "handler" => \A e \in r \ left : kept(e)'
        PROVE  RequestsKept'
    <2>1. requests' = [x \in Requests |-> IF x = r THEN [state |-> state, left |-> left] ELSE requests[x]]
      BY <1>2 DEF requestGoes, RequestsKept
    <2>2. \A x \in Requests \ {r} : requests'[x] = requests[x]
      BY <2>1
    <2>3. requests'[r].state = state /\ requests'[r].left = left
      BY <2>1
    <2>4. requests' = [x \in Requests |-> requests'[x]]
      BY <2>1
    <2> QED
      BY <1>k, <1>2, <2>2, <2>3, <2>4 DEF RequestsKept
  <1>3. ASSUME NEW r \in Requests, receive(r) PROVE RequestsKept'
    <2>1. requestGoes(r, "handler", r)
      BY <1>3 DEF receive
    <2> QED
      BY <1>2, <2>1
  <1>4. ASSUME NEW r \in Requests, sink(r) PROVE RequestsKept'
    <2>1. PICK left : left = requests[r].left
      OBVIOUS
    <2>2. \A e \in r \ left : kept(e)'
      BY <1>4, <1>k, <2>1 DEF sink, RequestsKept
    <2>3. PICK e \in left :
            \/ Enqueue(e) /\ requestGoes(r, "handler", left \ {e})
            \/ requestGoes(r, "refused", left)
      BY <1>4, <2>1 DEF sink
    <2>4. CASE Enqueue(e) /\ requestGoes(r, "handler", left \ {e})
      <3>1. kept(e)'
        BY <2>4, EnqueueKeeps
      <3>2. \A x \in r \ (left \ {e}) : kept(x)'
        BY <2>2, <3>1
      <3> QED
        BY <1>2, <2>4, <3>2
    <2>5. CASE requestGoes(r, "refused", left)
      BY <1>2, <2>5
    <2> QED
      BY <2>3, <2>4, <2>5
  <1>5. ASSUME NEW r \in Requests, accept(r) PROVE RequestsKept'
    <2>1. requestGoes(r, "accepted", {}) /\ \A e \in r : kept(e)'
      BY <1>5, <1>k DEF accept, RequestsKept
    <2> QED
      BY <1>2, <2>1
  <1>6. ASSUME restart PROVE RequestsKept'
    <2>1. requests' = [r \in Requests |->
                         IF requests[r].state = "handler" THEN Waiting(r) ELSE requests[r]]
      BY <1>6 DEF restart
    <2>2. requests' = [r \in Requests |-> requests'[r]]
      BY <2>1
    <2>3. \A r \in Requests : requests'[r].state = "client" \/ requests'[r] = requests[r]
      BY <2>1 DEF Waiting
    <2> QED
      BY <1>k, <2>2, <2>3 DEF RequestsKept
  <1>7. CASE retryEnqueue \/ SendFails \/ CollectorCrash
    BY <1>1, <1>6, <1>7 DEF retryEnqueue, SendFails, CollectorCrash
  <1>8. ASSUME \/ UNCHANGED collectorVars
               \/ fetchPage \/ enqueuePage \/ commitAPICheckpoint \/ fetchFails
               \/ takeEvent \/ Peek \/ Send \/ Ack
               \/ openFile \/ readLine \/ commitCheckpoint
               \/ AppendLine \/ RotateFile
               \/ \E m : emit(m)
        PROVE RequestsKept'
    BY <1>1, <1>8 DEF collectorVars, workVars, fetchPage, enqueuePage, commitAPICheckpoint, fetchFails,
       takeEvent, Peek, Send, Ack, openFile, readLine, commitCheckpoint, AppendLine, RotateFile, emit
  <1> QED
    BY <1>3, <1>4, <1>5, <1>7, <1>8 DEF CollectorNext, CollectorStep, PollerStep, LoopStep

\* The inductive invariant of the collector: what each source has in hand, not
\* only what it has committed, is behind the spool.
CollectorInv == Acknowledged /\ PagesKept /\ FileKept /\ RequestsKept

\* For every API, set of requests, file, capacity and point of failure: what a
\* source regards as handed over (the committed cursor, the file checkpoint, a
\* 202) is in the spool or at the gateway.
THEOREM CheckpointsAreCovered == CollectorSpec => []SpoolCoversCheckpoint
  <1>1. CollectorInit => CollectorInv
    <2> SUFFICES ASSUME CollectorInit PROVE CollectorInv
      OBVIOUS
    <2>1. Acknowledged
      BY DEF CollectorInit, Acknowledged, NoFlush
    <2>2. PagesKept
      BY DEF CollectorInit, PagesKept, Idle
    <2>3. FileKept
      BY DEF CollectorInit, FileKept, LinesKept, NoRead
    <2>4. RequestsKept
      BY DEF CollectorInit, RequestsKept, Waiting
    <2> QED
      BY <2>1, <2>2, <2>3, <2>4 DEF CollectorInv
  <1>2. CollectorInv /\ [CollectorNext]_collectorVars => CollectorInv'
    BY KeptStep, PagesKeptStep, FileKeptStep, RequestsKeptStep DEF CollectorInv
  <1>3. CollectorInv => SpoolCoversCheckpoint
    BY DEF CollectorInv, PagesKept, FileKept, LinesKept, RequestsKept, SpoolCoversCheckpoint
  <1> QED
    BY <1>1, <1>2, <1>3, PTL DEF CollectorSpec
=============================================================================
