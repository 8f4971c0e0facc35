---------------------------- MODULE ContentProofs ----------------------------
(***************************************************************************)
(* What is proved of versioned content (playbooks, detection rules,        *)
(* parsers), of the AI's requests and of correlations, for any number of   *)
(* versions, editors, clients, requests, workers, rules and events.        *)
(***************************************************************************)
EXTENDS PlaybookVersions, DetectionContent, ParserStudio, AiRequests, CorrelationWindow,
        FiniteSetTheorems, WellFoundedInduction, TLAPS

PlaybookStates == {"ABSENT", "DRAFT", "PUBLISHED", "DISABLED"}
PlaybookVersionStates == {"ABSENT", "DRAFT", "VALIDATED", "PUBLISHED", "RETIRED"}

Publications ==
    [at : {"idle", "begin", "locked", "retiring", "retired"}, v : 0 .. MaxPlaybookVersions,
     seen : SUBSET PlaybookVersionIds, retire : SUBSET PlaybookVersionIds]

Starts == [at : {"idle", "versions", "create"}, request : SUBSET ExecutionRequests, v : 0 .. MaxPlaybookVersions]

PlaybookType ==
    /\ playbook \in [state : PlaybookStates, published : 0 .. MaxPlaybookVersions, latest : 0 .. MaxPlaybookVersions]
    /\ pbVersion \in [PlaybookVersionIds -> [state : PlaybookVersionStates, sound : BOOLEAN]]
    /\ publication \in [PublishersOfPlaybook -> Publications]
    /\ starting \in [ExecutionClients -> Starts]
    /\ executions \in [ExecutionRequests -> SUBSET PlaybookVersionIds]

\* The versions are numbered in the order they were created.
PlaybookNumbering ==
    /\ playbook.state = "ABSENT" => playbook.latest = 0
    /\ \A v \in PlaybookVersionIds : v > playbook.latest => pbVersion[v].state = "ABSENT"

OnePublishedRow ==
    \A v, w \in PlaybookVersionIds : pbVersion[v].state = "PUBLISHED" /\ pbVersion[w].state = "PUBLISHED" => v = w

\* What a publication relies on: the row it locked stays VALIDATED, the rows
\* it is to retire stay PUBLISHED, and no other publication has them.
holdsVersion(e) == publication[e].at \in {"locked", "retiring", "retired"}

PublicationHolds ==
    \A e \in PublishersOfPlaybook :
        /\ publication[e].at # "idle" => publication[e].v \in PlaybookVersionIds
        /\ holdsVersion(e) => pbVersion[publication[e].v].state = "VALIDATED"
        /\ \A v \in publication[e].retire : pbVersion[v].state = "PUBLISHED"

PublicationsApart ==
    \A e, f \in PublishersOfPlaybook : e # f =>
        /\ holdsVersion(e) /\ holdsVersion(f) => publication[e].v # publication[f].v
        /\ publication[e].retire \cap publication[f].retire = {}

\* What a client starting an execution relies on.
StartsNameVersion ==
    /\ playbook.state = "PUBLISHED" => playbook.published \in PlaybookVersionIds
    /\ \A c \in ExecutionClients : starting[c].at # "idle" =>
           /\ starting[c].v \in PlaybookVersionIds
           /\ \E r \in ExecutionRequests : starting[c].request = {r}

PlaybookInv ==
    /\ PlaybookType /\ PlaybookNumbering /\ OnePublishedRow
    /\ PublicationHolds /\ PublicationsApart /\ StartsNameVersion

-----------------------------------------------------------------------------
\* Before the first draft there is nothing to keep apart.
LEMMA PlaybookInvInit == PlaybookInit => PlaybookInv
  BY PlaybookVersionsAssumption DEF PlaybookInit, PlaybookInv, PlaybookType, PlaybookNumbering, OnePublishedRow,
     PublicationHolds, PublicationsApart, StartsNameVersion, holdsVersion, PlaybookVersionIds, NoPublication, NoStart,
     Publications, Starts, PlaybookStates, PlaybookVersionStates

\* Creating a version touches only a row that did not exist.
LEMMA DraftSteps ==
  ASSUME PlaybookInv, NEW sound \in BOOLEAN,
         CreateSOARPlaybook(sound) \/ CreateSOARPlaybookVersion(sound)
  PROVE  PlaybookInv' /\ UNCHANGED <<playbookLive, rowsIn({"PUBLISHED", "RETIRED"}), executions>>
<1> USE PlaybookVersionsAssumption DEF PlaybookInv, PlaybookVersionIds
<1>1. PICK n \in PlaybookVersionIds :
        /\ n = playbook.latest + 1 /\ playbook'.latest = n
        /\ pbVersion' = [pbVersion EXCEPT ![n] = [state |-> "DRAFT", sound |-> sound]]
        /\ playbook' \in [state : PlaybookStates, published : 0 .. MaxPlaybookVersions, latest : 0 .. MaxPlaybookVersions]
        /\ playbook'.state # "ABSENT"
        /\ playbook'.state = "PUBLISHED" <=> playbook.state = "PUBLISHED"
        /\ playbook'.state = "PUBLISHED" => playbook'.published = playbook.published
  BY DEF CreateSOARPlaybook, CreateSOARPlaybookVersion, draftVersion, PlaybookType, PlaybookNumbering, PlaybookStates
<1>2. pbVersion[n].state = "ABSENT"
  BY <1>1 DEF PlaybookNumbering, PlaybookType
<1>3. UNCHANGED <<publication, starting, executions>>
  BY DEF CreateSOARPlaybook, CreateSOARPlaybookVersion
<1>4. PlaybookType'
  BY <1>1, <1>3 DEF PlaybookType, PlaybookVersionStates
<1>5. \A v \in PlaybookVersionIds : v # n => pbVersion'[v] = pbVersion[v]
  BY <1>1 DEF PlaybookType
<1>6. pbVersion'[n].state = "DRAFT"
  BY <1>1 DEF PlaybookType
<1>7. PlaybookNumbering'
  BY <1>1, <1>5, <1>4 DEF PlaybookNumbering, PlaybookType
<1>8. OnePublishedRow'
  BY <1>5, <1>6 DEF OnePublishedRow
<1>9. PublicationHolds'
  BY <1>2, <1>3, <1>5 DEF PublicationHolds, holdsVersion, PlaybookType, Publications
<1>10. PublicationsApart'
  BY <1>3 DEF PublicationsApart, holdsVersion
<1>11. StartsNameVersion'
  BY <1>1, <1>3 DEF StartsNameVersion
<1>12. \A S \in SUBSET {"PUBLISHED", "RETIRED"} : rowsIn(S)' = rowsIn(S)
  BY <1>2, <1>5, <1>6 DEF rowsIn
<1>13. playbookLive' = playbookLive
  BY <1>1, <1>12 DEF playbookLive
<1> QED
  BY <1>3, <1>4, <1>7, <1>8, <1>9, <1>10, <1>11, <1>12, <1>13

\* Disabling the playbook withdraws the version in force.
LEMMA DisableStep ==
  ASSUME PlaybookInv, DisableSOARPlaybook
  PROVE  /\ PlaybookInv' /\ playbookLive' = {}
         /\ UNCHANGED <<rowsIn({"PUBLISHED", "RETIRED"}), executions>>
<1>1. /\ playbook' \in [state : PlaybookStates, published : 0 .. MaxPlaybookVersions, latest : 0 .. MaxPlaybookVersions]
      /\ playbook'.state = "DISABLED" /\ playbook'.latest = playbook.latest
      /\ UNCHANGED <<pbVersion, publication, starting, executions>>
  BY DEF DisableSOARPlaybook, PlaybookInv, PlaybookType, PlaybookStates
<1>2. PlaybookInv'
  BY <1>1 DEF PlaybookInv, PlaybookType, PlaybookNumbering, OnePublishedRow, PublicationHolds, PublicationsApart,
     StartsNameVersion, holdsVersion
<1> QED
  BY <1>1, <1>2 DEF playbookLive, rowsIn

\* Saving a report moves an unlocked row between DRAFT and VALIDATED.
LEMMA ReportStep ==
  ASSUME PlaybookInv, NEW v \in PlaybookVersionIds, SaveSOARValidation(v), UNCHANGED playbook
  PROVE  /\ pbVersion' \in [PlaybookVersionIds -> [state : PlaybookVersionStates, sound : BOOLEAN]]
         /\ PlaybookNumbering' /\ OnePublishedRow'
         /\ \A e \in PublishersOfPlaybook :
               /\ publication[e].at # "idle" => publication[e].v \in PlaybookVersionIds
               /\ holdsVersion(e) => pbVersion'[publication[e].v].state = "VALIDATED"
               /\ \A w \in publication[e].retire : pbVersion'[w].state = "PUBLISHED"
         /\ UNCHANGED <<playbookLive, rowsIn({"PUBLISHED", "RETIRED"})>>
<1> USE PlaybookVersionsAssumption DEF PlaybookInv
<1>1. /\ pbVersion[v].state \in {"DRAFT", "VALIDATED"} /\ pbVersion'[v].state \in {"DRAFT", "VALIDATED"}
      /\ \A w \in PlaybookVersionIds : w # v => pbVersion'[w] = pbVersion[w]
      /\ pbVersion' \in [PlaybookVersionIds -> [state : PlaybookVersionStates, sound : BOOLEAN]]
  BY DEF SaveSOARValidation, PlaybookType, PlaybookVersionStates
<1>2. PlaybookNumbering'
  BY <1>1 DEF PlaybookNumbering
<1>3. OnePublishedRow'
  BY <1>1 DEF OnePublishedRow
<1>4. \A e \in PublishersOfPlaybook : holdsVersion(e) => publication[e].v # v
  BY DEF SaveSOARValidation, unlocked, holdsRow, holdsVersion
<1>5. \A e \in PublishersOfPlaybook :
         /\ publication[e].at # "idle" => publication[e].v \in PlaybookVersionIds
         /\ holdsVersion(e) => pbVersion'[publication[e].v].state = "VALIDATED"
         /\ \A w \in publication[e].retire : pbVersion'[w].state = "PUBLISHED"
  BY <1>1, <1>4 DEF PublicationHolds, holdsVersion, PlaybookType, Publications
<1>6. \A S \in SUBSET {"PUBLISHED", "RETIRED"} : rowsIn(S)' = rowsIn(S)
  BY <1>1 DEF rowsIn
<1> QED
  BY <1>1, <1>2, <1>3, <1>5, <1>6 DEF playbookLive

\* Validation changes no version that was ever published (SaveSOARValidation).
LEMMA ValidationSteps ==
  ASSUME PlaybookInv, NEW v \in PlaybookVersionIds,
         ValidateVersion(v) \/ \E e \in PublishersOfPlaybook : PublishVersion(e, v)
  PROVE  PlaybookInv' /\ UNCHANGED <<playbookLive, rowsIn({"PUBLISHED", "RETIRED"}), executions>>
<1>1. SaveSOARValidation(v) /\ UNCHANGED <<playbook, starting, executions>>
  BY DEF ValidateVersion, PublishVersion
<1>2. publication' = publication
      \/ \E e \in PublishersOfPlaybook : publication' = [publication EXCEPT ![e] = [at |-> "begin", v |-> v, seen |-> {}, retire |-> {}]]
  BY DEF ValidateVersion, PublishVersion
<1>3. /\ pbVersion' \in [PlaybookVersionIds -> [state : PlaybookVersionStates, sound : BOOLEAN]]
      /\ PlaybookNumbering' /\ OnePublishedRow'
      /\ \A e \in PublishersOfPlaybook :
            /\ publication[e].at # "idle" => publication[e].v \in PlaybookVersionIds
            /\ holdsVersion(e) => pbVersion'[publication[e].v].state = "VALIDATED"
            /\ \A w \in publication[e].retire : pbVersion'[w].state = "PUBLISHED"
      /\ UNCHANGED <<playbookLive, rowsIn({"PUBLISHED", "RETIRED"})>>
  BY <1>1, ReportStep
<1>4. \A e \in PublishersOfPlaybook : publication'[e] = publication[e]
         \/ (publication'[e].at = "begin" /\ publication'[e].v = v /\ publication'[e].retire = {})
  BY <1>2 DEF PlaybookInv, PlaybookType
<1>5. PlaybookType'
  <2>1. [at |-> "begin", v |-> v, seen |-> {}, retire |-> {}] \in Publications
    BY PlaybookVersionsAssumption DEF Publications, PlaybookVersionIds
  <2>2. publication' \in [PublishersOfPlaybook -> Publications]
    BY <1>2, <2>1 DEF PlaybookInv, PlaybookType
  <2> QED
    BY <1>1, <1>3, <2>2 DEF PlaybookInv, PlaybookType
<1>6. PublicationHolds'
  BY <1>3, <1>4 DEF PublicationHolds, holdsVersion
<1>7. PublicationsApart'
  BY <1>4 DEF PlaybookInv, PublicationsApart, holdsVersion
<1>8. StartsNameVersion'
  BY <1>1 DEF PlaybookInv, StartsNameVersion
<1> QED
  BY <1>1, <1>3, <1>5, <1>6, <1>7, <1>8 DEF PlaybookInv

\* The statements of a publication before it commits: each lock it takes is
\* one that no other publication has.
LEMMA LockingSteps ==
  ASSUME PlaybookInv, NEW e \in PublishersOfPlaybook,
         lockVersion(e) \/ retireBegins(e) \/ retireEnds(e) \/ publishRollsBack(e)
  PROVE  PlaybookInv' /\ UNCHANGED <<playbookLive, rowsIn({"PUBLISHED", "RETIRED"}), executions>>
<1> USE DEF PlaybookInv
<1>1. UNCHANGED <<playbook, pbVersion, starting, executions>>
  BY DEF lockVersion, retireBegins, retireEnds, publishRollsBack
<1>2. PlaybookType'
  <2>1. NoPublication \in Publications
    BY PlaybookVersionsAssumption DEF NoPublication, Publications
  <2>2. \A p \in Publications : [p EXCEPT !.at = "locked"] \in Publications
    BY DEF Publications
  <2>3. publication'[e] \in Publications
    <3>1. CASE lockVersion(e) \/ publishRollsBack(e)
      BY <2>1, <2>2, <3>1 DEF PlaybookType, lockVersion, publishRollsBack
    <3>2. CASE retireBegins(e)
      BY <3>2 DEF PlaybookType, Publications, retireBegins
    <3>3. CASE retireEnds(e)
      BY <3>3 DEF PlaybookType, Publications, retireEnds
    <3> QED
      BY <3>1, <3>2, <3>3
  <2>4. publication' = [publication EXCEPT ![e] = publication'[e]]
    BY DEF PlaybookType, lockVersion, retireBegins, retireEnds, publishRollsBack
  <2> QED
    BY <1>1, <2>3, <2>4 DEF PlaybookType
<1>3. \A f \in PublishersOfPlaybook \ {e} : publication'[f] = publication[f]
  BY DEF PlaybookType, lockVersion, retireBegins, retireEnds, publishRollsBack
<1>4. /\ publication'[e].at # "idle" => publication'[e].v = publication[e].v /\ publication[e].at # "idle"
      /\ holdsVersion(e)' => pbVersion[publication[e].v].state = "VALIDATED"
                             /\ \A f \in PublishersOfPlaybook \ {e} : holdsVersion(f) => publication[f].v # publication[e].v
  <2>1. CASE lockVersion(e)
    BY <2>1 DEF lockVersion, holdsVersion, PlaybookType, rowLockedByOther, holdsRow, NoPublication
  <2>2. CASE retireBegins(e) \/ retireEnds(e)
    BY <2>2 DEF retireBegins, retireEnds, holdsVersion, PlaybookType, Publications, PublicationHolds, PublicationsApart
  <2>3. CASE publishRollsBack(e)
    BY <2>3 DEF publishRollsBack, holdsVersion, PlaybookType, NoPublication
  <2> QED
    BY <2>1, <2>2, <2>3
<1>5. /\ \A w \in publication'[e].retire : pbVersion[w].state = "PUBLISHED"
      /\ \A f \in PublishersOfPlaybook \ {e} : publication[f].retire \cap publication'[e].retire = {}
  <2>1. CASE retireEnds(e)
    <3>1. publication'[e].retire \subseteq publication[e].seen
          /\ \A w \in publication'[e].retire : pbVersion[w].state = "PUBLISHED"
      BY <2>1 DEF retireEnds, PlaybookType
    <3>2. \A w \in publication[e].seen, f \in PublishersOfPlaybook \ {e} : w \notin publication[f].retire
      BY <2>1 DEF retireEnds, rowLockedByOther, holdsRow
    <3> QED
      BY <3>1, <3>2
  <2>2. CASE ~retireEnds(e)
    <3>1. publication'[e].retire = publication[e].retire \/ publication'[e].retire = {}
      BY <2>2 DEF PlaybookType, Publications, lockVersion, retireBegins, publishRollsBack, NoPublication
    <3> QED
      BY <3>1 DEF PublicationHolds, PublicationsApart
  <2> QED
    BY <2>1, <2>2
<1>6. PublicationHolds'
  BY <1>1, <1>3, <1>4, <1>5 DEF PublicationHolds, holdsVersion
<1>7. PublicationsApart'
  <2> SUFFICES ASSUME NEW f \in PublishersOfPlaybook, NEW g \in PublishersOfPlaybook, f # g
               PROVE  /\ (holdsVersion(f) /\ holdsVersion(g))' => publication'[f].v # publication'[g].v
                      /\ publication'[f].retire \cap publication'[g].retire = {}
    BY DEF PublicationsApart
  <2>1. CASE f # e /\ g # e
    BY <2>1, <1>3 DEF PublicationsApart, holdsVersion
  <2>2. CASE f = e
    BY <2>2, <1>3, <1>4, <1>5 DEF holdsVersion
  <2>3. CASE g = e
    BY <2>3, <1>3, <1>4, <1>5 DEF holdsVersion
  <2> QED
    BY <2>1, <2>2, <2>3
<1> QED
  BY <1>1, <1>2, <1>6, <1>7 DEF PlaybookNumbering, OnePublishedRow, StartsNameVersion, playbookLive, rowsIn

\* A publication that commits puts its version in force, one never in force
\* before, and retires the one that was.
LEMMA PublishStep ==
  ASSUME PlaybookInv, NEW e \in PublishersOfPlaybook, PublishSOARPlaybookVersion(e)
  PROVE  /\ PlaybookInv' /\ UNCHANGED executions
         /\ \E v \in PlaybookVersionIds :
               /\ v \notin rowsIn({"PUBLISHED", "RETIRED"}) /\ playbookLive' = {v}
               /\ rowsIn({"PUBLISHED", "RETIRED"})' = rowsIn({"PUBLISHED", "RETIRED"}) \cup {v}
<1> USE DEF PlaybookInv
<1> DEFINE v == publication[e].v
           R == publication[e].retire
<1>1. /\ publication[e].at = "retired" /\ holdsVersion(e)
      /\ UNCHANGED <<starting, executions>>
      /\ playbook' = [state |-> "PUBLISHED", published |-> v, latest |-> playbook.latest]
      /\ publication' = [publication EXCEPT ![e] = NoPublication]
  BY DEF PublishSOARPlaybookVersion, holdsVersion
<1>2. v \in PlaybookVersionIds /\ pbVersion[v].state = "VALIDATED"
  BY <1>1 DEF PublicationHolds
<1>3. R \subseteq PlaybookVersionIds /\ \A w \in R : pbVersion[w].state = "PUBLISHED"
  BY DEF PublicationHolds, PlaybookType, Publications
<1>4. \A w \in PlaybookVersionIds : pbVersion[w].state = "PUBLISHED" => w \in R
  BY DEF PublishSOARPlaybookVersion, duplicatePublished, publishedRows
<1>5. /\ pbVersion' \in [PlaybookVersionIds -> [state : PlaybookVersionStates, sound : BOOLEAN]]
      /\ pbVersion'[v].state = "PUBLISHED"
      /\ \A w \in R : pbVersion'[w].state = "RETIRED"
      /\ \A w \in PlaybookVersionIds : w # v /\ w \notin R => pbVersion'[w] = pbVersion[w]
  <2>1. pbVersion' = [w \in PlaybookVersionIds |->
          IF w = v THEN [pbVersion[w] EXCEPT !.state = "PUBLISHED"]
          ELSE IF w \in R THEN [pbVersion[w] EXCEPT !.state = "RETIRED"] ELSE pbVersion[w]]
    BY DEF PublishSOARPlaybookVersion
  <2>2. pbVersion \in [PlaybookVersionIds -> [state : PlaybookVersionStates, sound : BOOLEAN]]
    BY DEF PlaybookType
  <2>3. ASSUME NEW w \in PlaybookVersionIds
        PROVE  /\ [pbVersion[w] EXCEPT !.state = "PUBLISHED"] = [state |-> "PUBLISHED", sound |-> pbVersion[w].sound]
               /\ [pbVersion[w] EXCEPT !.state = "RETIRED"] = [state |-> "RETIRED", sound |-> pbVersion[w].sound]
               /\ pbVersion[w] \in [state : PlaybookVersionStates, sound : BOOLEAN]
    BY <2>2
  <2>4. pbVersion' \in [PlaybookVersionIds -> [state : PlaybookVersionStates, sound : BOOLEAN]]
    <3>1. ASSUME NEW w \in PlaybookVersionIds
          PROVE  /\ [state |-> "PUBLISHED", sound |-> pbVersion[w].sound] \in [state : PlaybookVersionStates, sound : BOOLEAN]
                 /\ [state |-> "RETIRED", sound |-> pbVersion[w].sound] \in [state : PlaybookVersionStates, sound : BOOLEAN]
      BY <2>3 DEF PlaybookVersionStates
    <3> HIDE DEF R, v
    <3> QED
      BY <2>1, <2>3, <3>1
  <2>5. pbVersion'[v].state = "PUBLISHED" /\ v \notin R
    BY <2>1, <2>3, <1>2, <1>3
  <2>6. \A w \in R : pbVersion'[w].state = "RETIRED"
    BY <2>1, <2>3, <2>5, <1>3
  <2>7. \A w \in PlaybookVersionIds : w # v /\ w \notin R => pbVersion'[w] = pbVersion[w]
    BY <2>1
  <2> QED
    BY <2>4, <2>5, <2>6, <2>7
<1>6. rowsIn({"PUBLISHED"})' = {v}
  BY <1>2, <1>3, <1>4, <1>5 DEF rowsIn
<1>7. rowsIn({"PUBLISHED", "RETIRED"})' = rowsIn({"PUBLISHED", "RETIRED"}) \cup {v}
  BY <1>2, <1>3, <1>5 DEF rowsIn
<1>8. /\ playbook'.state = "PUBLISHED" /\ playbook'.published = v /\ playbook'.latest = playbook.latest
      /\ playbook' \in [state : PlaybookStates, published : 0 .. MaxPlaybookVersions, latest : 0 .. MaxPlaybookVersions]
  BY <1>1, <1>2, PlaybookVersionsAssumption DEF PlaybookType, PlaybookStates, PlaybookVersionIds
<1>9. playbookLive' = {v} /\ v \notin rowsIn({"PUBLISHED", "RETIRED"})
  BY <1>2, <1>6, <1>8 DEF playbookLive, rowsIn
<1>10. /\ publication'[e] = NoPublication
       /\ \A f \in PublishersOfPlaybook \ {e} : publication'[f] = publication[f]
  BY <1>1 DEF PlaybookType
<1>11. PlaybookType'
  BY <1>1, <1>5, <1>8, PlaybookVersionsAssumption DEF PlaybookType, NoPublication, Publications
<1>12. PlaybookNumbering'
  BY <1>2, <1>3, <1>5, <1>8 DEF PlaybookNumbering
<1>13. OnePublishedRow'
  BY <1>6 DEF OnePublishedRow, rowsIn
<1>14. PublicationHolds'
  <2> SUFFICES ASSUME NEW f \in PublishersOfPlaybook
               PROVE  /\ publication'[f].at # "idle" => publication'[f].v \in PlaybookVersionIds
                      /\ holdsVersion(f)' => pbVersion'[publication'[f].v].state = "VALIDATED"
                      /\ \A w \in publication'[f].retire : pbVersion'[w].state = "PUBLISHED"
    BY DEF PublicationHolds
  <2>1. CASE f = e
    BY <2>1, <1>10 DEF NoPublication, holdsVersion
  <2>2. CASE f # e
    <3>1. holdsVersion(f) => /\ publication[f].v \in PlaybookVersionIds /\ publication[f].v # v /\ publication[f].v \notin R
                             /\ pbVersion[publication[f].v].state = "VALIDATED"
      BY <2>2, <1>1, <1>3 DEF PublicationHolds, PublicationsApart, holdsVersion
    <3>2. \A w \in publication[f].retire : w \in PlaybookVersionIds /\ w # v /\ w \notin R /\ pbVersion[w].state = "PUBLISHED"
      BY <2>2, <1>2 DEF PublicationHolds, PublicationsApart, PlaybookType, Publications
    <3> QED
      BY <3>1, <3>2, <2>2, <1>5, <1>10 DEF PublicationHolds, holdsVersion
  <2> QED
    BY <2>1, <2>2
<1>15. PublicationsApart'
  BY <1>10 DEF PublicationsApart, holdsVersion, NoPublication
<1>16. StartsNameVersion'
  BY <1>1, <1>2, <1>8 DEF StartsNameVersion
<1> QED
  BY <1>1, <1>2, <1>7, <1>9, <1>11, <1>12, <1>13, <1>14, <1>15, <1>16

\* A client that starts an execution: what it may record is one execution
\* of the version in force, for a request that has none.
LEMMA StartSteps ==
  ASSUME PlaybookInv, NEW c \in ExecutionClients, StartExecution(c)
  PROVE  /\ PlaybookInv' /\ UNCHANGED <<playbookLive, rowsIn({"PUBLISHED", "RETIRED"})>>
         /\ \/ UNCHANGED executions
            \/ \E r \in ExecutionRequests :
                  /\ playbookLive # {} /\ executions[r] = {}
                  /\ executions' = [executions EXCEPT ![r] = playbookLive]
<1> USE DEF PlaybookInv
<1>1. UNCHANGED <<playbook, pbVersion, publication>>
  BY DEF StartExecution, getPlaybook, listVersions, CreateSOARExecution
<1>2. /\ starting' \in [ExecutionClients -> Starts]
      /\ StartsNameVersion'
  <2>1. NoStart \in Starts /\ NoStart.at = "idle"
    BY PlaybookVersionsAssumption DEF NoStart, Starts
  <2>2. CASE \E r \in ExecutionRequests : getPlaybook(c, r)
    <3>1. PICK r \in ExecutionRequests : getPlaybook(c, r)
      BY <2>2
    <3>2. playbook.published \in PlaybookVersionIds /\ playbook.published \in 0 .. MaxPlaybookVersions
      BY <3>1 DEF getPlaybook, StartsNameVersion, PlaybookType
    <3>3. [at |-> "versions", request |-> {r}, v |-> playbook.published] \in Starts
      BY <3>2 DEF Starts
    <3>4. starting' \in [ExecutionClients -> Starts]
      BY <3>1, <3>3 DEF getPlaybook, PlaybookType
    <3>5. \A d \in ExecutionClients : starting'[d] = starting[d]
                                      \/ starting'[d] = [at |-> "versions", request |-> {r}, v |-> playbook.published]
      BY <3>1 DEF getPlaybook, PlaybookType
    <3> QED
      BY <1>1, <3>2, <3>4, <3>5 DEF StartsNameVersion
  <2>3. CASE starting' = [starting EXCEPT ![c].at = "create"] /\ starting[c].at = "versions"
    <3>1. starting' \in [ExecutionClients -> Starts]
      BY <2>3 DEF PlaybookType, Starts
    <3>2. \A d \in ExecutionClients : starting'[d].v = starting[d].v /\ starting'[d].request = starting[d].request
                                      /\ (starting'[d].at # "idle" => starting[d].at # "idle")
      BY <2>3 DEF PlaybookType, Starts
    <3> QED
      BY <1>1, <3>1, <3>2 DEF StartsNameVersion
  <2>4. CASE starting' = [starting EXCEPT ![c] = NoStart]
    <3>1. starting' \in [ExecutionClients -> Starts]
      BY <2>1, <2>4 DEF PlaybookType
    <3>2. \A d \in ExecutionClients : starting'[d] = starting[d] \/ starting'[d].at = "idle"
      BY <2>1, <2>4 DEF PlaybookType
    <3> QED
      BY <1>1, <3>1, <3>2 DEF StartsNameVersion
  <2> QED
    BY <2>2, <2>3, <2>4 DEF StartExecution, listVersions, CreateSOARExecution
<1>3. UNCHANGED <<playbookLive, rowsIn({"PUBLISHED", "RETIRED"})>>
  BY <1>1 DEF playbookLive, rowsIn
<1>4. PlaybookNumbering' /\ OnePublishedRow' /\ PublicationHolds' /\ PublicationsApart'
  BY <1>1 DEF PlaybookNumbering, OnePublishedRow, PublicationHolds, PublicationsApart, holdsVersion
<1>5. /\ executions' \in [ExecutionRequests -> SUBSET PlaybookVersionIds]
      /\ \/ UNCHANGED executions
         \/ \E r \in ExecutionRequests :
               /\ playbookLive # {} /\ executions[r] = {}
               /\ executions' = [executions EXCEPT ![r] = playbookLive]
  <2>1. CASE CreateSOARExecution(c)
    <3> DEFINE v == starting[c].v
    <3>1. PICK r \in ExecutionRequests : starting[c].request = {r}
      BY <2>1 DEF CreateSOARExecution, StartsNameVersion
    <3>2. v \in PlaybookVersionIds
      BY <2>1 DEF CreateSOARExecution, StartsNameVersion
    <3>3. executions' = [q \in ExecutionRequests |->
             IF q = r /\ executions[q] = {} /\ mayExecute(v) THEN {v} ELSE executions[q]]
      BY <2>1, <3>1 DEF CreateSOARExecution
    <3>4. CASE executions[r] = {} /\ mayExecute(v)
      <4>1. playbookLive = {v}
        BY <3>2, <3>4 DEF mayExecute, playbookLive, rowsIn, OnePublishedRow
      <4> QED
        BY <3>2, <3>3, <3>4, <4>1 DEF PlaybookType
    <3>5. CASE ~(executions[r] = {} /\ mayExecute(v))
      BY <3>3, <3>5 DEF PlaybookType
    <3> QED
      BY <3>4, <3>5
  <2>2. CASE ~CreateSOARExecution(c)
    BY <2>2 DEF StartExecution, getPlaybook, listVersions, PlaybookType
  <2> QED
    BY <2>1, <2>2
<1> QED
  BY <1>1, <1>2, <1>3, <1>4, <1>5 DEF PlaybookType

\* Every step keeps the invariant and is a step of the versioned content, or
\* changes nothing of it.
LEMMA PlaybookInvNext ==
  ASSUME PlaybookInv, [PlaybookNext]_playbookVars
  PROVE  PlaybookInv' /\ [PlaybookContent!ContentStep]_(PlaybookContent!contentVars)
<1> USE DEF PlaybookContent!contentVars
<1>1. playbookLive \subseteq rowsIn({"PUBLISHED", "RETIRED"})
  BY DEF playbookLive, rowsIn
<1>2. CASE \E sound \in BOOLEAN : CreateSOARPlaybook(sound) \/ CreateSOARPlaybookVersion(sound)
  BY <1>2, DraftSteps
<1>3. CASE DisableSOARPlaybook
  <2>1. PlaybookContent!Withdraw
    BY <1>1, <1>3, DisableStep DEF PlaybookContent!Withdraw
  <2> QED
    BY <1>3, <2>1, DisableStep DEF PlaybookContent!ContentStep
<1>4. CASE \E v \in PlaybookVersionIds : ValidateVersion(v) \/ \E e \in PublishersOfPlaybook : PublishVersion(e, v)
  BY <1>4, ValidationSteps
<1>5. ASSUME NEW e \in PublishersOfPlaybook, publicationStep(e)
      PROVE  PlaybookInv' /\ [PlaybookContent!ContentStep]_(PlaybookContent!contentVars)
  <2>1. CASE PublishSOARPlaybookVersion(e)
    <3>1. PICK v \in PlaybookVersionIds :
             /\ v \notin rowsIn({"PUBLISHED", "RETIRED"}) /\ playbookLive' = {v}
             /\ rowsIn({"PUBLISHED", "RETIRED"})' = rowsIn({"PUBLISHED", "RETIRED"}) \cup {v}
             /\ UNCHANGED executions
      BY <2>1, PublishStep
    <3>2. PlaybookContent!Release(v)
      BY <1>1, <3>1 DEF PlaybookContent!Release
    <3> QED
      BY <2>1, <3>2, PublishStep DEF PlaybookContent!ContentStep
  <2>2. CASE ~PublishSOARPlaybookVersion(e)
    BY <1>5, <2>2, LockingSteps DEF publicationStep
  <2> QED
    BY <2>1, <2>2
<1>6. ASSUME NEW c \in ExecutionClients, StartExecution(c)
      PROVE  PlaybookInv' /\ [PlaybookContent!ContentStep]_(PlaybookContent!contentVars)
  <2>1. CASE UNCHANGED executions
    BY <1>6, <2>1, StartSteps
  <2>2. CASE ~UNCHANGED executions
    <3>1. PICK r \in ExecutionRequests :
             /\ playbookLive # {} /\ executions[r] = {}
             /\ executions' = [executions EXCEPT ![r] = playbookLive]
      BY <1>6, <2>2, StartSteps
    <3>2. UNCHANGED <<playbookLive, rowsIn({"PUBLISHED", "RETIRED"})>>
      BY <1>6, StartSteps
    <3>3. PlaybookContent!Serve(r)
      BY <3>1, <3>2 DEF PlaybookContent!Serve
    <3> QED
      BY <1>6, <3>3, StartSteps DEF PlaybookContent!ContentStep
  <2> QED
    BY <2>1, <2>2
<1>7. CASE UNCHANGED playbookVars
  BY <1>7 DEF playbookVars, PlaybookInv, PlaybookType, PlaybookNumbering, OnePublishedRow, PublicationHolds,
     PublicationsApart, StartsNameVersion, holdsVersion, playbookLive, rowsIn
<1> QED
  BY <1>2, <1>3, <1>4, <1>5, <1>6, <1>7 DEF PlaybookNext

\* Whatever editors, publications in progress and clients do at the same time
\* (internal/store/soar.go), a SOAR playbook behaves as versioned content: at
\* most one version is in force, a version is released once and never after it
\* was retired or the playbook was disabled, and a request is executed once, by
\* the version in force at that moment.
THEOREM PlaybookIsVersionedContent == PlaybookSpec => PlaybookContract
<1>1. PlaybookInit => PlaybookInv
  BY PlaybookInvInit
<1>2. PlaybookInit => PlaybookContent!Nothing
  BY DEF PlaybookInit, PlaybookContent!Nothing, playbookLive, rowsIn, PlaybookVersionIds
<1>3. PlaybookInv /\ [PlaybookNext]_playbookVars => PlaybookInv' /\ [PlaybookContent!ContentStep]_(PlaybookContent!contentVars)
  BY PlaybookInvNext
<1> QED
  BY <1>1, <1>2, <1>3, PTL DEF PlaybookSpec, PlaybookContract, PlaybookContent!ContentSpec

-----------------------------------------------------------------------------
(* Detection rules.  A version in force is replaced or disabled as a whole, *)
(* so at most one is; a validation that is saved late finds a row that is  *)
(* no longer DRAFT or VALIDATED and leaves it alone.                       *)

RuleVersionStates == {"ABSENT", "DRAFT", "VALIDATED", "PUBLISHED", "SUPERSEDED", "DISABLED"}
RuleRows == [state : RuleVersionStates, passes : BOOLEAN]

DetectionType ==
    /\ ruleVersion \in [DetectionRules -> [RuleVersionIds -> RuleRows]]
    /\ \A e \in RuleValidators : validation[e].at # "idle" =>
           validation[e].rule \in DetectionRules /\ validation[e].v \in RuleVersionIds
    /\ validation \in [RuleValidators -> [at : {"idle", "evaluated"}, rule : DetectionRules, v : 0 .. MaxRuleVersions, valid : BOOLEAN]]

OneRuleInForce ==
    \A r \in DetectionRules, v, w \in RuleVersionIds :
        ruleVersion[r][v].state = "PUBLISHED" /\ ruleVersion[r][w].state = "PUBLISHED" => v = w

DetectionInv == DetectionType /\ OneRuleInForce

\* The released versions of a rule, and what each kind of step does to them.
ruleContent(r) == <<versionsIn(r, {"PUBLISHED"}), versionsIn(r, {"SUPERSEDED"}), versionsIn(r, {"DISABLED"})>>

ruleReleased(r, v) ==
    /\ v \notin versionsIn(r, {"PUBLISHED"}) \cup versionsIn(r, {"SUPERSEDED"}) \cup versionsIn(r, {"DISABLED"})
    /\ versionsIn(r, {"PUBLISHED"})' = {v}
    /\ versionsIn(r, {"SUPERSEDED"})' = versionsIn(r, {"SUPERSEDED"}) \cup versionsIn(r, {"PUBLISHED"})
    /\ UNCHANGED versionsIn(r, {"DISABLED"})

ruleWithdrawn(r) ==
    /\ versionsIn(r, {"PUBLISHED"})' = {}
    /\ versionsIn(r, {"DISABLED"})' = versionsIn(r, {"DISABLED"}) \cup versionsIn(r, {"PUBLISHED"})
    /\ UNCHANGED versionsIn(r, {"SUPERSEDED"})

ruleRestored(r, v) ==
    /\ versionsIn(r, {"PUBLISHED"}) # {} /\ v \in versionsIn(r, {"SUPERSEDED"})
    /\ versionsIn(r, {"PUBLISHED"})' = {v}
    /\ versionsIn(r, {"SUPERSEDED"})' = (versionsIn(r, {"SUPERSEDED"}) \ {v}) \cup versionsIn(r, {"PUBLISHED"})
    /\ UNCHANGED versionsIn(r, {"DISABLED"})

ruleMoves(r) ==
    \/ \E v \in RuleVersionIds : ruleReleased(r, v) \/ ruleRestored(r, v)
    \/ ruleWithdrawn(r)
    \/ UNCHANGED ruleContent(r)

\* No rule has a version in force at the start.
LEMMA DetectionInvInit == DetectionInit => DetectionInv
  BY DetectionContentAssumption DEF DetectionInit, DetectionInv, DetectionType, OneRuleInForce, NoValidation,
     RuleRows, RuleVersionStates, DetectionRules, RuleVersionIds

\* A step that leaves the rows of the other rule alone.
LEMMA OtherRuleRests ==
  ASSUME DetectionInv, NEW r \in DetectionRules, NEW rows \in [RuleVersionIds -> RuleRows],
         ruleVersion' = [ruleVersion EXCEPT ![r] = rows],
         \A v, w \in RuleVersionIds : rows[v].state = "PUBLISHED" /\ rows[w].state = "PUBLISHED" => v = w
  PROVE  /\ ruleVersion' \in [DetectionRules -> [RuleVersionIds -> RuleRows]] /\ OneRuleInForce'
         /\ ruleVersion'[r] = rows
         /\ \A q \in DetectionRules : q # r => UNCHANGED ruleContent(q)
<1>1. /\ ruleVersion' \in [DetectionRules -> [RuleVersionIds -> RuleRows]] /\ ruleVersion'[r] = rows
      /\ \A q \in DetectionRules : q # r => ruleVersion'[q] = ruleVersion[q]
  BY DEF DetectionInv, DetectionType
<1>2. OneRuleInForce'
  BY <1>1 DEF DetectionInv, OneRuleInForce
<1>3. \A q \in DetectionRules : q # r => UNCHANGED ruleContent(q)
  BY <1>1 DEF ruleContent, versionsIn
<1> QED
  BY <1>1, <1>2, <1>3

\* Publication and rollback put one version in force.
LEMMA PutInForce ==
  ASSUME DetectionInv, NEW r \in DetectionRules, NEW v \in RuleVersionIds,
         ruleVersion' = setStates(r, putInForce(r, v)), UNCHANGED validation
  PROVE  /\ DetectionInv' /\ \A q \in DetectionRules : q # r => UNCHANGED ruleContent(q)
         /\ \A x \in RuleVersionIds : ruleVersion'[r][x].state =
               IF x = v THEN "PUBLISHED" ELSE IF ruleVersion[r][x].state = "PUBLISHED" THEN "SUPERSEDED" ELSE ruleVersion[r][x].state
<1> DEFINE rows == [x \in RuleVersionIds |-> [state |-> putInForce(r, v)[x], passes |-> ruleVersion[r][x].passes]]
<1>1. \A x \in RuleVersionIds : putInForce(r, v)[x] =
          IF x = v THEN "PUBLISHED" ELSE IF ruleVersion[r][x].state = "PUBLISHED" THEN "SUPERSEDED" ELSE ruleVersion[r][x].state
  BY DEF putInForce
<1>2. \A x \in RuleVersionIds : ruleVersion[r][x].state \in RuleVersionStates /\ ruleVersion[r][x].passes \in BOOLEAN
  BY DEF DetectionInv, DetectionType, RuleRows
<1>3. \A x \in RuleVersionIds : putInForce(r, v)[x] \in RuleVersionStates
  BY <1>1, <1>2 DEF RuleVersionStates
<1>4. rows \in [RuleVersionIds -> RuleRows] /\ \A x \in RuleVersionIds : rows[x].state = putInForce(r, v)[x]
  BY <1>2, <1>3 DEF RuleRows
<1>5. \A x, w \in RuleVersionIds : rows[x].state = "PUBLISHED" /\ rows[w].state = "PUBLISHED" => x = w
  BY <1>1, <1>4
<1>6. ruleVersion' = [ruleVersion EXCEPT ![r] = rows]
  BY DEF setStates
<1> HIDE DEF rows
<1>7. /\ ruleVersion' \in [DetectionRules -> [RuleVersionIds -> RuleRows]] /\ OneRuleInForce' /\ ruleVersion'[r] = rows
      /\ \A q \in DetectionRules : q # r => UNCHANGED ruleContent(q)
  BY <1>4, <1>5, <1>6, OtherRuleRests
<1>8. DetectionType'
  BY <1>7 DEF DetectionInv, DetectionType
<1> QED
  BY <1>1, <1>4, <1>7, <1>8 DEF DetectionInv

\* Publishing releases a validated version (PublishDetectionContent).
LEMMA PublishRule ==
  ASSUME DetectionInv, NEW r \in DetectionRules, NEW v \in RuleVersionIds, PublishDetectionContent(r, v)
  PROVE  DetectionInv' /\ ruleReleased(r, v) /\ \A q \in DetectionRules : q # r => UNCHANGED ruleContent(q)
<1>1. /\ DetectionInv' /\ \A q \in DetectionRules : q # r => UNCHANGED ruleContent(q)
      /\ \A x \in RuleVersionIds : ruleVersion'[r][x].state =
            IF x = v THEN "PUBLISHED" ELSE IF ruleVersion[r][x].state = "PUBLISHED" THEN "SUPERSEDED" ELSE ruleVersion[r][x].state
  BY PutInForce DEF PublishDetectionContent
<1>2. ruleVersion[r][v].state = "VALIDATED"
  BY DEF PublishDetectionContent
<1>3. ruleReleased(r, v)
  BY <1>1, <1>2 DEF ruleReleased, versionsIn
<1> QED
  BY <1>1, <1>3

\* Rollback restores a superseded version (RollbackDetectionContent).
LEMMA RollbackRule ==
  ASSUME DetectionInv, NEW r \in DetectionRules, RollbackDetectionContent(r)
  PROVE  /\ DetectionInv' /\ \A q \in DetectionRules : q # r => UNCHANGED ruleContent(q)
         /\ \E v \in RuleVersionIds : ruleRestored(r, v)
<1>1. PICK v \in versionsIn(r, {"SUPERSEDED"}) : ruleVersion' = setStates(r, putInForce(r, v))
  BY DEF RollbackDetectionContent
<1>2. v \in RuleVersionIds /\ ruleVersion[r][v].state = "SUPERSEDED"
  BY DEF versionsIn
<1>3. /\ DetectionInv' /\ \A q \in DetectionRules : q # r => UNCHANGED ruleContent(q)
      /\ \A x \in RuleVersionIds : ruleVersion'[r][x].state =
            IF x = v THEN "PUBLISHED" ELSE IF ruleVersion[r][x].state = "PUBLISHED" THEN "SUPERSEDED" ELSE ruleVersion[r][x].state
  BY <1>1, <1>2, PutInForce DEF RollbackDetectionContent
<1>4. versionsIn(r, {"PUBLISHED"}) # {}
  BY DEF RollbackDetectionContent
<1>5. ruleRestored(r, v)
  BY <1>2, <1>3, <1>4 DEF ruleRestored, versionsIn
<1> QED
  BY <1>2, <1>3, <1>5

\* Disabling withdraws the version in force (DisableDetectionContent).
LEMMA DisableRule ==
  ASSUME DetectionInv, NEW r \in DetectionRules, DisableDetectionContent(r)
  PROVE  DetectionInv' /\ ruleWithdrawn(r) /\ \A q \in DetectionRules : q # r => UNCHANGED ruleContent(q)
<1> DEFINE new == [x \in RuleVersionIds |-> IF ruleVersion[r][x].state = "PUBLISHED" THEN "DISABLED" ELSE ruleVersion[r][x].state]
           rows == [x \in RuleVersionIds |-> [state |-> new[x], passes |-> ruleVersion[r][x].passes]]
<1>1. \A x \in RuleVersionIds : ruleVersion[r][x].state \in RuleVersionStates /\ ruleVersion[r][x].passes \in BOOLEAN
  BY DEF DetectionInv, DetectionType, RuleRows
<1>2. \A x \in RuleVersionIds : new[x] \in RuleVersionStates /\ new[x] # "PUBLISHED"
  BY <1>1 DEF RuleVersionStates
<1>3. rows \in [RuleVersionIds -> RuleRows] /\ \A x \in RuleVersionIds : rows[x].state = new[x]
  BY <1>1, <1>2 DEF RuleRows
<1>4. ruleVersion' = [ruleVersion EXCEPT ![r] = rows] /\ UNCHANGED validation
  BY DEF DisableDetectionContent, setStates
<1>5. \A x \in RuleVersionIds : rows[x].state = IF ruleVersion[r][x].state = "PUBLISHED" THEN "DISABLED" ELSE ruleVersion[r][x].state
  BY <1>3
<1> HIDE DEF rows, new
<1>6. \A v, w \in RuleVersionIds : rows[v].state = "PUBLISHED" /\ rows[w].state = "PUBLISHED" => v = w
  BY <1>2, <1>3
<1>7. /\ ruleVersion' \in [DetectionRules -> [RuleVersionIds -> RuleRows]] /\ OneRuleInForce' /\ ruleVersion'[r] = rows
      /\ \A q \in DetectionRules : q # r => UNCHANGED ruleContent(q)
  BY <1>3, <1>4, <1>6, OtherRuleRests
<1>8. DetectionType'
  BY <1>4, <1>7 DEF DetectionInv, DetectionType
<1>9. ruleWithdrawn(r)
  BY <1>5, <1>7 DEF ruleWithdrawn, versionsIn
<1> QED
  BY <1>7, <1>8, <1>9 DEF DetectionInv

\* One row that is not released, before or after.
LEMMA DraftRow ==
  ASSUME DetectionInv, NEW r \in DetectionRules, NEW v \in RuleVersionIds, NEW row \in RuleRows,
         ruleVersion' = [ruleVersion EXCEPT ![r][v] = row],
         ruleVersion[r][v].state \in {"ABSENT", "DRAFT", "VALIDATED"}, row.state \in {"DRAFT", "VALIDATED"}
  PROVE  /\ ruleVersion' \in [DetectionRules -> [RuleVersionIds -> RuleRows]] /\ OneRuleInForce'
         /\ \A q \in DetectionRules : UNCHANGED ruleContent(q)
<1> DEFINE rows == [ruleVersion[r] EXCEPT ![v] = row]
<1>1. rows \in [RuleVersionIds -> RuleRows] /\ \A x \in RuleVersionIds : rows[x] = IF x = v THEN row ELSE ruleVersion[r][x]
  BY DEF DetectionInv, DetectionType
<1>2. ruleVersion' = [ruleVersion EXCEPT ![r] = rows]
  BY DEF DetectionInv, DetectionType
<1> HIDE DEF rows
<1>3. \A x, w \in RuleVersionIds : rows[x].state = "PUBLISHED" /\ rows[w].state = "PUBLISHED" => x = w
  BY <1>1 DEF DetectionInv, OneRuleInForce
<1>4. /\ ruleVersion' \in [DetectionRules -> [RuleVersionIds -> RuleRows]] /\ OneRuleInForce' /\ ruleVersion'[r] = rows
      /\ \A q \in DetectionRules : q # r => UNCHANGED ruleContent(q)
  <2>1. rows \in [RuleVersionIds -> RuleRows]
    BY <1>1
  <2> QED
    BY <1>2, <1>3, <2>1, OtherRuleRests
<1>5. UNCHANGED ruleContent(r)
  BY <1>1, <1>4 DEF ruleContent, versionsIn
<1> QED
  BY <1>4, <1>5

\* Drafts and validations leave what is in force alone
\* (CreateDetectionDraft, SaveDetectionValidation).
LEMMA DraftAndValidation ==
  ASSUME DetectionInv,
         \/ \E r \in DetectionRules, v \in RuleVersionIds :
               \/ \E passes \in BOOLEAN : CreateDraft(r, v, passes)
               \/ \E e \in RuleValidators : Validate(e, r, v)
         \/ \E e \in RuleValidators : SaveDetectionValidation(e)
  PROVE  DetectionInv' /\ \A q \in DetectionRules : UNCHANGED ruleContent(q)
<1>1. ASSUME NEW r \in DetectionRules, NEW v \in RuleVersionIds, NEW passes \in BOOLEAN, CreateDraft(r, v, passes)
      PROVE  DetectionInv' /\ \A q \in DetectionRules : UNCHANGED ruleContent(q)
  <2>1. [state |-> "DRAFT", passes |-> passes] \in RuleRows
    BY DEF RuleRows, RuleVersionStates
  <2>2. /\ ruleVersion' \in [DetectionRules -> [RuleVersionIds -> RuleRows]] /\ OneRuleInForce'
        /\ \A q \in DetectionRules : UNCHANGED ruleContent(q)
    BY <1>1, <2>1, DraftRow DEF CreateDraft
  <2> QED
    BY <1>1, <2>2 DEF DetectionInv, DetectionType, CreateDraft
<1>2. ASSUME NEW r \in DetectionRules, NEW v \in RuleVersionIds, NEW e \in RuleValidators, Validate(e, r, v)
      PROVE  DetectionInv' /\ \A q \in DetectionRules : UNCHANGED ruleContent(q)
  <2> DEFINE ok == ruleVersion[r][v].passes /\ dependenciesPublished(r)
             new == [at |-> "evaluated", rule |-> r, v |-> v, valid |-> ok]
  <2>1. ok \in BOOLEAN
    BY DEF dependenciesPublished
  <2>2. validation' = [validation EXCEPT ![e] = new] /\ UNCHANGED ruleVersion
    BY <1>2 DEF Validate
  <2>3. new \in [at : {"idle", "evaluated"}, rule : DetectionRules, v : 0 .. MaxRuleVersions, valid : BOOLEAN]
        /\ new.rule = r /\ new.v = v
    BY <2>1 DEF RuleVersionIds
  <2> HIDE DEF new, ok
  <2>4. DetectionType'
    BY <2>2, <2>3 DEF DetectionInv, DetectionType
  <2> QED
    BY <2>2, <2>4 DEF DetectionInv, OneRuleInForce, ruleContent, versionsIn
<1>3. ASSUME NEW e \in RuleValidators, SaveDetectionValidation(e)
      PROVE  DetectionInv' /\ \A q \in DetectionRules : UNCHANGED ruleContent(q)
  <2> DEFINE r == validation[e].rule
             v == validation[e].v
             s == IF validation[e].valid THEN "VALIDATED" ELSE "DRAFT"
  <2>1. r \in DetectionRules /\ v \in RuleVersionIds
    BY <1>3 DEF SaveDetectionValidation, DetectionInv, DetectionType
  <2>2. NoValidation \in [at : {"idle", "evaluated"}, rule : DetectionRules, v : 0 .. MaxRuleVersions, valid : BOOLEAN]
        /\ NoValidation.at = "idle" /\ validation' = [validation EXCEPT ![e] = NoValidation]
    <3>1. NoValidation \in [at : {"idle", "evaluated"}, rule : DetectionRules, v : 0 .. MaxRuleVersions, valid : BOOLEAN]
          /\ NoValidation.at = "idle"
      BY DetectionContentAssumption DEF NoValidation, DetectionRules
    <3> QED
      BY <1>3, <3>1 DEF SaveDetectionValidation
  <2>3. CASE mayValidate(r, v)
    <3>1. ruleVersion' = [ruleVersion EXCEPT ![r][v].state = s]
      BY <1>3, <2>3 DEF SaveDetectionValidation
    <3>2. ruleVersion[r][v].state \in {"ABSENT", "DRAFT", "VALIDATED"} /\ s \in {"DRAFT", "VALIDATED"}
      BY <2>3 DEF mayValidate
    <3> HIDE DEF s
    <3>3. [ruleVersion[r][v] EXCEPT !.state = s] \in RuleRows /\ [ruleVersion[r][v] EXCEPT !.state = s].state = s
      BY <2>1, <3>2 DEF DetectionInv, DetectionType, RuleRows, RuleVersionStates
    <3>4. ruleVersion' = [ruleVersion EXCEPT ![r][v] = [ruleVersion[r][v] EXCEPT !.state = s]]
      BY <2>1, <3>1 DEF DetectionInv, DetectionType
    <3> HIDE DEF r, v
    <3>5. /\ ruleVersion' \in [DetectionRules -> [RuleVersionIds -> RuleRows]] /\ OneRuleInForce'
          /\ \A q \in DetectionRules : UNCHANGED ruleContent(q)
      BY <2>1, <3>2, <3>3, <3>4, DraftRow
    <3> QED
      BY <2>2, <3>5 DEF DetectionInv, DetectionType
  <2>4. CASE ~mayValidate(r, v)
    <3>1. UNCHANGED ruleVersion
      BY <1>3, <2>4 DEF SaveDetectionValidation
    <3> QED
      BY <2>2, <3>1 DEF DetectionInv, DetectionType, OneRuleInForce, ruleContent, versionsIn
  <2> QED
    BY <2>3, <2>4
<1> QED
  BY <1>1, <1>2, <1>3

\* Every step keeps the invariant and moves each rule as its content may.
LEMMA DetectionInvNext ==
  ASSUME DetectionInv, [DetectionNext]_detectionVars
  PROVE  DetectionInv' /\ \A r \in DetectionRules : ruleMoves(r)
<1> USE DEF ruleMoves
<1>1. CASE \/ \E r \in DetectionRules, v \in RuleVersionIds :
                 \/ \E passes \in BOOLEAN : CreateDraft(r, v, passes)
                 \/ \E e \in RuleValidators : Validate(e, r, v)
           \/ \E e \in RuleValidators : SaveDetectionValidation(e)
  BY <1>1, DraftAndValidation
<1>2. CASE \E r \in DetectionRules, v \in RuleVersionIds : PublishDetectionContent(r, v)
  BY <1>2, PublishRule
<1>3. CASE \E r \in DetectionRules : DisableDetectionContent(r)
  BY <1>3, DisableRule
<1>4. CASE \E r \in DetectionRules : RollbackDetectionContent(r)
  BY <1>4, RollbackRule
<1>5. CASE UNCHANGED detectionVars
  BY <1>5 DEF detectionVars, DetectionInv, DetectionType, OneRuleInForce, ruleContent, versionsIn
<1> QED
  BY <1>1, <1>2, <1>3, <1>4, <1>5 DEF DetectionNext

\* Whatever validations are under way (internal/store/detection_content.go),
\* each detection rule behaves as versioned content: one version in force at
\* most, published once; a superseded version comes back only in exchange for
\* the current one, and a disabled one never does.
THEOREM DetectionRulesAreVersionedContent == DetectionSpec => DetectionContract
<1>1. DetectionInit => DetectionInv
  BY DetectionInvInit
<1>2. DetectionInit => BaseContent!Nothing /\ CorrelationContent!Nothing
  BY DEF DetectionInit, BaseContent!Nothing, CorrelationContent!Nothing, versionsIn, DetectionRules, RuleVersionIds
<1>3. DetectionInv /\ [DetectionNext]_detectionVars => DetectionInv'
  BY DetectionInvNext
<1>4. DetectionInv /\ [DetectionNext]_detectionVars => [BaseContent!ContentStep]_(BaseContent!contentVars)
  <2>1. BaseRule \in DetectionRules
    BY DEF DetectionRules
  <2>2. ruleMoves(BaseRule) => [BaseContent!ContentStep]_(BaseContent!contentVars)
    BY DEF ruleMoves, ruleReleased, ruleWithdrawn, ruleRestored, ruleContent, BaseContent!ContentStep, BaseContent!contentVars,
       BaseContent!Release, BaseContent!Restore, BaseContent!Withdraw
  <2> QED
    BY <2>1, <2>2, DetectionInvNext
<1>5. DetectionInv /\ [DetectionNext]_detectionVars => [CorrelationContent!ContentStep]_(CorrelationContent!contentVars)
  <2>1. CorrelationRule \in DetectionRules
    BY DEF DetectionRules
  <2>2. ruleMoves(CorrelationRule) => [CorrelationContent!ContentStep]_(CorrelationContent!contentVars)
    BY DEF ruleMoves, ruleReleased, ruleWithdrawn, ruleRestored, ruleContent, CorrelationContent!ContentStep,
       CorrelationContent!contentVars, CorrelationContent!Release, CorrelationContent!Restore, CorrelationContent!Withdraw
  <2> QED
    BY <2>1, <2>2, DetectionInvNext
<1> QED
  BY <1>1, <1>2, <1>3, <1>4, <1>5, PTL DEF DetectionSpec, DetectionContract, BaseContent!ContentSpec, CorrelationContent!ContentSpec

-----------------------------------------------------------------------------
(* Parsers.  Validation may put a published row back to VALIDATED, so the  *)
(* argument does not rest on states: a row held by a publication stays     *)
(* valid because a report is saved only over a row no other request holds, *)
(* and the index compares the format once more before the row is written.  *)

ParserVersions == [state : {"ABSENT", "DRAFT", "VALIDATED", "PUBLISHED", "SUPERSEDED", "DISABLED"}, valid : BOOLEAN, passes : BOOLEAN]
ParserEdits == [at : {"idle", "validated", "begin", "locked", "superseding", "superseded"},
                row : SUBSET ParserRows, seen : SUBSET ParserRows, take : SUBSET ParserRows]

StudioType == parserRow \in [ParserRows -> ParserVersions] /\ parserEdit \in [ParserEditors -> ParserEdits]

\* A version found valid passes its samples.
ValidIsEarned == \A p \in ParserRows : parserRow[p].valid => parserRow[p].passes /\ parserRow[p].state # "ABSENT"

\* A request names one row, and that row is valid from its lock to the commit.
LockedIsValid ==
    \A e \in ParserEditors :
        /\ parserEdit[e].at # "idle" => \E p \in ParserRows : parserEdit[e].row = {p}
        /\ parserEdit[e].at \in {"locked", "superseding", "superseded"} => \A p \in parserEdit[e].row : parserRow[p].valid

StudioInv == StudioType /\ ValidIsEarned /\ LockedIsValid /\ OneParserPerFormat

\* There is no parser at the start.
LEMMA StudioInvInit == StudioInit => StudioInv
  BY DEF StudioInit, StudioInv, StudioType, ValidIsEarned, LockedIsValid, OneParserPerFormat, published, NoEdit,
     ParserVersions, ParserEdits

\* A request under way names exactly one row.
LEMMA TheRow ==
  ASSUME StudioInv, NEW e \in ParserEditors, parserEdit[e].at # "idle"
  PROVE  theRow(e) \in ParserRows /\ parserEdit[e].row = {theRow(e)}
  BY DEF StudioInv, LockedIsValid, theRow

\* Steps of a request that leave the rows alone.
LEMMA EditSteps ==
  ASSUME StudioInv, NEW e \in ParserEditors,
         \/ \E p \in ParserRows : ValidateParser(e, p) \/ PublishParser(e, p)
         \/ lockParserRow(e) \/ supersedeBegins(e) \/ supersedeEnds(e) \/ parserRollsBack(e)
  PROVE  StudioInv'
<1> USE DEF StudioInv
<1>1. UNCHANGED parserRow
  BY DEF ValidateParser, PublishParser, lockParserRow, supersedeBegins, supersedeEnds, parserRollsBack
<1>2. PICK edit \in ParserEdits :
         /\ parserEdit' = [parserEdit EXCEPT ![e] = edit]
         /\ edit.at # "idle" => \E p \in ParserRows : edit.row = {p}
         /\ edit.at \in {"locked", "superseding", "superseded"} => \A p \in edit.row : parserRow[p].valid
  <2>1. NoEdit \in ParserEdits /\ NoEdit.at = "idle"
    BY DEF NoEdit, ParserEdits
  <2>2. CASE \E p \in ParserRows : ValidateParser(e, p) \/ PublishParser(e, p)
    <3>1. PICK p \in ParserRows : ValidateParser(e, p) \/ PublishParser(e, p)
      BY <2>2
    <3>2. PICK at \in {"validated", "begin"} : parserEdit' = [parserEdit EXCEPT ![e] = [at |-> at, row |-> {p}, seen |-> {}, take |-> {}]]
      BY <3>1 DEF ValidateParser, PublishParser, goesTo
    <3> DEFINE edit == [at |-> at, row |-> {p}, seen |-> {}, take |-> {}]
    <3>3. edit \in ParserEdits /\ edit.at \notin {"locked", "superseding", "superseded"} /\ edit.row = {p}
      BY DEF ParserEdits
    <3> QED
      BY <3>2, <3>3
  <2>3. CASE lockParserRow(e)
    <3>1. theRow(e) \in ParserRows /\ parserEdit[e].row = {theRow(e)}
      BY <2>3, TheRow DEF lockParserRow
    <3>2. CASE parserRow[theRow(e)].valid
      <4>1. parserEdit' = [parserEdit EXCEPT ![e] = [parserEdit[e] EXCEPT !.at = "locked"]]
        BY <2>3, <3>2 DEF lockParserRow, goesTo
      <4>2. [parserEdit[e] EXCEPT !.at = "locked"] \in ParserEdits
            /\ [parserEdit[e] EXCEPT !.at = "locked"].row = {theRow(e)}
        BY <3>1 DEF StudioType, ParserEdits
      <4> QED
        BY <3>1, <3>2, <4>1, <4>2
    <3>3. CASE ~parserRow[theRow(e)].valid
      BY <2>3, <3>3, <2>1 DEF lockParserRow, goesTo
    <3> QED
      BY <3>2, <3>3
  <2>4. CASE supersedeBegins(e) \/ supersedeEnds(e)
    <3>1. PICK at \in {"superseding", "superseded"}, seen \in SUBSET ParserRows, take \in SUBSET ParserRows :
             parserEdit' = [parserEdit EXCEPT ![e] = [at |-> at, row |-> parserEdit[e].row, seen |-> seen, take |-> take]]
      BY <2>4 DEF supersedeBegins, supersedeEnds, goesTo, published, sameFormat, StudioType, ParserEdits
    <3>2. parserEdit[e].at \in {"locked", "superseding"} /\ parserEdit[e].row \subseteq ParserRows
      BY <2>4 DEF supersedeBegins, supersedeEnds, StudioType, ParserEdits
    <3> DEFINE edit == [at |-> at, row |-> parserEdit[e].row, seen |-> seen, take |-> take]
    <3>3. edit \in ParserEdits /\ edit.row = parserEdit[e].row
      BY <3>2 DEF ParserEdits
    <3> QED
      BY <3>1, <3>2, <3>3 DEF LockedIsValid
  <2>5. CASE parserRollsBack(e)
    BY <2>5, <2>1 DEF parserRollsBack, goesTo
  <2> QED
    BY <2>2, <2>3, <2>4, <2>5
<1>3. StudioType'
  BY <1>1, <1>2 DEF StudioType
<1>4. LockedIsValid'
  BY <1>1, <1>2 DEF LockedIsValid, StudioType
<1> QED
  BY <1>1, <1>3, <1>4 DEF ValidIsEarned, OneParserPerFormat, published

\* A request that writes a row and ends.
LEMMA EndOfEdit ==
  ASSUME StudioInv, NEW e \in ParserEditors, goesTo(e, NoEdit)
  PROVE  /\ parserEdit' \in [ParserEditors -> ParserEdits]
         /\ \A f \in ParserEditors : parserEdit'[f] = parserEdit[f] \/ parserEdit'[f].at = "idle"
         /\ parserEdit'[e].at = "idle" /\ \A f \in ParserEditors : f # e => parserEdit'[f] = parserEdit[f]
<1>1. NoEdit \in ParserEdits /\ NoEdit.at = "idle"
  BY DEF NoEdit, ParserEdits
<1> QED
  BY <1>1 DEF goesTo, StudioInv, StudioType

\* A report makes a row valid only if its samples passed
\* (SaveParserValidation).
LEMMA SaveReport ==
  ASSUME StudioInv, NEW e \in ParserEditors, SaveParserValidation(e)
  PROVE  StudioInv'
<1> USE DEF StudioInv
<1> DEFINE p == theRow(e)
           row == [state |-> IF parserRow[p].passes THEN "VALIDATED" ELSE "DRAFT", valid |-> parserRow[p].passes, passes |-> parserRow[p].passes]
<1>1. p \in ParserRows /\ parserEdit[e].row = {p}
  BY TheRow DEF SaveParserValidation
<1>2. parserRow' = [parserRow EXCEPT ![p] = row]
  BY DEF SaveParserValidation
<1>3. row \in ParserVersions /\ row.state \in {"VALIDATED", "DRAFT"} /\ row.valid = parserRow[p].passes /\ row.passes = parserRow[p].passes
  BY <1>1 DEF StudioType, ParserVersions
<1>4. \A f \in ParserEditors : f # e /\ parserEdit[f].at \in {"locked", "superseding", "superseded"} => p \notin parserEdit[f].row
  BY DEF SaveParserValidation, parserRowFree, holdsParserRow
<1>5. parserEdit' \in [ParserEditors -> ParserEdits] /\ parserEdit'[e].at = "idle"
      /\ \A f \in ParserEditors : f # e => parserEdit'[f] = parserEdit[f]
  BY EndOfEdit DEF SaveParserValidation
<1> HIDE DEF p, row
<1>6. parserRow' \in [ParserRows -> ParserVersions] /\ parserRow'[p] = row /\ \A q \in ParserRows : q # p => parserRow'[q] = parserRow[q]
  BY <1>1, <1>2, <1>3 DEF StudioType
<1>7. ValidIsEarned'
  BY <1>3, <1>6 DEF ValidIsEarned
<1>8. LockedIsValid'
  BY <1>4, <1>5, <1>6 DEF LockedIsValid, StudioType, ParserEdits
<1>9. OneParserPerFormat'
  BY <1>1, <1>3, <1>6 DEF OneParserPerFormat, published
<1> QED
  BY <1>5, <1>6, <1>7, <1>8, <1>9 DEF StudioType

\* Publication puts a valid row in force under the unique index on the format
\* (PublishParserContent).
LEMMA PublishRow ==
  ASSUME StudioInv, NEW e \in ParserEditors, PublishParserContent(e)
  PROVE  StudioInv'
<1> USE DEF StudioInv
<1> DEFINE p == theRow(e)
           T == parserEdit[e].take
<1>1. p \in ParserRows /\ parserEdit[e].row = {p}
  BY TheRow DEF PublishParserContent
<1>2. parserRow[p].passes /\ parserRow[p].valid
  BY <1>1 DEF PublishParserContent, LockedIsValid, ValidIsEarned
<1>3. \A q \in ParserRows : FormatOf(q) = FormatOf(p) /\ parserRow[q].state = "PUBLISHED" => q \in T
  BY DEF PublishParserContent, formatTaken, sameFormat, published
<1>4. parserEdit' \in [ParserEditors -> ParserEdits]
      /\ \A f \in ParserEditors : parserEdit'[f] = parserEdit[f] \/ parserEdit'[f].at = "idle"
  BY EndOfEdit DEF PublishParserContent
<1>5. parserRow' = [q \in ParserRows |->
          IF q = p THEN [parserRow[q] EXCEPT !.state = "PUBLISHED"]
          ELSE IF q \in T THEN [parserRow[q] EXCEPT !.state = "SUPERSEDED"] ELSE parserRow[q]]
  BY DEF PublishParserContent
<1> HIDE DEF p, T
<1>6. /\ parserRow' \in [ParserRows -> ParserVersions]
      /\ \A q \in ParserRows : parserRow'[q].valid = parserRow[q].valid /\ parserRow'[q].passes = parserRow[q].passes
      /\ \A q \in ParserRows : parserRow'[q].state =
            IF q = p THEN "PUBLISHED" ELSE IF q \in T THEN "SUPERSEDED" ELSE parserRow[q].state
  BY <1>5 DEF StudioType, ParserVersions
<1>7. ValidIsEarned'
  BY <1>6 DEF ValidIsEarned
<1>8. LockedIsValid'
  BY <1>4, <1>6 DEF LockedIsValid, StudioType, ParserEdits
<1>9. OneParserPerFormat'
  BY <1>1, <1>2, <1>3, <1>6 DEF OneParserPerFormat, published
<1> QED
  BY <1>4, <1>6, <1>7, <1>8, <1>9 DEF StudioType

\* A draft is not in force, and disabling takes a row out of force
\* (CreateParserDraft, DisableParserContent).
LEMMA DraftAndDisable ==
  ASSUME StudioInv, NEW p \in ParserRows,
         (\E passes \in BOOLEAN : CreateParserDraft(p, passes)) \/ DisableParserContent(p)
  PROVE  StudioInv'
<1> USE DEF StudioInv
<1>1. CASE \E passes \in BOOLEAN : CreateParserDraft(p, passes)
  <2>1. PICK passes \in BOOLEAN : CreateParserDraft(p, passes)
    BY <1>1
  <2>2. /\ parserRow' \in [ParserRows -> ParserVersions] /\ UNCHANGED parserEdit
        /\ parserRow[p].state = "ABSENT" /\ parserRow'[p].state = "DRAFT" /\ ~parserRow'[p].valid
        /\ \A q \in ParserRows : q # p => parserRow'[q] = parserRow[q]
    BY <2>1 DEF CreateParserDraft, StudioType, ParserVersions
  <2>3. ValidIsEarned' /\ OneParserPerFormat'
    BY <2>2 DEF ValidIsEarned, OneParserPerFormat, published
  <2>4. LockedIsValid'
    BY <2>2 DEF LockedIsValid, ValidIsEarned, StudioType, ParserEdits
  <2> QED
    BY <2>2, <2>3, <2>4 DEF StudioType
<1>2. CASE DisableParserContent(p)
  <2>1. /\ parserRow' \in [ParserRows -> ParserVersions] /\ UNCHANGED parserEdit
        /\ \A q \in ParserRows : parserRow'[q] = parserRow[q]
              \/ (parserRow'[q].state = "DISABLED" /\ parserRow'[q].valid = parserRow[q].valid /\ parserRow'[q].passes = parserRow[q].passes)
    BY <1>2 DEF DisableParserContent, StudioType, ParserVersions
  <2>2. ValidIsEarned' /\ OneParserPerFormat'
    BY <2>1 DEF ValidIsEarned, OneParserPerFormat, published
  <2>3. LockedIsValid'
    BY <2>1 DEF LockedIsValid, StudioType, ParserEdits
  <2> QED
    BY <2>1, <2>2, <2>3 DEF StudioType
<1> QED
  BY <1>1, <1>2

\* For every format there is at most one published parser to choose from, and
\* it passed its samples (internal/store/parser_content.go), for any number of
\* editors, parsers and formats and however their requests overlap.
THEOREM ParserChoiceIsUnique == StudioSpec => []OneParserPerFormat
<1>1. StudioInit => StudioInv
  BY StudioInvInit
<1>2. StudioInv /\ [StudioNext]_parserVars => StudioInv'
  <2> SUFFICES ASSUME StudioInv, [StudioNext]_parserVars PROVE StudioInv'
    OBVIOUS
  <2>1. CASE UNCHANGED parserVars
    BY <2>1 DEF parserVars, StudioInv, StudioType, ValidIsEarned, LockedIsValid, OneParserPerFormat, published
  <2> QED
    BY <2>1, EditSteps, SaveReport, PublishRow, DraftAndDisable DEF StudioNext
<1>3. StudioInv => OneParserPerFormat
  BY DEF StudioInv
<1> QED
  BY <1>1, <1>2, <1>3, PTL DEF StudioSpec

-----------------------------------------------------------------------------
(* AI requests.  A worker that goes on is one for which the policy allowed *)
(* the provider at some moment since its claim; a worker that has finished *)
(* a request is the only one that has, and its outcome is not audited yet. *)
(* Leases matter to neither.                                               *)

AiDrafts == [provider : Providers, context : AiContexts]
AiRows == [status : {"QUEUED", "RUNNING"} \cup aiEnded, draft : AiDrafts, owner : SUBSET AiWorkers, leased : BOOLEAN, attempt : Nat]
AiWork == [at : {"claimed", "allowed", "built"} \cup aiEnded, key : AiKeys, since : Nat]
AiReports == [at : {"finished"}, key : AiKeys, outcome : aiEnded]

AiType ==
    /\ aiPolicy \in Seq(Policies) /\ Len(aiPolicy) > 0
    /\ aiSubmit \in [AiKeys -> SUBSET AiDrafts]
    /\ DOMAIN aiRequest = AiKeys /\ \A k \in AiKeys : aiRequest[k] = NoAiRow \/ aiRequest[k] \in AiRows
    /\ aiRequest = [k \in AiKeys |-> aiRequest[k]]
    /\ aiWorker = [w \in AiWorkers |-> aiWorker[w]]
    /\ aiAudit = [k \in AiKeys |-> aiAudit[k]]
    /\ aiDecisions = [k \in AiKeys |-> aiDecisions[k]]

allowedBetween(from, to, provider) == \E v \in from .. to : policyAllows(aiPolicy[v], provider)

CallsGoverned ==
    \A call \in aiCalls :
        /\ call.since \in 1 .. Len(aiPolicy) /\ call.until \in 1 .. Len(aiPolicy)
        /\ allowedBetween(call.since, call.until, call.draft.provider)
        /\ call.draft.context = "clean"

WorkGoverned(w) ==
    /\ aiWorker[w] \in AiWork /\ aiWorker[w].since \in 1 .. Len(aiPolicy)
    /\ aiRequest[aiWorker[w].key] \in AiRows
    /\ aiWorker[w].at \in {"allowed", "built"} => allowedBetween(aiWorker[w].since, Len(aiPolicy), draftOf(w).provider)
    /\ aiWorker[w].at = "built" => draftOf(w).context = "clean"

ReportDue(w) ==
    /\ aiWorker[w] \in AiReports
    /\ aiRequest[aiWorker[w].key] \in AiRows
    /\ aiRequest[aiWorker[w].key].status = aiWorker[w].outcome
    /\ aiAudit[aiWorker[w].key] = <<>>

WorkersGoverned == \A w \in AiWorkers : aiWorker[w] = NoAiWork \/ WorkGoverned(w) \/ ReportDue(w)

OneReport ==
    \A w, x \in AiWorkers : w # x /\ aiWorker[w].at = "finished" /\ aiWorker[x].at = "finished" => aiWorker[w].key # aiWorker[x].key

OutcomesAudited ==
    \A k \in AiKeys :
        /\ aiAudit[k] = <<>> \/ (aiAudit[k] = <<aiRequest[k].status>> /\ aiRequest[k].status \in aiEnded)
        /\ aiDecisions[k] # {} => aiRequest[k].status = "SUCCEEDED"

AiInv == AiType /\ CallsGoverned /\ WorkersGoverned /\ OneReport /\ OutcomesAudited

\* There are no requests, calls or outcomes at the start.
LEMMA AiInvInit == AiInit => AiInv
<1> SUFFICES ASSUME AiInit PROVE AiInv
  OBVIOUS
<1>1. aiPolicy \in Seq(Policies) /\ Len(aiPolicy) > 0
  <2>1. [enabled |-> TRUE, cloudAllowed |-> TRUE] \in Policies
    BY DEF Policies
  <2> QED
    BY <2>1 DEF AiInit
<1>2. AiType
  BY <1>1 DEF AiInit, AiType
<1>3. CallsGoverned /\ WorkersGoverned /\ OneReport /\ OutcomesAudited
  BY DEF AiInit, CallsGoverned, WorkersGoverned, OneReport, OutcomesAudited, NoAiWork
<1> QED
  BY <1>2, <1>3 DEF AiInv

\* The invariant says at least what is promised.
LEMMA AiGoverned == AiInv => AiIsGoverned
<1> SUFFICES ASSUME AiInv PROVE AiIsGoverned
  OBVIOUS
<1>1. ASSUME NEW k \in AiKeys
      PROVE  Len(aiAudit[k]) <= 1 /\ (aiAudit[k] # <<>> => aiAudit[k] = <<aiRequest[k].status>>)
             /\ (aiDecisions[k] # {} => aiRequest[k].status = "SUCCEEDED")
  <2>1. /\ aiAudit[k] = <<>> \/ (aiAudit[k] = <<aiRequest[k].status>> /\ aiRequest[k].status \in aiEnded)
        /\ aiDecisions[k] # {} => aiRequest[k].status = "SUCCEEDED"
    BY DEF AiInv, OutcomesAudited
  <2>2. CASE aiAudit[k] = <<>>
    BY <2>1, <2>2
  <2>3. CASE aiAudit[k] = <<aiRequest[k].status>>
    <3>1. Len(aiAudit[k]) = 1
      BY <2>3
    <3> QED
      BY <2>1, <2>3, <3>1
  <2> QED
    BY <2>1, <2>2, <2>3
<1> QED
  BY <1>1 DEF AiInv, AiIsGoverned, CallsGoverned, allowedBetween

\* What every step does: the policy only gains versions, a request keeps its
\* draft and its outcome.
AiHistory ==
    /\ Len(aiPolicy') \in Nat /\ Len(aiPolicy) \in Nat /\ Len(aiPolicy) <= Len(aiPolicy')
    /\ \A v \in 1 .. Len(aiPolicy) : aiPolicy'[v] = aiPolicy[v]
    /\ \A k \in AiKeys : aiRequest[k] \in AiRows =>
          /\ aiRequest'[k] \in AiRows /\ aiRequest'[k].draft = aiRequest[k].draft
          /\ aiRequest[k].status \in aiEnded => aiRequest'[k].status = aiRequest[k].status

\* What some policy version allowed stays allowed by that version.
LEMMA AllowedStays ==
  ASSUME AiHistory, NEW from \in 1 .. Len(aiPolicy), NEW to \in 1 .. Len(aiPolicy), NEW provider,
         allowedBetween(from, to, provider)
  PROVE  allowedBetween(from, to, provider)' /\ allowedBetween(from, Len(aiPolicy), provider)'
<1>1. PICK v \in from .. to : policyAllows(aiPolicy[v], provider)
  BY DEF allowedBetween
<1>2. v \in 1 .. Len(aiPolicy) /\ aiPolicy'[v] = aiPolicy[v] /\ v \in from .. Len(aiPolicy')
  BY <1>1 DEF AiHistory
<1> QED
  BY <1>1, <1>2 DEF allowedBetween, policyAllows

\* Calls already made stay governed while the policy's history grows.
LEMMA CallsStayGoverned ==
  ASSUME AiInv, AiHistory, UNCHANGED aiCalls PROVE CallsGoverned'
<1> SUFFICES ASSUME NEW call \in aiCalls
             PROVE  /\ call.since \in 1 .. Len(aiPolicy') /\ call.until \in 1 .. Len(aiPolicy')
                    /\ allowedBetween(call.since, call.until, call.draft.provider)'
                    /\ call.draft.context = "clean"
  BY DEF CallsGoverned
<1>1. /\ call.since \in 1 .. Len(aiPolicy) /\ call.until \in 1 .. Len(aiPolicy)
      /\ allowedBetween(call.since, call.until, call.draft.provider) /\ call.draft.context = "clean"
  BY DEF AiInv, CallsGoverned
<1>2. allowedBetween(call.since, call.until, call.draft.provider)'
  BY <1>1, AllowedStays
<1> QED
  BY <1>1, <1>2 DEF AiHistory

\* A worker that does not move keeps what it knows of its request.
LEMMA WorkerStaysGoverned ==
  ASSUME AiInv, AiHistory, NEW w \in AiWorkers, aiWorker'[w] = aiWorker[w],
         aiWorker[w].at = "finished" => aiAudit'[aiWorker[w].key] = aiAudit[aiWorker[w].key]
  PROVE  (aiWorker[w] = NoAiWork \/ WorkGoverned(w) \/ ReportDue(w))'
<1>1. CASE aiWorker[w] = NoAiWork
  BY <1>1
<1>2. CASE WorkGoverned(w)
  <2>1. aiWorker[w].key \in AiKeys /\ aiWorker[w].since \in 1 .. Len(aiPolicy)
    BY <1>2 DEF WorkGoverned, AiWork
  <2>2. aiRequest'[aiWorker[w].key] \in AiRows /\ draftOf(w)' = draftOf(w)
    BY <1>2, <2>1 DEF WorkGoverned, AiHistory, draftOf
  <2>3. aiWorker[w].at \in {"allowed", "built"} => allowedBetween(aiWorker[w].since, Len(aiPolicy), draftOf(w).provider)'
    <3> SUFFICES ASSUME aiWorker[w].at \in {"allowed", "built"}
                 PROVE  allowedBetween(aiWorker[w].since, Len(aiPolicy), draftOf(w).provider)'
      OBVIOUS
    <3>1. allowedBetween(aiWorker[w].since, Len(aiPolicy), draftOf(w).provider)
      BY <1>2 DEF WorkGoverned
    <3>2. PICK v \in aiWorker[w].since .. Len(aiPolicy) : policyAllows(aiPolicy[v], draftOf(w).provider)
      BY <3>1 DEF allowedBetween
    <3>3. v \in aiWorker[w].since .. Len(aiPolicy') /\ aiPolicy'[v] = aiPolicy[v]
      BY <2>1 DEF AiHistory
    <3> QED
      BY <2>2, <3>2, <3>3 DEF allowedBetween, policyAllows
  <2> QED
    BY <1>2, <2>1, <2>2, <2>3 DEF WorkGoverned, AiHistory
<1>3. CASE ReportDue(w)
  BY <1>3 DEF ReportDue, AiHistory, AiReports
<1> QED
  BY <1>1, <1>2, <1>3 DEF AiInv, WorkersGoverned

\* Rows that keep their status keep their audit and decisions.
LEMMA OutcomesStay ==
  ASSUME AiInv, AiHistory, UNCHANGED <<aiAudit, aiDecisions>>
  PROVE  OutcomesAudited'
<1> SUFFICES ASSUME NEW k \in AiKeys
             PROVE  /\ aiAudit[k] = <<>> \/ (aiAudit[k] = <<aiRequest'[k].status>> /\ aiRequest'[k].status \in aiEnded)
                    /\ aiDecisions[k] # {} => aiRequest'[k].status = "SUCCEEDED"
  BY DEF OutcomesAudited
<1>1. aiRequest[k].status \in aiEnded => aiRequest'[k].status = aiRequest[k].status
  BY DEF AiHistory, AiInv, AiType, NoAiRow, aiEnded
<1> QED
  BY <1>1 DEF AiInv, OutcomesAudited, aiEnded

\* The policy and the submissions.
LEMMA PolicyAndSubmission ==
  ASSUME AiInv,
         \/ \E policy \in Policies : UpdateAISOCPolicy(policy)
         \/ \E k \in AiKeys, provider \in Providers, ctx \in AiContexts : Submit(k, provider, ctx)
         \/ \E k \in AiKeys : CreateAISOCRequest(k)
  PROVE  AiInv'
<1>1. UNCHANGED <<aiWorker, aiCalls, aiAudit, aiDecisions>>
  BY DEF UpdateAISOCPolicy, Submit, CreateAISOCRequest
<1>2. AiType' /\ AiHistory
  <2>1. CASE \E policy \in Policies : UpdateAISOCPolicy(policy)
    <3>1. PICK policy \in Policies : aiPolicy' = Append(aiPolicy, policy)
      BY <2>1 DEF UpdateAISOCPolicy
    <3>2. aiPolicy \in Seq(Policies)
      BY DEF AiInv, AiType
    <3>3. aiPolicy' \in Seq(Policies) /\ Len(aiPolicy') = Len(aiPolicy) + 1 /\ Len(aiPolicy) \in Nat
          /\ \A v \in 1 .. Len(aiPolicy) : aiPolicy'[v] = aiPolicy[v]
      BY <3>1, <3>2
    <3>4. UNCHANGED <<aiSubmit, aiRequest>>
      BY <2>1 DEF UpdateAISOCPolicy
    <3> QED
      BY <1>1, <3>3, <3>4 DEF AiInv, AiType, AiHistory
  <2>2. CASE \E k \in AiKeys, provider \in Providers, ctx \in AiContexts : Submit(k, provider, ctx)
    <3>1. PICK k \in AiKeys, draft \in AiDrafts : aiSubmit' = [aiSubmit EXCEPT ![k] = {draft}] /\ UNCHANGED <<aiPolicy, aiRequest>>
      BY <2>2 DEF Submit, AiDrafts
    <3>2. aiSubmit' \in [AiKeys -> SUBSET AiDrafts]
      BY <3>1 DEF AiInv, AiType
    <3> QED
      BY <1>1, <3>1, <3>2 DEF AiInv, AiType, AiHistory
  <2>3. CASE \E k \in AiKeys : CreateAISOCRequest(k)
    <3>1. PICK k \in AiKeys : CreateAISOCRequest(k)
      BY <2>3
    <3>2. PICK draft \in aiSubmit[k] : aiRequest' = IF aiRequest[k] # NoAiRow THEN aiRequest
              ELSE [aiRequest EXCEPT ![k] = [status |-> "QUEUED", draft |-> draft, owner |-> {}, leased |-> FALSE, attempt |-> 0]]
      BY <3>1 DEF CreateAISOCRequest
    <3> DEFINE row == [status |-> "QUEUED", draft |-> draft, owner |-> {}, leased |-> FALSE, attempt |-> 0]
    <3>3. draft \in AiDrafts
      BY DEF AiInv, AiType
    <3>4. row \in AiRows
      BY <3>3 DEF AiRows
    <3>5. UNCHANGED aiPolicy /\ aiSubmit' = [aiSubmit EXCEPT ![k] = {}]
      BY <3>1 DEF CreateAISOCRequest
    <3> HIDE DEF row
    <3>6. aiRequest' = aiRequest \/ (aiRequest[k] = NoAiRow /\ aiRequest' = [aiRequest EXCEPT ![k] = row])
      BY <3>2 DEF row
    <3>7. DOMAIN aiRequest' = AiKeys /\ aiRequest' = [j \in AiKeys |-> aiRequest'[j]]
          /\ \A j \in AiKeys : aiRequest'[j] = aiRequest[j] \/ (aiRequest[j] = NoAiRow /\ aiRequest'[j] = row)
      BY <3>6 DEF AiInv, AiType
    <3>8. NoAiRow \notin AiRows
      BY DEF NoAiRow, AiRows, aiEnded
    <3>9. AiHistory
      BY <3>5, <3>7, <3>8 DEF AiHistory, AiInv, AiType
    <3> QED
      BY <1>1, <3>4, <3>5, <3>7, <3>9 DEF AiInv, AiType
  <2> QED
    BY <2>1, <2>2, <2>3
<1>3. CallsGoverned'
  BY <1>1, <1>2, CallsStayGoverned
<1>4. WorkersGoverned'
  <2> SUFFICES ASSUME NEW w \in AiWorkers PROVE (aiWorker[w] = NoAiWork \/ WorkGoverned(w) \/ ReportDue(w))'
    BY DEF WorkersGoverned
  <2> QED
    BY <1>1, <1>2, WorkerStaysGoverned
<1>5. OutcomesAudited'
  BY <1>1, <1>2, OutcomesStay
<1>6. OneReport'
  BY <1>1 DEF AiInv, OneReport
<1> QED
  BY <1>2, <1>3, <1>4, <1>5, <1>6 DEF AiInv

\* A decision is recorded about a request that succeeded
\* (CreateAISOCDecision).
LEMMA DecisionStep ==
  ASSUME AiInv, NEW k \in AiKeys, NEW decision, CreateAISOCDecision(k, decision)
  PROVE  AiInv'
<1>1. /\ UNCHANGED <<aiPolicy, aiSubmit, aiRequest, aiWorker, aiCalls, aiAudit>>
      /\ aiRequest[k].status = "SUCCEEDED"
      /\ aiDecisions' = [aiDecisions EXCEPT ![k] = {decision}]
  BY DEF CreateAISOCDecision
<1>2. /\ aiDecisions' = [j \in AiKeys |-> aiDecisions'[j]]
      /\ \A j \in AiKeys : j # k => aiDecisions'[j] = aiDecisions[j]
  BY <1>1 DEF AiInv, AiType
<1>3. AiType' /\ AiHistory
  BY <1>1, <1>2 DEF AiInv, AiType, AiHistory
<1>4. OutcomesAudited'
  BY <1>1, <1>2 DEF AiInv, OutcomesAudited
<1>5. CallsGoverned' /\ OneReport'
  BY <1>1, <1>3, CallsStayGoverned DEF AiInv, OneReport
<1>6. WorkersGoverned'
  <2> SUFFICES ASSUME NEW w \in AiWorkers PROVE (aiWorker[w] = NoAiWork \/ WorkGoverned(w) \/ ReportDue(w))'
    BY DEF WorkersGoverned
  <2> QED
    BY <1>1, <1>3, WorkerStaysGoverned
<1> QED
  BY <1>3, <1>4, <1>5, <1>6 DEF AiInv

\* A step of one worker that writes neither audit nor decisions.
LEMMA OneWorkerMoves ==
  ASSUME AiInv, AiType', AiHistory, CallsGoverned', NEW w \in AiWorkers, NEW new,
         aiWorker' = [aiWorker EXCEPT ![w] = new], UNCHANGED <<aiAudit, aiDecisions>>,
         (aiWorker[w] = NoAiWork \/ WorkGoverned(w) \/ ReportDue(w))',
         new.at # "finished" \/ \A x \in AiWorkers : x # w /\ aiWorker[x].at = "finished" => aiWorker[x].key # new.key
  PROVE  AiInv'
<1>1. aiWorker'[w] = new /\ \A x \in AiWorkers : x # w => aiWorker'[x] = aiWorker[x]
  BY DEF AiInv, AiType
<1>2. ASSUME NEW x \in AiWorkers PROVE (aiWorker[x] = NoAiWork \/ WorkGoverned(x) \/ ReportDue(x))'
  BY <1>1, WorkerStaysGoverned
<1>3. WorkersGoverned'
  BY <1>2 DEF WorkersGoverned
<1>4. OneReport'
  BY <1>1 DEF AiInv, OneReport
<1> QED
  BY <1>3, <1>4, OutcomesStay DEF AiInv

\* A worker that lets go of its request changes no record of it.
LEMMA WorkerIdles ==
  ASSUME AiInv, NEW w \in AiWorkers, aiWorker' = [aiWorker EXCEPT ![w] = NoAiWork],
         UNCHANGED <<aiPolicy, aiSubmit, aiRequest, aiCalls, aiAudit, aiDecisions>>
  PROVE  AiInv'
<1>1. aiWorker'[w] = NoAiWork /\ NoAiWork.at = "idle" /\ aiWorker' = [x \in AiWorkers |-> aiWorker'[x]]
  BY DEF AiInv, AiType, NoAiWork
<1>2. AiType' /\ AiHistory
  BY <1>1 DEF AiInv, AiType, AiHistory
<1>3. CallsGoverned'
  BY <1>2, CallsStayGoverned
<1> QED
  BY <1>1, <1>2, <1>3, OneWorkerMoves

\* A claim ties the worker to the policy version of that moment
\* (ClaimAISOCRequest).
LEMMA ClaimStep ==
  ASSUME AiInv, NEW w \in AiWorkers, NEW k \in AiKeys, ClaimAISOCRequest(w, k)
  PROVE  AiInv'
<1> DEFINE row == [status |-> "RUNNING", draft |-> aiRequest[k].draft, owner |-> {w}, leased |-> TRUE, attempt |-> aiRequest[k].attempt + 1]
           new == [at |-> "claimed", key |-> k, since |-> Len(aiPolicy)]
<1>1. aiRequest[k] \in AiRows /\ aiRequest[k].status \notin aiEnded
  BY DEF ClaimAISOCRequest, claimable, AiInv, AiType, NoAiRow, aiEnded
<1>2. row \in AiRows /\ row.draft = aiRequest[k].draft
  BY <1>1 DEF AiRows
<1>3. Len(aiPolicy) \in Nat \ {0}
  BY DEF AiInv, AiType
<1>4. new \in AiWork /\ new.since = Len(aiPolicy) /\ new.key = k /\ new.at = "claimed"
  BY <1>3 DEF AiWork
<1>5. /\ aiRequest' = [aiRequest EXCEPT ![k] = row] /\ aiWorker' = [aiWorker EXCEPT ![w] = new]
      /\ UNCHANGED <<aiPolicy, aiSubmit, aiCalls, aiAudit, aiDecisions>>
  BY DEF ClaimAISOCRequest
<1> HIDE DEF row, new
<1>6. /\ DOMAIN aiRequest' = AiKeys /\ aiRequest' = [j \in AiKeys |-> aiRequest'[j]]
      /\ aiRequest'[k] = row /\ \A j \in AiKeys : j # k => aiRequest'[j] = aiRequest[j]
      /\ aiWorker' = [x \in AiWorkers |-> aiWorker'[x]] /\ aiWorker'[w] = new
  BY <1>5 DEF AiInv, AiType
<1>7. AiType'
  BY <1>2, <1>5, <1>6 DEF AiInv, AiType
<1>8. AiHistory
  BY <1>1, <1>2, <1>3, <1>5, <1>6 DEF AiHistory
<1>9. CallsGoverned'
  BY <1>5, <1>8, CallsStayGoverned
<1>10. WorkGoverned(w)'
  BY <1>2, <1>3, <1>4, <1>5, <1>6 DEF WorkGoverned
<1> QED
  BY <1>4, <1>5, <1>7, <1>8, <1>9, <1>10, OneWorkerMoves

\* The steps between claim and outcome: the worker only moves on.
LEMMA WorkSteps ==
  ASSUME AiInv, NEW w \in AiWorkers, GetAISOCPolicy(w) \/ BuildContext(w) \/ Generate(w)
  PROVE  AiInv'
<1>1. aiWorker[w].at \in {"claimed", "allowed", "built"}
  BY DEF GetAISOCPolicy, BuildContext, Generate
<1>2. WorkGoverned(w)
  BY <1>1 DEF AiInv, WorkersGoverned, ReportDue, AiReports, NoAiWork
<1>3. Len(aiPolicy) \in Nat \ {0}
  BY DEF AiInv, AiType
<1>4. draftOf(w) \in AiDrafts /\ aiWorker[w].key \in AiKeys /\ aiWorker[w].since \in 1 .. Len(aiPolicy) /\ aiWorker[w].since \in Nat
  BY <1>2 DEF WorkGoverned, draftOf, AiRows, AiWork
<1>5. PICK at \in {"allowed", "built"} \cup aiEnded :
         /\ aiGoes(w, at)
         /\ at \in {"allowed", "built"} => allowedBetween(aiWorker[w].since, Len(aiPolicy), draftOf(w).provider)
         /\ at = "built" => draftOf(w).context = "clean"
  <2>1. CASE GetAISOCPolicy(w)
    <3>1. stillAllowed(w) => allowedBetween(aiWorker[w].since, Len(aiPolicy), draftOf(w).provider)
      BY <1>3, <1>4 DEF stillAllowed, policyNow, allowedBetween
    <3> QED
      BY <2>1, <3>1 DEF GetAISOCPolicy, aiEnded
  <2>2. CASE BuildContext(w)
    <3>1. draftOf(w).context \in {"clean", "injected", "missing"}
      BY <1>4, AiRequestsAssumption DEF AiDrafts
    <3>2. allowedBetween(aiWorker[w].since, Len(aiPolicy), draftOf(w).provider)
      BY <1>2, <2>2 DEF BuildContext, WorkGoverned
    <3>3. CASE draftOf(w).context = "clean"
      BY <2>2, <3>2, <3>3 DEF BuildContext
    <3>4. CASE draftOf(w).context = "injected"
      BY <2>2, <3>4 DEF BuildContext, aiEnded
    <3>5. CASE draftOf(w).context = "missing"
      BY <2>2, <3>5 DEF BuildContext, aiEnded
    <3> QED
      BY <3>1, <3>3, <3>4, <3>5
  <2>3. CASE Generate(w)
    BY <2>3 DEF Generate, aiEnded
  <2> QED
    BY <2>1, <2>2, <2>3
<1> DEFINE new == [at |-> at, key |-> aiWorker[w].key, since |-> aiWorker[w].since]
<1>6. new \in AiWork /\ new.at = at /\ new.key = aiWorker[w].key /\ new.since = aiWorker[w].since /\ new.at # "finished"
  BY <1>4 DEF AiWork, aiEnded
<1>7. aiWorker' = [aiWorker EXCEPT ![w] = new] /\ UNCHANGED <<aiPolicy, aiSubmit, aiRequest, aiAudit, aiDecisions>>
  BY <1>5 DEF aiGoes, GetAISOCPolicy, BuildContext, Generate
<1> HIDE DEF new
<1>8. aiWorker'[w] = new /\ aiWorker' = [x \in AiWorkers |-> aiWorker'[x]]
  BY <1>7 DEF AiInv, AiType
<1>9. AiType' /\ AiHistory
  BY <1>7, <1>8 DEF AiInv, AiType, AiHistory
<1>10. draftOf(w)' = draftOf(w)
  BY <1>6, <1>7, <1>8 DEF draftOf
<1>11. WorkGoverned(w)'
  BY <1>2, <1>4, <1>5, <1>6, <1>7, <1>8, <1>10 DEF WorkGoverned, allowedBetween
<1>12. CallsGoverned'
  <2>1. CASE UNCHANGED aiCalls
    BY <2>1, <1>9, CallsStayGoverned
  <2>2. CASE Generate(w)
    <3> DEFINE call == [draft |-> draftOf(w), since |-> aiWorker[w].since, until |-> Len(aiPolicy)]
    <3>1. /\ call.since \in 1 .. Len(aiPolicy) /\ call.until \in 1 .. Len(aiPolicy)
          /\ allowedBetween(call.since, call.until, call.draft.provider) /\ call.draft.context = "clean"
      BY <1>2, <1>3, <1>4, <2>2 DEF Generate, WorkGoverned
    <3>2. aiCalls' = aiCalls \cup {call}
      BY <2>2 DEF Generate
    <3> HIDE DEF call
    <3> QED
      BY <1>7, <3>1, <3>2 DEF AiInv, CallsGoverned, allowedBetween
  <2> QED
    BY <2>1, <2>2 DEF GetAISOCPolicy, BuildContext
<1> QED
  BY <1>6, <1>7, <1>9, <1>11, <1>12, OneWorkerMoves

\* Only the owner of the lease writes an outcome (CompleteAISOCRequest,
\* FinishAISOCRequestFailure).
LEMMA FinishStep ==
  ASSUME AiInv, NEW w \in AiWorkers, CompleteAISOCRequest(w) \/ FinishAISOCRequestFailure(w)
  PROVE  AiInv'
<1> DEFINE k == aiWorker[w].key
           row == [status |-> aiWorker[w].at, draft |-> aiRequest[k].draft, owner |-> {}, leased |-> FALSE, attempt |-> aiRequest[k].attempt]
           new == [at |-> "finished", key |-> k, outcome |-> aiWorker[w].at]
<1>1. aiWorker[w].at \in aiEnded
  BY DEF CompleteAISOCRequest, FinishAISOCRequestFailure, finish, aiEnded
<1>2. WorkGoverned(w)
  BY <1>1 DEF AiInv, WorkersGoverned, ReportDue, AiReports, NoAiWork, aiEnded
<1>3. UNCHANGED <<aiPolicy, aiSubmit, aiCalls, aiAudit, aiDecisions>>
  BY DEF CompleteAISOCRequest, FinishAISOCRequestFailure, finish
<1>4. CASE ~holdsRequest(w, k)
  <2>1. aiWorker' = [aiWorker EXCEPT ![w] = NoAiWork] /\ UNCHANGED aiRequest
    BY <1>4 DEF CompleteAISOCRequest, FinishAISOCRequestFailure, finish
  <2> QED
    BY <1>3, <2>1, WorkerIdles
<1>5. CASE holdsRequest(w, k)
  <2>1. aiRequest' = [aiRequest EXCEPT ![k] = row] /\ aiWorker' = [aiWorker EXCEPT ![w] = new]
    BY <1>5 DEF CompleteAISOCRequest, FinishAISOCRequestFailure, finish
  <2>2. k \in AiKeys /\ aiRequest[k] \in AiRows /\ aiRequest[k].status = "RUNNING"
    BY <1>2, <1>5 DEF WorkGoverned, AiWork, holdsRequest
  <2>3. row \in AiRows /\ row.draft = aiRequest[k].draft /\ row.status = aiWorker[w].at
    BY <1>1, <2>2 DEF AiRows
  <2>4. new \in AiReports /\ new.key = k /\ new.outcome = aiWorker[w].at
    BY <1>1, <2>2 DEF AiReports
  <2>5. aiAudit[k] = <<>>
    BY <2>2 DEF AiInv, OutcomesAudited, aiEnded
  <2>6. \A x \in AiWorkers : x # w /\ aiWorker[x].at = "finished" => aiWorker[x].key # k
    BY <2>2 DEF AiInv, WorkersGoverned, WorkGoverned, ReportDue, AiReports, AiWork, NoAiWork, aiEnded
  <2> HIDE DEF k, row, new
  <2>7. /\ DOMAIN aiRequest' = AiKeys /\ aiRequest' = [j \in AiKeys |-> aiRequest'[j]]
        /\ aiRequest'[k] = row /\ \A j \in AiKeys : j # k => aiRequest'[j] = aiRequest[j]
        /\ aiWorker' = [x \in AiWorkers |-> aiWorker'[x]] /\ aiWorker'[w] = new
    BY <2>1, <2>2 DEF AiInv, AiType
  <2>8. AiType'
    BY <1>3, <2>3, <2>7 DEF AiInv, AiType
  <2>9. AiHistory
    BY <1>3, <2>2, <2>3, <2>7 DEF AiHistory, AiInv, AiType, aiEnded
  <2>10. CallsGoverned'
    BY <1>3, <2>9, CallsStayGoverned
  <2>11. ReportDue(w)'
    BY <1>3, <2>3, <2>4, <2>5, <2>7 DEF ReportDue
  <2> QED
    BY <1>3, <2>1, <2>4, <2>6, <2>8, <2>9, <2>10, <2>11, OneWorkerMoves
<1> QED
  BY <1>4, <1>5

\* The outcome that was written is the one that is audited, once
\* (Worker.ProcessOne).
LEMMA AuditStep ==
  ASSUME AiInv, NEW w \in AiWorkers, auditOutcome(w)
  PROVE  AiInv'
<1> DEFINE k == aiWorker[w].key
<1>1. /\ aiWorker[w].at = "finished" /\ aiAudit' = [aiAudit EXCEPT ![k] = Append(@, aiWorker[w].outcome)]
      /\ aiWorker' = [aiWorker EXCEPT ![w] = NoAiWork]
      /\ UNCHANGED <<aiPolicy, aiSubmit, aiRequest, aiCalls, aiDecisions>>
  BY DEF auditOutcome
<1>2. ReportDue(w)
  BY <1>1 DEF AiInv, WorkersGoverned, WorkGoverned, AiWork, NoAiWork, aiEnded
<1>3. k \in AiKeys /\ aiWorker[w].outcome \in aiEnded /\ aiRequest[k].status = aiWorker[w].outcome /\ aiAudit[k] = <<>>
  BY <1>2 DEF ReportDue, AiReports
<1>4. /\ aiAudit'[k] = <<aiRequest[k].status>> /\ \A j \in AiKeys : j # k => aiAudit'[j] = aiAudit[j]
      /\ aiAudit' = [j \in AiKeys |-> aiAudit'[j]]
  <2>1. Append(<<>>, aiWorker[w].outcome) = <<aiWorker[w].outcome>>
    OBVIOUS
  <2> QED
    BY <1>1, <1>3, <2>1 DEF AiInv, AiType
<1>5. /\ aiWorker'[w] = NoAiWork /\ NoAiWork.at = "idle" /\ aiWorker' = [x \in AiWorkers |-> aiWorker'[x]]
      /\ \A x \in AiWorkers : x # w => aiWorker'[x] = aiWorker[x]
  BY <1>1 DEF AiInv, AiType, NoAiWork
<1>6. AiType' /\ AiHistory
  BY <1>1, <1>4, <1>5 DEF AiInv, AiType, AiHistory
<1>7. CallsGoverned' /\ OneReport'
  BY <1>1, <1>5, <1>6, CallsStayGoverned DEF AiInv, OneReport
<1>8. OutcomesAudited'
  BY <1>1, <1>3, <1>4 DEF AiInv, OutcomesAudited
<1>9. WorkersGoverned'
  <2> SUFFICES ASSUME NEW x \in AiWorkers PROVE (aiWorker[x] = NoAiWork \/ WorkGoverned(x) \/ ReportDue(x))'
    BY DEF WorkersGoverned
  <2>1. CASE x = w
    BY <2>1, <1>5
  <2>2. CASE x # w
    <3>1. aiWorker[x].at = "finished" => aiWorker[x].key # k /\ aiWorker[x].key \in AiKeys
      BY <1>1, <2>2 DEF AiInv, OneReport, WorkersGoverned, WorkGoverned, ReportDue, AiReports, AiWork, NoAiWork, aiEnded
    <3> QED
      BY <2>2, <3>1, <1>4, <1>5, <1>6, WorkerStaysGoverned
  <2> QED
    BY <2>1, <2>2
<1> QED
  BY <1>6, <1>7, <1>8, <1>9 DEF AiInv

\* A lease that ends leaves the request's outcome open.
LEMMA LeaseStep ==
  ASSUME AiInv, NEW k \in AiKeys, aiLeaseEnds(k)
  PROVE  AiInv'
<1> DEFINE row == [aiRequest[k] EXCEPT !.leased = FALSE]
<1>1. /\ aiRequest[k].status = "RUNNING" /\ aiRequest' = [aiRequest EXCEPT ![k].leased = FALSE]
      /\ UNCHANGED <<aiPolicy, aiSubmit, aiWorker, aiCalls, aiAudit, aiDecisions>>
  BY DEF aiLeaseEnds
<1>2. aiRequest[k] \in AiRows
  BY <1>1 DEF AiInv, AiType, NoAiRow
<1>3. row \in AiRows /\ row.draft = aiRequest[k].draft /\ row.status = aiRequest[k].status
  BY <1>2 DEF AiRows
<1>4. /\ DOMAIN aiRequest' = AiKeys /\ aiRequest' = [j \in AiKeys |-> aiRequest'[j]]
      /\ aiRequest'[k] = row /\ \A j \in AiKeys : j # k => aiRequest'[j] = aiRequest[j]
  BY <1>1 DEF AiInv, AiType
<1> HIDE DEF row
<1>5. AiType' /\ AiHistory
  <2>1. AiType'
    BY <1>1, <1>3, <1>4 DEF AiInv, AiType
  <2>2. Len(aiPolicy) \in Nat /\ UNCHANGED aiPolicy
    BY <1>1 DEF AiInv, AiType
  <2>3. ASSUME NEW j \in AiKeys, aiRequest[j] \in AiRows
        PROVE  /\ aiRequest'[j] \in AiRows /\ aiRequest'[j].draft = aiRequest[j].draft
               /\ aiRequest'[j].status = aiRequest[j].status
    BY <1>3, <1>4, <2>3
  <2>4. AiHistory
    BY <2>2, <2>3 DEF AiHistory
  <2> QED
    BY <2>1, <2>4
<1>6. CallsGoverned' /\ OneReport' /\ OutcomesAudited'
  BY <1>1, <1>5, CallsStayGoverned, OutcomesStay DEF AiInv, OneReport
<1>7. WorkersGoverned'
  <2> SUFFICES ASSUME NEW w \in AiWorkers PROVE (aiWorker[w] = NoAiWork \/ WorkGoverned(w) \/ ReportDue(w))'
    BY DEF WorkersGoverned
  <2> QED
    BY <1>1, <1>5, WorkerStaysGoverned
<1> QED
  BY <1>5, <1>6, <1>7 DEF AiInv

\* Whatever the policy and the leases do meanwhile (internal/aisoc), a context
\* goes to a gateway only if it is clean and the policy allowed the provider
\* at some moment since the request was claimed; a request has one outcome and
\* that one is audited at most once; and only a recommendation is decided on.
THEOREM AiStaysGoverned == AiSpec => []AiIsGoverned
<1>1. AiInit => AiInv
  BY AiInvInit
<1>2. AiInv /\ [AiNext]_aiVars => AiInv'
  <2> SUFFICES ASSUME AiInv, [AiNext]_aiVars PROVE AiInv'
    OBVIOUS
  <2>1. CASE \E w \in AiWorkers : ProcessOne(w) \/ aiWorkerDies(w)
    BY <2>1, ClaimStep, WorkSteps, FinishStep, AuditStep, WorkerIdles DEF ProcessOne, aiWorkerDies
  <2>2. CASE aiLeaseStep
    BY <2>2, LeaseStep DEF aiLeaseStep
  <2>3. CASE UNCHANGED aiVars
    BY <2>3 DEF aiVars, AiInv, AiType, CallsGoverned, WorkersGoverned, WorkGoverned, ReportDue, OneReport, OutcomesAudited,
       allowedBetween, draftOf, policyAllows
  <2> QED
    BY <2>1, <2>2, <2>3, PolicyAndSubmission, DecisionStep DEF AiNext
<1>3. AiInv => AiIsGoverned
  BY AiGoverned
<1> QED
  BY <1>1, <1>2, <1>3, PTL DEF AiSpec

-----------------------------------------------------------------------------
(* Correlations.  The evaluation finds what the window has: for the ordered  *)
(* kind, the one pass is never behind an ordered choice of events (Ahead),   *)
(* so it ends where there is one (PassFinds), and what it takes is one       *)
(* (PassIsReal).  CorrelationInv adds what the store keeps of the events     *)
(* that arrived: a row is missing only two windows later (StoredOf).         *)

\* Every set of numbers that is not empty has a least one: the form in which
\* the lemmas below argue by induction.
LEMMA LeastNumber ==
  ASSUME NEW T, T \subseteq Nat, T # {}
  PROVE  \E n \in T : \A m \in T : n <= m
<1> DEFINE R == OpToRel(<, Nat)
<1>1. \E x \in T : \A y \in T : ~(<<y, x>> \in R)
  <2>1. IsWellFoundedOn(R, Nat)
    BY NatLessThanWellFounded
  <2> HIDE DEF R
  <2> QED
    BY <2>1, WFMin
<1>2. \A x, y \in Nat : x < y => <<x, y>> \in R
  BY DEF OpToRel
<1> HIDE DEF R
<1>3. PICK x \in T : \A y \in T : ~(<<y, x>> \in R)
  BY <1>1
<1>4. \A y \in T : x <= y
  <2> TAKE y \in T
  <2>1. x \in Nat /\ y \in Nat /\ ~(<<y, x>> \in R)
    BY <1>3
  <2>2. ~(y < x)
    BY <2>1, <1>2
  <2> QED
    BY <2>1, <2>2
<1> QED
  BY <1>4

RuleCount == Len(CorrelatedRules)
Earlier(a, b) == a.time < b.time \/ (a.time = b.time /\ a.id < b.id)

\* The rows that the events of E make, and those of the correlation's rules.
RowsOf(E) == {row \in [rule : Nat, event : E] : row.rule \in row.event.rules}
Filtered(records) == {r \in records : r.rule \in Range(CorrelatedRules)}

\* Rows are totally ordered, and first of all by their events.
LEMMA RowOrder ==
  ASSUME NEW E \in SUBSET CorrelationEvents
  PROVE  /\ \A a, b \in RowsOf(E) : /\ before(a, b) => ~before(b, a) /\ a # b
                                    /\ a = b \/ before(a, b) \/ before(b, a)
                                    /\ before(a, b) /\ a.event # b.event => Earlier(a.event, b.event)
                                    /\ Earlier(a.event, b.event) => before(a, b) /\ a.event # b.event
         /\ \A a, b, c \in RowsOf(E) : before(a, b) /\ before(b, c) => before(a, c)
         /\ \A a \in RowsOf(E) : a.event \in E /\ a.rule \in Nat /\ a.rule \in a.event.rules
<1>1. \A a \in RowsOf(E) : /\ a.event \in E /\ a.rule \in Nat /\ a.rule \in a.event.rules
                           /\ a.event \in CorrelationEvents /\ a.event.time \in Nat /\ a.event.id \in Nat
                           /\ a = [rule |-> a.rule, event |-> a.event]
  BY CorrelationEventsAssumption DEF RowsOf
<1>2. ASSUME NEW a \in RowsOf(E), NEW b \in RowsOf(E)
      PROVE  /\ before(a, b) => ~before(b, a) /\ a # b
             /\ a = b \/ before(a, b) \/ before(b, a)
             /\ before(a, b) /\ a.event # b.event => Earlier(a.event, b.event)
             /\ Earlier(a.event, b.event) => before(a, b) /\ a.event # b.event
  <2>1. a.event.id = b.event.id => a.event = b.event
    BY <1>1, CorrelationEventsAssumption
  <2>2. a.event = b.event /\ a.rule = b.rule => a = b
    BY <1>1
  <2> QED
    BY <1>1, <2>1, <2>2 DEF before, Earlier
<1>3. ASSUME NEW a \in RowsOf(E), NEW b \in RowsOf(E), NEW c \in RowsOf(E), before(a, b), before(b, c)
      PROVE  before(a, c)
  BY <1>1, <1>3 DEF before
<1> QED
  BY <1>1, <1>2, <1>3

\* Rows of one rule have a first one.
LEMMA FirstRow ==
  ASSUME NEW E \in SUBSET CorrelationEvents, NEW C \in SUBSET RowsOf(E), C # {}, NEW n, \A r \in C : r.rule = n
  PROVE  \E r \in C : \A s \in C \ {r} : before(r, s)
<1>1. \A r \in C : /\ r.event \in CorrelationEvents /\ r.event.time \in Nat /\ r.event.id \in Nat
                   /\ r = [rule |-> n, event |-> r.event]
  BY CorrelationEventsAssumption DEF RowsOf
<1> DEFINE T == {r.event.time : r \in C}
<1>2. T \subseteq Nat /\ T # {}
  BY <1>1
<1>3. PICK t \in T : \A m \in T : t <= m
  <2> HIDE DEF T
  <2> QED
    BY <1>2, LeastNumber
<1> DEFINE U == {r.event.id : r \in {s \in C : s.event.time = t}}
<1>4. U \subseteq Nat /\ U # {}
  BY <1>1, <1>3
<1>5. PICK i \in U : \A m \in U : i <= m
  <2> HIDE DEF U
  <2> QED
    BY <1>4, LeastNumber
<1>6. PICK r \in C : r.event.time = t /\ r.event.id = i
  BY <1>5
<1>7. ASSUME NEW s \in C \ {r} PROVE before(r, s)
  <2>1. t <= s.event.time /\ (s.event.time = t => i <= s.event.id)
    BY <1>3, <1>5
  <2>2. s.event.id # i
    <3>1. s.event # r.event
      BY <1>1, <1>7
    <3> QED
      BY <3>1, <1>1, <1>6, CorrelationEventsAssumption
  <2> QED
    BY <2>1, <2>2, <1>1, <1>6 DEF before
<1> QED
  BY <1>7

\* A pass of the ordered kind over the first n rules.
Takes(records, taken, i) ==
    /\ taken[i] \in nextMatch(records, taken, i)
    /\ \A r \in nextMatch(records, taken, i) \ {taken[i]} : before(taken[i], r)
Taking(records, taken, n) ==
    /\ taken \in [1 .. n -> records]
    /\ \A i \in 1 .. n : Takes(records, taken, i)

\* What a pass takes comes in order.
LEMMA TakenInOrder ==
  ASSUME NEW E \in SUBSET CorrelationEvents, NEW records \in SUBSET RowsOf(E), NEW n \in Nat, NEW t,
         Taking(records, t, n)
  PROVE  \A j \in 1 .. n : \A i \in 1 .. j - 1 : before(t[i], t[j]) /\ t[i].event # t[j].event
<1> DEFINE Bad == {j \in 1 .. n : \E i \in 1 .. j - 1 : ~before(t[i], t[j])}
<1>1. \A j \in 1 .. n : t[j] \in RowsOf(E) /\ t[j] \in nextMatch(records, t, j)
  BY DEF Taking, Takes
<1>2. Bad = {}
  <2> SUFFICES ASSUME Bad # {} PROVE FALSE
    OBVIOUS
  <2>1. Bad \subseteq Nat
    OBVIOUS
  <2>2. PICK j \in Bad : \A k \in Bad : j <= k
    <3> HIDE DEF Bad
    <3> QED
      BY <2>1, LeastNumber
  <2>3. PICK i \in 1 .. j - 1 : ~before(t[i], t[j])
    OBVIOUS
  <2>4. j \in 1 .. n /\ j > 1 /\ j - 1 \in 1 .. n /\ i \in 1 .. n
    BY <2>3
  <2>5. before(t[j - 1], t[j])
    BY <1>1, <2>4 DEF nextMatch
  <2>6. i # j - 1
    BY <2>3, <2>5
  <2>7. j - 1 \notin Bad
    BY <2>2, <2>4
  <2>8. before(t[i], t[j - 1])
    BY <2>3, <2>4, <2>6, <2>7
  <2>9. before(t[i], t[j])
    BY <2>4, <2>5, <2>8, <1>1, RowOrder
  <2> QED
    BY <2>3, <2>9
<1>3. \A j \in 1 .. n : \A i \in 1 .. j - 1 : t[i].event # t[j].event
  BY <1>1 DEF nextMatch
<1> QED
  BY <1>2, <1>3

\* Whether a row may be taken depends on what was taken before it only.
LEMMA NextMatchReadsPrefix ==
  ASSUME NEW records, NEW n \in Nat, NEW t, NEW u, \A i \in 1 .. n - 1 : u[i] = t[i]
  PROVE  \A i \in 1 .. n : nextMatch(records, u, i) = nextMatch(records, t, i)
<1> TAKE i \in 1 .. n
<1>1. i > 1 => i - 1 \in 1 .. n - 1 /\ u[i - 1] = t[i - 1]
  OBVIOUS
<1>2. \A k \in 1 .. i - 1 : u[k] = t[k]
  OBVIOUS
<1> QED
  BY <1>1, <1>2 DEF nextMatch

\* The pass, against an ordered choice f of events for the rules: it takes
\* nothing later than f does.
NotLater(a, b) == a = b \/ before(a, b)
chosen(f, i) == [rule |-> CorrelatedRules[i], event |-> f[i]]
Choice(E, f) ==
    /\ f \in [1 .. RuleCount -> E]
    /\ \A i \in 1 .. RuleCount : CorrelatedRules[i] \in f[i].rules
    /\ \A j \in 1 .. RuleCount : \A i \in 1 .. j - 1 : Earlier(f[i], f[j])
Ahead(records, f, t, n) ==
    Taking(records, t, n) /\ \A i \in 1 .. n : NotLater(t[i], chosen(f, i))

\* The rules of a correlation are numbers in the order of their list.
LEMMA RuleFacts ==
  /\ RuleCount \in Nat /\ \A i \in 1 .. RuleCount : CorrelatedRules[i] \in Nat
  /\ Range(CorrelatedRules) = {CorrelatedRules[i] : i \in 1 .. RuleCount}
<1>1. CorrelatedRules \in Seq(Nat)
  BY CorrelationEventsAssumption
<1>2. RuleCount \in Nat /\ DOMAIN CorrelatedRules = 1 .. RuleCount
      /\ \A i \in 1 .. RuleCount : CorrelatedRules[i] \in Nat
  BY <1>1 DEF RuleCount
<1> QED
  BY <1>2 DEF Range

\* What is chosen for a rule can be taken when the pass comes to the rule.
LEMMA ChosenIsLeft ==
  ASSUME NEW E \in SUBSET CorrelationEvents, NEW f, Choice(E, f), NEW t,
         NEW n \in 1 .. RuleCount, Ahead(Filtered(RowsOf(E)), f, t, n - 1)
  PROVE  chosen(f, n) \in nextMatch(Filtered(RowsOf(E)), t, n)
<1> DEFINE records == Filtered(RowsOf(E))
           g == chosen(f, n)
<1>0. n \in Nat /\ n - 1 \in Nat /\ RuleCount \in Nat /\ records \in SUBSET RowsOf(E)
  BY RuleFacts DEF Filtered
<1>1. \A i \in 1 .. RuleCount : chosen(f, i) \in records
  BY RuleFacts DEF Choice, chosen, Filtered, RowsOf
<1>2. g \in records /\ g.rule = CorrelatedRules[n] /\ g.event = f[n]
  BY <1>1 DEF chosen
<1>3. \A i \in 1 .. n - 1 : t[i] \in RowsOf(E)
  BY <1>0 DEF Ahead, Taking
<1>4. CASE n = 1
  BY <1>2, <1>4, <1>0 DEF nextMatch
<1>5. CASE n > 1
  <2> DEFINE h == chosen(f, n - 1)
  <2>1. n - 1 \in 1 .. RuleCount /\ n - 1 \in 1 .. n - 1
    BY <1>0, <1>5
  <2>2. h \in RowsOf(E) /\ g \in RowsOf(E) /\ h.event = f[n - 1] /\ Earlier(h.event, g.event)
    BY <2>1, <1>0, <1>1, <1>2 DEF chosen, Choice
  <2> HIDE DEF g, h
  <2>3. before(h, g) /\ h.event # g.event
    BY <2>2, RowOrder
  <2>4. t[n - 1] \in RowsOf(E) /\ NotLater(t[n - 1], h)
    BY <2>1, <1>3 DEF Ahead, h
  <2>5. before(t[n - 1], g)
    BY <2>2, <2>3, <2>4, RowOrder DEF NotLater
  <2>6. ASSUME NEW k \in 1 .. n - 1 PROVE t[k].event # g.event
    <3>1. t[k] \in RowsOf(E) /\ NotLater(t[k], t[n - 1])
      <4>1. CASE k = n - 1
        BY <4>1, <2>4 DEF NotLater
      <4>2. CASE k # n - 1
        <5>1. n - 1 \in 1 .. n - 1 /\ k \in 1 .. (n - 1) - 1
          BY <4>2, <2>1, <1>0
        <5>2. Taking(records, t, n - 1)
          BY DEF Ahead
        <5> HIDE DEF records
        <5>3. \A j \in 1 .. n - 1 : \A i \in 1 .. j - 1 : before(t[i], t[j])
          BY <5>2, <1>0, TakenInOrder
        <5> QED
          BY <5>1, <5>3, <1>3 DEF NotLater
      <4> QED
        BY <4>1, <4>2
    <3>2. NotLater(t[k], h)
      BY <3>1, <2>2, <2>4, RowOrder DEF NotLater
    <3>3. ASSUME t[k].event = g.event PROVE FALSE
      <4>1. Earlier(h.event, t[k].event)
        BY <3>3, <2>2
      <4>2. before(h, t[k])
        BY <4>1, <3>1, <2>2, RowOrder
      <4> QED
        BY <4>2, <3>1, <3>2, <2>2, RowOrder DEF NotLater
    <3> QED
      BY <3>3
  <2> QED
    BY <1>2, <2>5, <2>6 DEF nextMatch, g
<1> QED
  BY <1>4, <1>5, <1>0

\* So the pass goes on for as long as there is a choice.
LEMMA PassGoesOn ==
  ASSUME NEW E \in SUBSET CorrelationEvents, NEW f, Choice(E, f), NEW t,
         NEW n \in 1 .. RuleCount, Ahead(Filtered(RowsOf(E)), f, t, n - 1)
  PROVE  \E u : Ahead(Filtered(RowsOf(E)), f, u, n)
<1> DEFINE records == Filtered(RowsOf(E))
           C == nextMatch(records, t, n)
<1>1. chosen(f, n) \in C
  BY ChosenIsLeft
<1>2. C \in SUBSET RowsOf(E) /\ C \in SUBSET records /\ \A r \in C : r.rule = CorrelatedRules[n]
  BY DEF nextMatch, Filtered
<1>3. PICK r \in C : \A s \in C \ {r} : before(r, s)
  <2> DEFINE rule == CorrelatedRules[n]
  <2>1. C # {} /\ \A s \in C : s.rule = rule
    BY <1>1, <1>2
  <2>2. C \in SUBSET RowsOf(E)
    BY <1>2
  <2> HIDE DEF C, rule
  <2>3. \A D \in SUBSET RowsOf(E) : D # {} /\ (\A s \in D : s.rule = rule) => \E r \in D : \A s \in D \ {r} : before(r, s)
    BY FirstRow
  <2> QED
    BY <2>1, <2>2, <2>3
<1>4. n \in Nat /\ n - 1 \in Nat /\ RuleCount \in Nat
  BY RuleFacts
<1> DEFINE u == [i \in 1 .. n |-> IF i = n THEN r ELSE t[i]]
<1>5. t \in [1 .. n - 1 -> records]
      /\ \A i \in 1 .. n - 1 : Takes(records, t, i) /\ NotLater(t[i], chosen(f, i))
  BY DEF Ahead, Taking
<1>6. \A i \in 1 .. n - 1 : u[i] = t[i] /\ i \in 1 .. n
  BY <1>4
<1>7. u[n] = r /\ n \in 1 .. n
  BY <1>4
<1>8. u \in [1 .. n -> records]
  BY <1>2, <1>3, <1>4, <1>5
<1> HIDE DEF records, u
<1>9. \A i \in 1 .. n : nextMatch(records, u, i) = nextMatch(records, t, i)
  BY <1>4, <1>6, NextMatchReadsPrefix
<1>10. ASSUME NEW i \in 1 .. n PROVE Takes(records, u, i) /\ NotLater(u[i], chosen(f, i))
  <2>1. CASE i = n
    <3>1. Takes(records, u, n)
      BY <1>3, <1>7, <1>9 DEF Takes
    <3>2. NotLater(r, chosen(f, n))
      BY <1>1, <1>3 DEF NotLater
    <3> QED
      BY <2>1, <3>1, <3>2, <1>7
  <2>2. CASE i # n
    <3>1. i \in 1 .. n - 1
      BY <2>2, <1>4
    <3>2. u[i] = t[i] /\ nextMatch(records, u, i) = nextMatch(records, t, i)
          /\ Takes(records, t, i) /\ NotLater(t[i], chosen(f, i))
      BY <3>1, <1>5, <1>6, <1>9
    <3> QED
      BY <3>2 DEF Takes
  <2> QED
    BY <2>1, <2>2
<1>11. Ahead(records, f, u, n)
  BY <1>8, <1>10 DEF Ahead, Taking
<1> QED
  BY <1>11 DEF records

\* The pass finds a match whenever there is an ordered choice of events.
LEMMA PassFinds ==
  ASSUME NEW E \in SUBSET CorrelationEvents, NEW f, Choice(E, f)
  PROVE  orderedPasses(Filtered(RowsOf(E))) # {}
<1> DEFINE records == Filtered(RowsOf(E))
           Stuck == {n \in 0 .. RuleCount : ~\E t : Ahead(records, f, t, n)}
<1>0. RuleCount \in Nat
  BY RuleFacts
<1>1. Stuck = {}
  <2> SUFFICES ASSUME Stuck # {} PROVE FALSE
    OBVIOUS
  <2>1. Stuck \subseteq Nat
    BY <1>0
  <2>2. PICK n \in Stuck : \A k \in Stuck : n <= k
    <3> HIDE DEF Stuck
    <3> QED
      BY <2>1, LeastNumber
  <2>3. CASE n = 0
    <3> DEFINE t == [i \in 1 .. 0 |-> 0]
    <3>1. Ahead(records, f, t, 0)
      <4>1. 1 .. 0 = {}
        OBVIOUS
      <4>2. t \in [1 .. 0 -> records]
        BY <4>1
      <4> QED
        BY <4>1, <4>2 DEF Ahead, Taking
    <3> QED
      BY <3>1, <2>2, <2>3
  <2>4. CASE n # 0
    <3>1. n \in 1 .. RuleCount /\ n - 1 \in 0 .. RuleCount /\ n - 1 \notin Stuck
      BY <2>2, <2>4, <1>0
    <3>2. PICK t : Ahead(records, f, t, n - 1)
      BY <3>1
    <3>3. \E u : Ahead(records, f, u, n)
      BY <3>1, <3>2, PassGoesOn
    <3> QED
      BY <3>3, <2>2
  <2> QED
    BY <2>3, <2>4
<1>2. PICK t : Ahead(records, f, t, RuleCount)
  BY <1>0, <1>1
<1>3. t \in [1 .. RuleCount -> records] /\ \A i \in 1 .. RuleCount : Takes(records, t, i)
  BY <1>2 DEF Ahead, Taking
<1>4. DOMAIN t = 1 .. RuleCount
  BY <1>3
<1>5. t \in orderedPasses(records)
  BY <1>3, <1>4 DEF orderedPasses, Takes, RuleCount
<1> QED
  BY <1>5

\* What a pass finds is an ordered choice among the events of its rows.
LEMMA PassIsReal ==
  ASSUME NEW E \in SUBSET CorrelationEvents, NEW records \in SUBSET RowsOf(E), NEW t \in orderedPasses(records)
  PROVE  Choice({r.event : r \in records}, [i \in 1 .. RuleCount |-> t[i].event])
<1> DEFINE f == [i \in 1 .. RuleCount |-> t[i].event]
           W == {r.event : r \in records}
<1>0. RuleCount \in Nat
  BY RuleFacts
<1>1. t \in [1 .. RuleCount -> records] /\ DOMAIN t = 1 .. RuleCount
  BY DEF orderedPasses, RuleCount
<1>2. Taking(records, t, RuleCount)
  BY <1>1 DEF Taking, Takes, orderedPasses
<1>3. \A j \in 1 .. RuleCount : \A i \in 1 .. j - 1 : before(t[i], t[j]) /\ t[i].event # t[j].event
  BY <1>0, <1>2, TakenInOrder
<1>4. \A i \in 1 .. RuleCount : t[i] \in RowsOf(E) /\ f[i] = t[i].event /\ t[i].rule = CorrelatedRules[i]
                                /\ t[i] \in records
  BY <1>1, <1>2 DEF Taking, Takes, nextMatch
<1>5. f \in [1 .. RuleCount -> W]
  BY <1>1
<1> HIDE DEF f, W
<1>6. \A i \in 1 .. RuleCount : CorrelatedRules[i] \in f[i].rules
  BY <1>4, RowOrder
<1>7. ASSUME NEW j \in 1 .. RuleCount, NEW i \in 1 .. j - 1 PROVE Earlier(f[i], f[j])
  <2>1. i \in 1 .. RuleCount
    BY <1>0
  <2>2. f[i] = t[i].event /\ f[j] = t[j].event /\ t[i] \in RowsOf(E) /\ t[j] \in RowsOf(E)
    BY <2>1, <1>4
  <2> QED
    BY <2>2, <1>3, RowOrder
<1> QED
  BY <1>5, <1>6, <1>7 DEF Choice, f, W

Kinds == {"event_count", "value_count", "temporal", "temporal_ordered"}
Specs == [type : Kinds, threshold : Nat \ {0, 1}]
Relevant(E) == {e \in E : e.rules \cap Range(CorrelatedRules) # {}}
ValuesOf(E) == {e.value : e \in E} \ {""}
Distinct(E, f) ==
    /\ f \in [1 .. RuleCount -> E]
    /\ \A i \in 1 .. RuleCount : CorrelatedRules[i] \in f[i].rules
    /\ \A j \in 1 .. RuleCount : \A i \in 1 .. j - 1 : f[i] # f[j]

\* Correlated, by the kind of the correlation.
LEMMA CorrelatedMeans ==
  ASSUME NEW E
  PROVE  /\ correlation.type = "event_count" => Correlated(E) = (Cardinality(Relevant(E)) >= correlation.threshold)
         /\ correlation.type = "value_count" => Correlated(E) = (Cardinality(ValuesOf(Relevant(E))) >= correlation.threshold)
         /\ correlation.type = "temporal" => (Correlated(E) <=> \E f : Distinct(E, f))
         /\ correlation.type = "temporal_ordered" => (Correlated(E) <=> \E f : Choice(E, f))
<1>0. RuleCount \in Nat /\ RuleCount = Len(CorrelatedRules)
  BY RuleFacts DEF RuleCount
<1>1. ASSUME correlation.type = "event_count"
      PROVE  Correlated(E) = (Cardinality(Relevant(E)) >= correlation.threshold)
  BY <1>1 DEF Correlated, Relevant
<1>2. ASSUME correlation.type = "value_count"
      PROVE  Correlated(E) = (Cardinality(ValuesOf(Relevant(E))) >= correlation.threshold)
  BY <1>2 DEF Correlated, Relevant, ValuesOf
<1> DEFINE apart(a, b) == IF correlation.type = "temporal" THEN a # b ELSE Earlier(a, b)
<1>3. ASSUME correlation.type \in {"temporal", "temporal_ordered"}
      PROVE  Correlated(E) <=> \E f \in [1 .. RuleCount -> Relevant(E)] :
                 /\ \A i \in DOMAIN f : CorrelatedRules[i] \in f[i].rules
                 /\ \A i, j \in DOMAIN f : i < j => apart(f[i], f[j])
  BY <1>0, <1>3 DEF Correlated, Relevant, Earlier
<1>4. \A f : f \in [1 .. RuleCount -> E] /\ (\A i \in 1 .. RuleCount : CorrelatedRules[i] \in f[i].rules)
             => f \in [1 .. RuleCount -> Relevant(E)]
  <2> SUFFICES ASSUME NEW f \in [1 .. RuleCount -> E], \A i \in 1 .. RuleCount : CorrelatedRules[i] \in f[i].rules
               PROVE  f \in [1 .. RuleCount -> Relevant(E)]
    OBVIOUS
  <2>1. \A i \in 1 .. RuleCount : f[i] \in Relevant(E)
    BY RuleFacts DEF Relevant
  <2> QED
    BY <2>1
<1>5. \A f : f \in [1 .. RuleCount -> Relevant(E)] => f \in [1 .. RuleCount -> E] /\ DOMAIN f = 1 .. RuleCount
  BY DEF Relevant
<1>6. ASSUME correlation.type = "temporal" PROVE Correlated(E) <=> \E f : Distinct(E, f)
  <2>1. ASSUME NEW f, Distinct(E, f)
        PROVE  /\ f \in [1 .. RuleCount -> Relevant(E)]
               /\ \A i \in DOMAIN f : CorrelatedRules[i] \in f[i].rules
               /\ \A i, j \in DOMAIN f : i < j => apart(f[i], f[j])
    BY <2>1, <1>0, <1>4, <1>5, <1>6 DEF Distinct
  <2>2. ASSUME NEW f \in [1 .. RuleCount -> Relevant(E)], \A i \in DOMAIN f : CorrelatedRules[i] \in f[i].rules,
               \A i, j \in DOMAIN f : i < j => apart(f[i], f[j])
        PROVE  Distinct(E, f)
    <3>1. f \in [1 .. RuleCount -> E] /\ DOMAIN f = 1 .. RuleCount
      BY <1>5
    <3>2. ASSUME NEW j \in 1 .. RuleCount, NEW i \in 1 .. j - 1 PROVE f[i] # f[j]
      <4>1. i \in DOMAIN f /\ j \in DOMAIN f /\ i < j
        BY <3>1, <1>0
      <4> QED
        BY <4>1, <2>2, <1>6
    <3> QED
      BY <3>1, <3>2, <2>2 DEF Distinct
  <2> HIDE DEF apart
  <2> QED
    BY <2>1, <2>2, <1>3, <1>6
<1>7. ASSUME correlation.type = "temporal_ordered" PROVE Correlated(E) <=> \E f : Choice(E, f)
  <2>1. ASSUME NEW f, Choice(E, f)
        PROVE  /\ f \in [1 .. RuleCount -> Relevant(E)]
               /\ \A i \in DOMAIN f : CorrelatedRules[i] \in f[i].rules
               /\ \A i, j \in DOMAIN f : i < j => apart(f[i], f[j])
    BY <2>1, <1>0, <1>4, <1>5, <1>7 DEF Choice
  <2>2. ASSUME NEW f \in [1 .. RuleCount -> Relevant(E)], \A i \in DOMAIN f : CorrelatedRules[i] \in f[i].rules,
               \A i, j \in DOMAIN f : i < j => apart(f[i], f[j])
        PROVE  Choice(E, f)
    <3>1. f \in [1 .. RuleCount -> E] /\ DOMAIN f = 1 .. RuleCount
      BY <1>5
    <3>2. ASSUME NEW j \in 1 .. RuleCount, NEW i \in 1 .. j - 1 PROVE Earlier(f[i], f[j])
      <4>1. i \in DOMAIN f /\ j \in DOMAIN f /\ i < j
        BY <3>1, <1>0
      <4> QED
        BY <4>1, <2>2, <1>7
    <3> QED
      BY <3>1, <3>2, <2>2 DEF Choice
  <2> HIDE DEF apart
  <2> QED
    BY <2>1, <2>2, <1>3, <1>7
<1> QED
  BY <1>1, <1>2, <1>6, <1>7

\* A correlation among some events is one among more of them.
LEMMA CorrelatedGrows ==
  ASSUME correlation \in Specs, NEW B, IsFiniteSet(B), NEW A \in SUBSET B, Correlated(A)
  PROVE  Correlated(B)
<1> DEFINE RA == Relevant(A)
           RB == Relevant(B)
<1>1. RA \in SUBSET RB /\ RB \in SUBSET B
  BY DEF Relevant
<1>2. IsFiniteSet(RB)
  BY <1>1, FS_Subset
<1>3. IsFiniteSet(RA) /\ correlation.threshold \in Nat
  <2> HIDE DEF RA, RB
  <2> QED
    BY <1>1, <1>2, FS_Subset DEF Specs
<1>4. CASE correlation.type = "event_count"
  <2>1. Cardinality(RA) <= Cardinality(RB) /\ Cardinality(RA) \in Nat /\ Cardinality(RB) \in Nat
    <3> HIDE DEF RA, RB
    <3> QED
      BY <1>1, <1>2, <1>3, FS_Subset, FS_CardinalityType
  <2>2. Cardinality(RA) >= correlation.threshold
    BY <1>4, CorrelatedMeans
  <2>3. Cardinality(RB) >= correlation.threshold
    BY <2>1, <2>2, <1>3
  <2> QED
    BY <2>3, <1>4, CorrelatedMeans
<1>5. CASE correlation.type = "value_count"
  <2> DEFINE VA == ValuesOf(RA)
             VB == ValuesOf(RB)
             V == {e.value : e \in RB}
             h == [e \in RB |-> e.value]
  <2>1. IsFiniteSet(V)
    <3>1. h \in Surjection(RB, V)
      BY DEF Surjection
    <3> HIDE DEF h, V, RB
    <3> QED
      BY <3>1, <1>2, FS_Surjection
  <2>2. VB \in SUBSET V /\ VA \in SUBSET VB
    BY <1>1 DEF ValuesOf
  <2> HIDE DEF VA, VB, V
  <2>3. IsFiniteSet(VB)
    BY <2>1, <2>2, FS_Subset
  <2>4. IsFiniteSet(VA) /\ Cardinality(VA) <= Cardinality(VB)
    BY <2>2, <2>3, FS_Subset
  <2>5. Cardinality(VA) \in Nat /\ Cardinality(VB) \in Nat
    BY <2>3, <2>4, FS_CardinalityType
  <2>6. Cardinality(VA) >= correlation.threshold
    BY <1>5, CorrelatedMeans DEF VA
  <2>7. Cardinality(VB) >= correlation.threshold
    BY <2>4, <2>5, <2>6, <1>3
  <2> QED
    BY <2>7, <1>5, CorrelatedMeans DEF VB
<1>6. CASE correlation.type = "temporal"
  <2>1. PICK f : Distinct(A, f)
    BY <1>6, CorrelatedMeans
  <2>2. Distinct(B, f)
    BY <2>1 DEF Distinct
  <2> QED
    BY <2>2, <1>6, CorrelatedMeans
<1>7. CASE correlation.type = "temporal_ordered"
  <2>1. PICK f : Choice(A, f)
    BY <1>7, CorrelatedMeans
  <2>2. Choice(B, f)
    BY <2>1 DEF Choice
  <2> QED
    BY <2>2, <1>7, CorrelatedMeans
<1> QED
  BY <1>4, <1>5, <1>6, <1>7 DEF Specs, Kinds

\* No correlation is made of nothing.
LEMMA NothingIsNotCorrelated == correlation \in Specs => ~Correlated({})
<1> SUFFICES ASSUME correlation \in Specs, Correlated({}) PROVE FALSE
  OBVIOUS
<1>1. correlation.threshold \in Nat \ {0, 1} /\ RuleCount >= 1
  <2>1. CorrelatedRules # <<>> /\ CorrelatedRules \in Seq(Nat) /\ correlation.threshold \in Nat \ {0, 1}
    BY CorrelationAssumption, CorrelationEventsAssumption DEF compileCorrelation, Specs
  <2> QED
    BY <2>1 DEF RuleCount
<1>2. Relevant({}) = {} /\ ValuesOf({}) = {} /\ Cardinality({}) = 0
  BY FS_EmptySet DEF Relevant, ValuesOf
<1>3. \A f : ~Distinct({}, f) /\ ~Choice({}, f)
  <2>1. 1 \in 1 .. RuleCount
    BY <1>1, RuleFacts
  <2> QED
    BY <2>1 DEF Distinct, Choice
<1>4. ~(0 >= correlation.threshold)
  BY <1>1
<1> QED
  BY <1>2, <1>3, <1>4, CorrelatedMeans DEF Specs, Kinds

EventsOf(records) == {r.event : r \in records}

\* A count names events of its own, and all of them while they are few.
LEMMA BoundedNames ==
  ASSUME NEW W, IsFiniteSet(W), \A e \in W : e.id \in Nat /\ e.time \in Nat
  PROVE  /\ boundedCorrelationIDs(W) \subseteq W
         /\ Cardinality(W) <= maximumEvidenceIDs => boundedCorrelationIDs(W) = W
<1> DEFINE earlier(e) == {o \in W : o.time < e.time \/ (o.time = e.time /\ o.id < e.id)}
<1>1. boundedCorrelationIDs(W) = {e \in W : Cardinality(earlier(e)) < maximumEvidenceIDs}
  BY DEF boundedCorrelationIDs
<1>2. ASSUME NEW e \in W, Cardinality(W) <= maximumEvidenceIDs
      PROVE  Cardinality(earlier(e)) < maximumEvidenceIDs
  <2>1. earlier(e) \in SUBSET (W \ {e})
    OBVIOUS
  <2>2. IsFiniteSet(W \ {e}) /\ Cardinality(W \ {e}) = Cardinality(W) - 1 /\ Cardinality(W) \in Nat
    BY FS_RemoveElement, FS_CardinalityType
  <2> HIDE DEF earlier
  <2>3. IsFiniteSet(earlier(e)) /\ Cardinality(earlier(e)) <= Cardinality(W \ {e})
    BY <2>1, <2>2, FS_Subset
  <2>4. Cardinality(earlier(e)) \in Nat /\ maximumEvidenceIDs \in Nat
    BY <2>3, FS_CardinalityType, CorrelationAssumption
  <2> QED
    BY <2>2, <2>3, <2>4, <1>2
<1> HIDE DEF earlier
<1> QED
  BY <1>1, <1>2

\* EvaluateCorrelation, by the kind of the correlation.
LEMMA EvaluationMeans ==
  ASSUME NEW records, correlation \in Specs
  PROVE  LET result == EvaluateCorrelation(records)
             rows == Filtered(records)
             match == matchTemporal(rows) IN
         /\ correlation.type = "event_count" =>
               /\ result.satisfied = (Cardinality(EventsOf(rows)) >= correlation.threshold)
               /\ result.events = boundedCorrelationIDs(EventsOf(rows))
         /\ correlation.type = "value_count" =>
               /\ result.satisfied = (Cardinality(ValuesOf(EventsOf(rows))) >= correlation.threshold)
               /\ result.events = boundedCorrelationIDs(EventsOf(rows))
         /\ correlation.type \in {"temporal", "temporal_ordered"} =>
               /\ result.satisfied = (match # {})
               /\ match # {} => \E f \in match : result.events = Range(f)
<1> DEFINE result == EvaluateCorrelation(records)
           rows == Filtered(records)
           match == matchTemporal(rows)
           picked == IF match = {} THEN {} ELSE Range(CHOOSE f \in match : TRUE)
<1>1. uniqueEventIDs(rows) = EventsOf(rows) /\ distinctValues(rows) = ValuesOf(EventsOf(rows))
  BY DEF uniqueEventIDs, distinctValues, EventsOf, ValuesOf
<1>2. result = CASE correlation.type = "event_count" ->
                      [satisfied |-> Cardinality(EventsOf(rows)) >= correlation.threshold, events |-> boundedCorrelationIDs(EventsOf(rows))]
                 [] correlation.type = "value_count" ->
                      [satisfied |-> Cardinality(ValuesOf(EventsOf(rows))) >= correlation.threshold, events |-> boundedCorrelationIDs(EventsOf(rows))]
                 [] OTHER -> [satisfied |-> match # {}, events |-> picked]
  BY <1>1, Zenon DEF EvaluateCorrelation, Filtered
<1> HIDE DEF result, rows, match
<1>3. match # {} => \E f \in match : picked = Range(f)
  OBVIOUS
<1> HIDE DEF picked
<1>4. CASE correlation.type = "event_count"
  <2>1. result = [satisfied |-> Cardinality(EventsOf(rows)) >= correlation.threshold, events |-> boundedCorrelationIDs(EventsOf(rows))]
    BY <1>2, <1>4
  <2> QED
    BY <2>1, <1>4 DEF result, rows
<1>5. CASE correlation.type = "value_count"
  <2>1. result = [satisfied |-> Cardinality(ValuesOf(EventsOf(rows))) >= correlation.threshold, events |-> boundedCorrelationIDs(EventsOf(rows))]
    BY <1>2, <1>5
  <2> QED
    BY <2>1, <1>5 DEF result, rows
<1>6. CASE correlation.type \in {"temporal", "temporal_ordered"}
  <2>1. result = [satisfied |-> match # {}, events |-> picked]
    BY <1>2, <1>6
  <2>2. result.satisfied = (match # {}) /\ result.events = picked
    BY <2>1
  <2>3. correlation.type # "event_count" /\ correlation.type # "value_count"
    BY <1>6
  <2> QED
    BY <2>2, <2>3, <1>3 DEF result, rows, match
<1> QED
  BY <1>4, <1>5, <1>6 DEF Specs, Kinds

\* The rows of the correlation's rules have the events that are relevant.
LEMMA FilteredFacts ==
  ASSUME NEW E \in SUBSET CorrelationEvents, NEW records \in SUBSET RowsOf(E)
  PROVE  /\ Filtered(records) \in SUBSET RowsOf(E) /\ EventsOf(Filtered(records)) \subseteq EventsOf(records)
         /\ EventsOf(records) \subseteq E
         /\ Relevant(EventsOf(Filtered(records))) = EventsOf(Filtered(records))
         /\ EventsOf(Filtered(RowsOf(E))) = Relevant(E)
<1>1. \A r \in RowsOf(E) : r.rule \in r.event.rules /\ r.event \in E
  BY DEF RowsOf
<1>2. /\ Filtered(records) \in SUBSET RowsOf(E) /\ EventsOf(Filtered(records)) \subseteq EventsOf(records)
      /\ EventsOf(records) \subseteq E
  BY <1>1 DEF Filtered, EventsOf
<1>3. Relevant(EventsOf(Filtered(records))) = EventsOf(Filtered(records))
  BY <1>1 DEF Relevant, EventsOf, Filtered
<1>4. ASSUME NEW e \in Relevant(E) PROVE e \in EventsOf(Filtered(RowsOf(E)))
  <2>1. PICK rule : rule \in e.rules /\ rule \in Range(CorrelatedRules)
    BY DEF Relevant
  <2>2. e \in E /\ rule \in Nat
    BY <2>1, CorrelationEventsAssumption DEF Relevant
  <2> DEFINE row == [rule |-> rule, event |-> e]
  <2>3. row \in Filtered(RowsOf(E)) /\ row.event = e
    BY <2>1, <2>2 DEF Filtered, RowsOf
  <2> QED
    BY <2>3 DEF EventsOf
<1>5. EventsOf(Filtered(RowsOf(E))) \subseteq Relevant(E)
  BY <1>1 DEF Relevant, EventsOf, Filtered
<1> QED
  BY <1>2, <1>3, <1>4, <1>5

Counts == {"event_count", "value_count"}

\* What an evaluation reports is a correlation among the events of its rows,
\* and so are the events it names, unless it counts more than it may name.
LEMMA EvaluationIsReal ==
  ASSUME correlation \in Specs, NEW E \in SUBSET CorrelationEvents, IsFiniteSet(E), NEW records \in SUBSET RowsOf(E),
         EvaluateCorrelation(records).satisfied
  PROVE  /\ EvaluateCorrelation(records).events \subseteq EventsOf(records)
         /\ Correlated(EventsOf(records))
         /\ \/ Correlated(EvaluateCorrelation(records).events)
            \/ correlation.type \in Counts /\ Cardinality(EventsOf(records)) > maximumEvidenceIDs
<1> DEFINE result == EvaluateCorrelation(records)
           rows == Filtered(records)
           match == matchTemporal(rows)
           W == EventsOf(rows)
           R == EventsOf(records)
<1>1. rows \in SUBSET RowsOf(E) /\ W \subseteq R /\ Relevant(W) = W /\ R \in SUBSET E
  BY FilteredFacts
<1>2. /\ correlation.type = "event_count" =>
            result.satisfied = (Cardinality(W) >= correlation.threshold) /\ result.events = boundedCorrelationIDs(W)
      /\ correlation.type = "value_count" =>
            result.satisfied = (Cardinality(ValuesOf(W)) >= correlation.threshold) /\ result.events = boundedCorrelationIDs(W)
      /\ correlation.type \in {"temporal", "temporal_ordered"} =>
            /\ result.satisfied = (match # {})
            /\ match # {} => \E f \in match : result.events = Range(f)
  BY EvaluationMeans
<1>3. result.satisfied
  OBVIOUS
<1> HIDE DEF result
<1>4. /\ IsFiniteSet(R) /\ IsFiniteSet(W) /\ Cardinality(W) <= Cardinality(R)
      /\ Cardinality(W) \in Nat /\ Cardinality(R) \in Nat
  <2> HIDE DEF R, W, rows
  <2>1. IsFiniteSet(R)
    BY <1>1, FS_Subset
  <2>2. IsFiniteSet(W) /\ Cardinality(W) <= Cardinality(R)
    BY <2>1, <1>1, FS_Subset
  <2> QED
    BY <2>1, <2>2, FS_CardinalityType
<1>5. ASSUME correlation.type \in Counts
      PROVE  /\ result.events \subseteq R
             /\ Correlated(R)
             /\ Correlated(result.events) \/ Cardinality(R) > maximumEvidenceIDs
  <2>1. result.events = boundedCorrelationIDs(W)
    BY <1>2, <1>5 DEF Counts
  <2>2. Correlated(W)
    BY <1>1, <1>2, <1>3, <1>5, CorrelatedMeans DEF Counts
  <2>3. \A e \in W : e.id \in Nat /\ e.time \in Nat
    BY <1>1, CorrelationEventsAssumption
  <2> HIDE DEF R, W, rows
  <2>4. boundedCorrelationIDs(W) \subseteq W /\ (Cardinality(W) <= maximumEvidenceIDs => boundedCorrelationIDs(W) = W)
    BY <2>3, <1>4, BoundedNames
  <2>5. Correlated(R)
    BY <2>2, <1>1, <1>4, CorrelatedGrows
  <2>6. Cardinality(W) <= maximumEvidenceIDs \/ Cardinality(R) > maximumEvidenceIDs
    BY <1>4, CorrelationAssumption
  <2> QED
    BY <2>1, <2>2, <2>4, <2>5, <2>6, <1>1
<1>6. ASSUME correlation.type = "temporal" PROVE result.events \subseteq W /\ Correlated(result.events)
  <2>1. PICK f \in match : result.events = Range(f)
    BY <1>2, <1>3, <1>6
  <2>2. f \in assignments(rows)
    BY <1>6 DEF matchTemporal
  <2>3. /\ f \in [1 .. RuleCount -> W] /\ IsInjective(f) /\ DOMAIN f = 1 .. RuleCount
        /\ \A i \in 1 .. RuleCount : \E r \in rows : r.rule = CorrelatedRules[i] /\ r.event = f[i]
    BY <2>2 DEF assignments, uniqueEventIDs, EventsOf, RuleCount
  <2>4. Range(f) \subseteq W /\ f \in [1 .. RuleCount -> Range(f)]
    BY <2>3 DEF Range
  <2>5. \A i \in 1 .. RuleCount : CorrelatedRules[i] \in f[i].rules
    BY <2>3, <1>1 DEF RowsOf
  <2>6. \A j \in 1 .. RuleCount : \A i \in 1 .. j - 1 : f[i] # f[j]
    BY <2>3, RuleFacts DEF IsInjective
  <2>7. Distinct(Range(f), f)
    BY <2>4, <2>5, <2>6 DEF Distinct
  <2> QED
    BY <2>1, <2>4, <2>7, <1>1, <1>6, CorrelatedMeans
<1>7. ASSUME correlation.type = "temporal_ordered" PROVE result.events \subseteq W /\ Correlated(result.events)
  <2>1. PICK f \in match : result.events = Range(f)
    BY <1>2, <1>3, <1>7
  <2>2. PICK t \in orderedPasses(rows) : f = [i \in DOMAIN t |-> t[i].event]
    BY <1>7 DEF matchTemporal
  <2>3. DOMAIN t = 1 .. RuleCount
    BY DEF orderedPasses, RuleCount
  <2>4. Choice(W, f)
    <3> HIDE DEF rows
    <3>1. Choice({r.event : r \in rows}, [i \in 1 .. RuleCount |-> t[i].event])
      BY <1>1, <2>2, PassIsReal
    <3> QED
      BY <3>1, <2>2, <2>3 DEF EventsOf
  <2>5. Range(f) \subseteq W /\ Choice(Range(f), f)
    BY <2>4 DEF Choice, Range
  <2> QED
    BY <2>1, <2>5, <1>1, <1>7, CorrelatedMeans
<1>8. ASSUME correlation.type \notin Counts PROVE result.events \subseteq R /\ Correlated(R) /\ Correlated(result.events)
  <2>1. result.events \subseteq W /\ Correlated(result.events)
    BY <1>6, <1>7, <1>8 DEF Specs, Kinds, Counts
  <2> HIDE DEF R, W, rows
  <2> QED
    BY <2>1, <1>1, <1>4, CorrelatedGrows
<1> QED
  BY <1>5, <1>8 DEF result

\* An evaluation of all rows of some events finds the correlation there is.
LEMMA EvaluationFinds ==
  ASSUME correlation \in Specs, NEW E \in SUBSET CorrelationEvents, Correlated(E)
  PROVE  EvaluateCorrelation(RowsOf(E)).satisfied
<1> DEFINE result == EvaluateCorrelation(RowsOf(E))
           rows == Filtered(RowsOf(E))
           match == matchTemporal(rows)
<1>1. EventsOf(rows) = Relevant(E) /\ rows \in SUBSET RowsOf(E)
  BY FilteredFacts
<1>2. /\ correlation.type = "event_count" => result.satisfied = (Cardinality(EventsOf(rows)) >= correlation.threshold)
      /\ correlation.type = "value_count" => result.satisfied = (Cardinality(ValuesOf(EventsOf(rows))) >= correlation.threshold)
      /\ correlation.type \in {"temporal", "temporal_ordered"} => result.satisfied = (match # {})
  BY EvaluationMeans
<1> HIDE DEF result
<1>3. CASE correlation.type \in {"event_count", "value_count"}
  BY <1>1, <1>2, <1>3, CorrelatedMeans DEF result
<1>4. CASE correlation.type = "temporal"
  <2>1. PICK f : Distinct(E, f)
    BY <1>4, CorrelatedMeans
  <2>2. f \in [1 .. RuleCount -> E] /\ DOMAIN f = 1 .. RuleCount
    BY <2>1 DEF Distinct
  <2>3. ASSUME NEW i \in 1 .. RuleCount
        PROVE  /\ f[i] \in EventsOf(rows)
               /\ \E r \in rows : r.rule = CorrelatedRules[i] /\ r.event = f[i]
    <3> DEFINE row == [rule |-> CorrelatedRules[i], event |-> f[i]]
    <3>1. row \in rows
      BY <2>1, <2>2, RuleFacts DEF Distinct, Filtered, RowsOf
    <3>2. row.rule = CorrelatedRules[i] /\ row.event = f[i]
      OBVIOUS
    <3> QED
      BY <3>1, <3>2 DEF EventsOf
  <2>4. f \in [1 .. RuleCount -> EventsOf(rows)]
    BY <2>2, <2>3
  <2>5. IsInjective(f)
    <3> SUFFICES ASSUME NEW i \in 1 .. RuleCount, NEW j \in 1 .. RuleCount, f[i] = f[j] PROVE i = j
      BY <2>2 DEF IsInjective
    <3>1. ~(i < j)
      BY <2>1, RuleFacts DEF Distinct
    <3>2. ~(j < i)
      BY <2>1, RuleFacts DEF Distinct
    <3> QED
      BY <3>1, <3>2
  <2>6. f \in assignments(rows)
    BY <2>2, <2>3, <2>4, <2>5 DEF assignments, uniqueEventIDs, EventsOf, RuleCount
  <2> QED
    BY <2>6, <1>2, <1>4 DEF matchTemporal, result
<1>5. CASE correlation.type = "temporal_ordered"
  <2>1. PICK f : Choice(E, f)
    BY <1>5, CorrelatedMeans
  <2>2. orderedPasses(rows) # {}
    BY <2>1, PassFinds
  <2>3. match # {}
    <3>1. PICK t : t \in orderedPasses(rows)
      BY <2>2
    <3>2. [i \in DOMAIN t |-> t[i].event] \in match
      BY <3>1, <1>5 DEF matchTemporal
    <3> QED
      BY <3>2
  <2> QED
    BY <2>3, <1>2, <1>5 DEF result
<1> QED
  BY <1>3, <1>4, <1>5 DEF Specs, Kinds

\* Correlated, windowOf and the two halves of CorrelationIsFaithful, as
\* functions of the state they read.
CorrelatedAs(spec, events) ==
    LET relevant == {e \in events : e.rules \cap Range(CorrelatedRules) # {}}
        later(a, b) == a.time < b.time \/ (a.time = b.time /\ a.id < b.id)
    IN CASE spec.type = "event_count" -> Cardinality(relevant) >= spec.threshold
         [] spec.type = "value_count" -> Cardinality({e.value : e \in relevant} \ {""}) >= spec.threshold
         [] OTHER -> \E f \in [1 .. Len(CorrelatedRules) -> relevant] :
                        /\ \A i \in DOMAIN f : CorrelatedRules[i] \in f[i].rules
                        /\ \A i, j \in DOMAIN f : i < j =>
                              IF spec.type = "temporal" THEN f[i] # f[j] ELSE later(f[i], f[j])
WindowIn(arrived, e) == {o \in arrived : o.time >= e.time - Timespan /\ o.time <= e.time}
RealOf(spec, window, events) ==
    /\ events \subseteq window /\ CorrelatedAs(spec, window)
    /\ CorrelatedAs(spec, events) \/ (spec.type \in Counts /\ Cardinality(window) > maximumEvidenceIDs)
RealIn(spec, arrived, emitted) ==
    \A x \in emitted : x.trigger \in arrived /\ RealOf(spec, WindowIn(arrived, x.trigger), x.events)
AlarmFor(spec, arrived, e, x) ==
    /\ x.trigger.time <= e.time
    /\ \A o \in arrived : (o.time >= x.trigger.time /\ o.time <= e.time) => CorrelatedAs(spec, WindowIn(arrived, o))
StandsIn(spec, arrived, emitted) ==
    \A e \in arrived : CorrelatedAs(spec, WindowIn(arrived, e)) => \E x \in emitted : AlarmFor(spec, arrived, e, x)

\* A row that is no longer there is older than two windows.
StoredOf(arrived, stored) ==
    /\ stored \subseteq RowsOf(arrived)
    /\ \A row \in RowsOf(arrived) : row \in stored \/ \E o \in arrived : row.event.time < o.time - 2 * Timespan

CorrelationInv ==
    /\ correlation \in Specs /\ inMemory \in BOOLEAN /\ disordered \in BOOLEAN
    /\ observed \subseteq CorrelationEvents /\ IsFiniteSet(observed)
    /\ StoredOf(observed, observations)
    /\ inMemory => remembered = RowsOf(observed)
    /\ RealIn(correlation, observed, emissions)
    /\ ~disordered => StandsIn(correlation, observed, emissions)

\* Correlated reads the kind and threshold of the correlation only.
LEMMA CorrelatedReads == \A E : Correlated(E) <=> CorrelatedAs(correlation, E)
  BY Zenon DEF Correlated, CorrelatedAs

\* The facts about Correlated, for CorrelatedAs.
LEMMA CorrelatedFacts ==
  ASSUME correlation \in Specs
  PROVE  /\ ~CorrelatedAs(correlation, {})
         /\ \A A, B : A \subseteq B /\ IsFiniteSet(B) /\ CorrelatedAs(correlation, A) => CorrelatedAs(correlation, B)
         /\ \A E \in SUBSET CorrelationEvents : IsFiniteSet(E) => \A records \in SUBSET RowsOf(E) :
               EvaluateCorrelation(records).satisfied =>
                  RealOf(correlation, EventsOf(records), EvaluateCorrelation(records).events)
         /\ \A E \in SUBSET CorrelationEvents : IsFiniteSet(E) =>
               (EvaluateCorrelation(RowsOf(E)).satisfied <=> CorrelatedAs(correlation, E))
<1>1. ~CorrelatedAs(correlation, {})
  BY CorrelatedReads, NothingIsNotCorrelated
<1>2. ASSUME NEW A, NEW B, A \subseteq B, IsFiniteSet(B), CorrelatedAs(correlation, A)
      PROVE  CorrelatedAs(correlation, B)
  BY <1>2, CorrelatedReads, CorrelatedGrows
<1>3. ASSUME NEW E \in SUBSET CorrelationEvents, IsFiniteSet(E), NEW records \in SUBSET RowsOf(E),
             EvaluateCorrelation(records).satisfied
      PROVE  RealOf(correlation, EventsOf(records), EvaluateCorrelation(records).events)
  BY <1>3, CorrelatedReads, EvaluationIsReal DEF RealOf
<1>4. ASSUME NEW E \in SUBSET CorrelationEvents, IsFiniteSet(E)
      PROVE  EvaluateCorrelation(RowsOf(E)).satisfied <=> CorrelatedAs(correlation, E)
  <2>1. ASSUME EvaluateCorrelation(RowsOf(E)).satisfied PROVE CorrelatedAs(correlation, E)
    <3> DEFINE found == EventsOf(RowsOf(E))
    <3>1. CorrelatedAs(correlation, found)
      BY <2>1, <1>3, <1>4 DEF RealOf
    <3>2. EventsOf(RowsOf(E)) \subseteq E
      BY DEF EventsOf, RowsOf
    <3> HIDE DEF found
    <3>3. found \subseteq E /\ IsFiniteSet(E)
      BY <3>2, <1>4 DEF found
    <3> QED
      BY <3>1, <3>3, <1>2, Zenon
  <2>2. ASSUME CorrelatedAs(correlation, E) PROVE EvaluateCorrelation(RowsOf(E)).satisfied
    BY <2>2, CorrelatedReads, EvaluationFinds
  <2> QED
    BY <2>1, <2>2
<1> QED
  BY <1>1, <1>2, <1>3, <1>4

\* What is real in a window is real in a larger one.
LEMMA RealGrows ==
  ASSUME correlation \in Specs, NEW B, IsFiniteSet(B), NEW A \in SUBSET B, NEW events, RealOf(correlation, A, events)
  PROVE  RealOf(correlation, B, events)
<1>1. IsFiniteSet(A) /\ Cardinality(A) <= Cardinality(B)
  BY FS_Subset
<1>2. Cardinality(A) \in Nat /\ Cardinality(B) \in Nat /\ maximumEvidenceIDs \in Nat
  BY <1>1, FS_CardinalityType, CorrelationAssumption
<1>3. Cardinality(A) > maximumEvidenceIDs => Cardinality(B) > maximumEvidenceIDs
  BY <1>1, <1>2
<1>4. events \subseteq B /\ CorrelatedAs(correlation, B)
  BY CorrelatedFacts DEF RealOf
<1> QED
  BY <1>3, <1>4 DEF RealOf

\* An observation makes all rows of its event, and none of another.
LEMMA RowsGrow ==
  ASSUME NEW A \in SUBSET CorrelationEvents, NEW e \in CorrelationEvents
  PROVE  /\ RowsOf(A \cup {e}) = RowsOf(A) \cup RowsOf({e})
         /\ RowsOf({e}) = {[rule |-> rule, event |-> e] : rule \in e.rules}
         /\ \A row \in RowsOf(A) : row.event \in A
         /\ \A row \in RowsOf({e}) : row.event = e
         /\ \A B \in SUBSET A : RowsOf(B) = {row \in RowsOf(A) : row.event \in B}
<1>1. RowsOf(A \cup {e}) = RowsOf(A) \cup RowsOf({e})
  BY DEF RowsOf
<1>2. RowsOf({e}) = {[rule |-> rule, event |-> e] : rule \in e.rules}
  <2>1. e.rules \subseteq Nat
    BY CorrelationEventsAssumption
  <2>2. ASSUME NEW row \in RowsOf({e}) PROVE row \in {[rule |-> rule, event |-> e] : rule \in e.rules}
    <3>1. row = [rule |-> row.rule, event |-> e] /\ row.rule \in e.rules
      BY DEF RowsOf
    <3> QED
      BY <3>1
  <2>3. ASSUME NEW rule \in e.rules PROVE [rule |-> rule, event |-> e] \in RowsOf({e})
    BY <2>1 DEF RowsOf
  <2> QED
    BY <2>2, <2>3
<1>3. (\A row \in RowsOf(A) : row.event \in A) /\ \A row \in RowsOf({e}) : row.event = e
  BY DEF RowsOf
<1>4. \A B \in SUBSET A : RowsOf(B) = {row \in RowsOf(A) : row.event \in B}
  BY DEF RowsOf
<1> QED
  BY <1>1, <1>2, <1>3, <1>4

\* The rows an observation of e stores and the rows it evaluates.
Stored(e) == retained(observations \cup newRows(e), e)
Evaluated(e) == inWindow(Stored(e), e)

\* What is new of an event is of its rows, and what is not new was there.
LEMMA NewRowFacts ==
  ASSUME CorrelationInv, NEW e \in CorrelationEvents
  PROVE  /\ newRows(e) \subseteq RowsOf({e})
         /\ \A row \in RowsOf({e}) : row \in newRows(e) \/ row \in RowsOf(observed)
         /\ inMemory => newRows(e) = RowsOf({e}) \ remembered
         /\ newRows(e) = {} /\ e.rules # {} => e \in observed
<1>1. /\ observed \in SUBSET CorrelationEvents /\ observations \subseteq RowsOf(observed)
      /\ inMemory => remembered = RowsOf(observed)
  BY DEF CorrelationInv, StoredOf
<1>2. RowsOf({e}) = {[rule |-> rule, event |-> e] : rule \in e.rules} /\ \A row \in RowsOf(observed) : row.event \in observed
  BY <1>1, RowsGrow
<1> DEFINE known == IF inMemory THEN remembered ELSE observations
<1>3. newRows(e) = RowsOf({e}) \ known /\ known \subseteq RowsOf(observed)
  BY <1>1, <1>2 DEF newRows
<1>4. ASSUME newRows(e) = {}, e.rules # {} PROVE e \in observed
  <2>1. PICK rule : rule \in e.rules
    BY <1>4
  <2> DEFINE row == [rule |-> rule, event |-> e]
  <2>2. row \in RowsOf({e}) /\ row.event = e
    BY <2>1, <1>2
  <2>3. row \in RowsOf(observed)
    BY <2>2, <1>3, <1>4
  <2> QED
    BY <2>2, <2>3, <1>2
<1> QED
  BY <1>3, <1>4

\* The rows of the events that arrived are stored until two windows later.
LEMMA ObservationStores ==
  ASSUME CorrelationInv, NEW e \in CorrelationEvents
  PROVE  StoredOf(observed \cup {e}, Stored(e))
<1> DEFINE arrived == observed \cup {e}
<1>1. /\ observed \in SUBSET CorrelationEvents /\ observations \subseteq RowsOf(observed)
      /\ \A row \in RowsOf(observed) : row \in observations \/ \E o \in observed : row.event.time < o.time - 2 * Timespan
  BY DEF CorrelationInv, StoredOf
<1>2. RowsOf(arrived) = RowsOf(observed) \cup RowsOf({e})
  BY <1>1, RowsGrow
<1>3. newRows(e) \subseteq RowsOf({e}) /\ \A row \in RowsOf({e}) : row \in newRows(e) \/ row \in RowsOf(observed)
  BY NewRowFacts
<1>4. Stored(e) \subseteq RowsOf(arrived)
  BY <1>1, <1>2, <1>3 DEF Stored, retained
<1>5. ASSUME NEW row \in RowsOf(arrived)
      PROVE  row \in Stored(e) \/ \E o \in arrived : row.event.time < o.time - 2 * Timespan
  <2>1. row.event.time \in Nat /\ e.time \in Nat /\ Timespan \in Nat
    BY <1>1, CorrelationAssumption, CorrelationEventsAssumption DEF RowsOf, compileCorrelation
  <2>2. row \in observations \cup newRows(e) \/ \E o \in observed : row.event.time < o.time - 2 * Timespan
    BY <1>1, <1>2, <1>3
  <2>3. CASE row \in observations \cup newRows(e)
    <3>1. row.event.time >= e.time - 2 * Timespan \/ row.event.time < e.time - 2 * Timespan
      BY <2>1
    <3> QED
      BY <3>1, <2>3 DEF Stored, retained
  <2>4. CASE \E o \in observed : row.event.time < o.time - 2 * Timespan
    BY <2>4
  <2> QED
    BY <2>2, <2>3, <2>4
<1> QED
  BY <1>4, <1>5 DEF StoredOf

\* What is evaluated are rows of the window, and all of them when e is latest.
LEMMA EvaluatedRows ==
  ASSUME CorrelationInv, NEW e \in CorrelationEvents
  PROVE  /\ Evaluated(e) \subseteq RowsOf(WindowIn(observed \cup {e}, e))
         /\ (\A o \in observed : o.time <= e.time) => Evaluated(e) = RowsOf(WindowIn(observed \cup {e}, e))
<1> DEFINE arrived == observed \cup {e}
           W == WindowIn(arrived, e)
<1>0. arrived \in SUBSET CorrelationEvents /\ StoredOf(arrived, Stored(e)) /\ Timespan \in Nat \ {0}
      /\ \A o \in arrived : o.time \in Nat
  BY ObservationStores, CorrelationAssumption, CorrelationEventsAssumption DEF CorrelationInv, compileCorrelation
<1>1. RowsOf(W) = {row \in RowsOf(arrived) : row.event \in W} /\ \A row \in RowsOf(arrived) : row.event \in arrived
  <2>1. W \in SUBSET arrived
    BY DEF WindowIn
  <2> HIDE DEF arrived, W
  <2> QED
    BY <2>1, <1>0, RowsGrow
<1>2. Evaluated(e) = {row \in Stored(e) : row.event.time >= e.time - Timespan /\ row.event.time <= e.time}
  BY DEF Evaluated, inWindow
<1>3. \A row \in RowsOf(arrived) : row.event \in W <=> (row.event.time >= e.time - Timespan /\ row.event.time <= e.time)
  BY <1>1 DEF WindowIn
<1> HIDE DEF W
<1>4. Evaluated(e) \subseteq RowsOf(W)
  BY <1>0, <1>1, <1>2, <1>3 DEF StoredOf
<1>5. ASSUME \A o \in observed : o.time <= e.time, NEW row \in RowsOf(W) PROVE row \in Evaluated(e)
  <2>1. row \in RowsOf(arrived) /\ row.event.time >= e.time - Timespan /\ row.event.time <= e.time
        /\ row.event.time \in Nat /\ e.time \in Nat
    BY <1>0, <1>1, <1>3
  <2>2. ASSUME NEW o \in arrived PROVE ~(row.event.time < o.time - 2 * Timespan)
    <3>1. o.time <= e.time /\ o.time \in Nat
      BY <1>0, <1>5
    <3> QED
      BY <3>1, <2>1, <1>0
  <2>3. row \in Stored(e)
    BY <2>1, <2>2, <1>0 DEF StoredOf
  <2> QED
    BY <2>1, <2>3, <1>2
<1> QED
  BY <1>4, <1>5 DEF W

\* While events come in order, an observation keeps the alarms standing.
LEMMA AlarmsKeepStanding ==
  ASSUME correlation \in Specs, NEW A \in SUBSET CorrelationEvents, IsFiniteSet(A), NEW X,
         StandsIn(correlation, A, X), \A x \in X : x.trigger \in A,
         NEW e \in CorrelationEvents, \A o \in A : o.time <= e.time,
         NEW Y, X \subseteq Y,
         CorrelatedAs(correlation, WindowIn(A \cup {e}, e)) =>
            \/ CorrelatedAs(correlation, WindowIn(A \cup {e}, e) \ {e})
            \/ \E y \in Y : y.trigger = e
  PROVE  StandsIn(correlation, A \cup {e}, Y)
<1> DEFINE B == A \cup {e}
           C(S) == CorrelatedAs(correlation, S)
<1>0. /\ Timespan \in Nat \ {0} /\ e.time \in Nat /\ \A o \in B : o.time \in Nat
      /\ \A o \in B : o.time <= e.time
  BY CorrelationAssumption, CorrelationEventsAssumption DEF compileCorrelation
<1>1. ~C({}) /\ \A S, T : S \subseteq T /\ IsFiniteSet(T) /\ C(S) => C(T)
  BY CorrelatedFacts
<1>2. IsFiniteSet(B)
  BY FS_AddElement
<1>3. \A o \in B : WindowIn(B, o) \in SUBSET B /\ IsFiniteSet(WindowIn(B, o))
  <2>1. \A o \in B : WindowIn(B, o) \in SUBSET B
    BY DEF WindowIn
  <2> HIDE DEF B
  <2> QED
    BY <2>1, <1>2, FS_Subset
<1>4. \A o \in A : WindowIn(A, o) \subseteq WindowIn(B, o) /\ o \in B
  BY DEF WindowIn
<1>5. \A o \in B : o.time = e.time => WindowIn(B, o) = WindowIn(B, e)
  BY DEF WindowIn
<1>6. \A o \in A : o.time < e.time => WindowIn(B, o) = WindowIn(A, o)
  BY <1>0 DEF WindowIn
<1> HIDE DEF C
<1>7. SUFFICES ASSUME NEW f \in B, C(WindowIn(B, f)) PROVE \E y \in Y : AlarmFor(correlation, B, f, y)
  BY DEF StandsIn, C
<1>8. CASE f.time < e.time
  <2>0. f # e
    BY <1>0, <1>8
  <2>1. f \in A /\ WindowIn(B, f) = WindowIn(A, f)
    BY <2>0, <1>6, <1>8
  <2>2. PICK x \in X : AlarmFor(correlation, A, f, x)
    BY <2>1, <1>7 DEF StandsIn, C
  <2>3. ASSUME NEW o \in B, o.time >= x.trigger.time, o.time <= f.time PROVE C(WindowIn(B, o))
    <3>1. o \in A /\ o.time < e.time
      BY <2>3, <1>0, <1>8
    <3>2. C(WindowIn(A, o))
      BY <3>1, <2>2, <2>3 DEF AlarmFor, C
    <3> QED
      BY <3>1, <3>2, <1>6
  <2>4. AlarmFor(correlation, B, f, x)
    BY <2>2, <2>3 DEF AlarmFor, C
  <2> QED
    BY <2>4
<1>9. CASE f.time = e.time
  <2>1. WindowIn(B, f) = WindowIn(B, e) /\ C(WindowIn(B, e))
    BY <1>5, <1>7, <1>9
  <2>2. CASE \E y \in Y : y.trigger = e
    <3>1. PICK y \in Y : y.trigger = e
      BY <2>2
    <3>2. \A o \in B : o.time >= y.trigger.time /\ o.time <= f.time => o.time = e.time
      BY <3>1, <1>0, <1>9
    <3>3. AlarmFor(correlation, B, f, y)
      BY <3>1, <3>2, <2>1, <1>0, <1>5, <1>9 DEF AlarmFor, C
    <3> QED
      BY <3>3
  <2>3. CASE C(WindowIn(B, e) \ {e})
    <3>1. A # {}
      <4>1. A = {} => WindowIn(B, e) \ {e} = {}
        BY DEF WindowIn
      <4> QED
        BY <4>1, <2>3, <1>1
    <3> DEFINE gap(o) == e.time - o.time
               T == {gap(o) : o \in A}
    <3>2. T \subseteq Nat /\ T # {}
      BY <3>1, <1>0
    <3>3. PICK g \in T : \A m \in T : g <= m
      <4> HIDE DEF T
      <4> QED
        BY <3>2, LeastNumber
    <3>4. PICK last \in A : g = gap(last)
      OBVIOUS
    <3>5. \A o \in A : o.time <= last.time
      <4> TAKE o \in A
      <4>1. gap(last) <= gap(o)
        BY <3>3, <3>4
      <4> QED
        BY <4>1, <1>0
    <3>6. WindowIn(B, e) \ {e} \subseteq WindowIn(A, last)
      <4> SUFFICES ASSUME NEW o \in WindowIn(B, e), o # e PROVE o \in WindowIn(A, last)
        OBVIOUS
      <4>1. o \in A /\ o.time >= e.time - Timespan /\ o.time \in Nat /\ last.time \in Nat /\ last.time <= e.time
        BY <1>0 DEF WindowIn
      <4>2. o.time >= last.time - Timespan /\ o.time <= last.time
        BY <4>1, <3>5, <1>0
      <4> QED
        BY <4>1, <4>2 DEF WindowIn
    <3>7. C(WindowIn(A, last))
      <4>1. WindowIn(A, last) \in SUBSET A
        BY DEF WindowIn
      <4>2. IsFiniteSet(WindowIn(A, last))
        BY <4>1, FS_Subset
      <4> QED
        BY <4>2, <3>6, <2>3, <1>1
    <3>8. PICK x \in X : AlarmFor(correlation, A, last, x)
      BY <3>7 DEF StandsIn, C
    <3>9. ASSUME NEW o \in B, o.time >= x.trigger.time PROVE C(WindowIn(B, o))
      <4>1. CASE o \in A
        <5>1. C(WindowIn(A, o))
          BY <4>1, <3>5, <3>8, <3>9 DEF AlarmFor, C
        <5> QED
          BY <5>1, <4>1, <1>1, <1>3, <1>4
      <4>2. CASE o = e
        BY <4>2, <2>1
      <4> QED
        BY <4>1, <4>2
    <3>10. x.trigger.time <= f.time
      <4>1. x.trigger \in A /\ x.trigger.time \in Nat /\ last.time \in Nat /\ last.time <= e.time
        BY <1>0
      <4> QED
        BY <4>1, <3>8, <1>0, <1>9 DEF AlarmFor
    <3>11. AlarmFor(correlation, B, f, x)
      BY <3>9, <3>10 DEF AlarmFor, C
    <3> QED
      BY <3>11
  <2> QED
    BY <2>1, <2>2, <2>3 DEF C
<1>10. f.time < e.time \/ f.time = e.time
  <2>1. f.time \in Nat /\ f.time <= e.time
    BY <1>0
  <2> QED
    BY <2>1, <1>0
<1> HIDE DEF B
<1> QED
  BY <1>8, <1>9, <1>10

\* One observation, a transaction under the lock of the group.
LEMMA ObserveCorrelationStep ==
  ASSUME CorrelationInv, NEW e \in CorrelationEvents, ObserveCorrelation(e)
  PROVE  CorrelationInv'
<1> DEFINE new == newRows(e)
           arrived == observed \cup {e}
           W == WindowIn(arrived, e)
           was == EvaluateCorrelation({r \in Evaluated(e) : r.event # e})
           now == EvaluateCorrelation(Evaluated(e))
           emission == [trigger |-> e, events |-> now.events]
           late == \E o \in observed : o.time > e.time
<1>0. /\ correlation \in Specs /\ inMemory \in BOOLEAN /\ disordered \in BOOLEAN
      /\ observed \in SUBSET CorrelationEvents /\ IsFiniteSet(observed)
      /\ StoredOf(observed, observations)
      /\ inMemory => remembered = RowsOf(observed)
      /\ RealIn(correlation, observed, emissions)
      /\ ~disordered => StandsIn(correlation, observed, emissions)
  BY DEF CorrelationInv
<1>1. /\ e.rules # {} /\ observed' = arrived /\ correlation' = correlation /\ inMemory' = inMemory
      /\ disordered' = (disordered \/ (new # {} /\ late))
      /\ remembered' = IF inMemory THEN remembered \cup new ELSE remembered
      /\ IF new = {} THEN observations' = observations /\ emissions' = emissions
         ELSE /\ observations' = Stored(e)
              /\ emissions' = IF ~was.satisfied /\ now.satisfied THEN emissions \cup {emission} ELSE emissions
  BY DEF ObserveCorrelation, Stored, Evaluated, validObservation
<1>2. /\ new \subseteq RowsOf({e})
      /\ inMemory => new = RowsOf({e}) \ remembered
      /\ new = {} => e \in observed
  BY <1>1, NewRowFacts
<1> HIDE DEF was, now, late
<1>3. CASE new = {}
  <2>1. arrived = observed
    BY <1>2, <1>3
  <2>2. /\ observed' = observed /\ observations' = observations /\ emissions' = emissions
        /\ remembered' = remembered /\ disordered' = disordered
    BY <2>1, <1>0, <1>1, <1>3
  <2> QED
    BY <2>2, <1>0, <1>1 DEF CorrelationInv
<1>4. CASE new # {}
  <2>1. arrived \in SUBSET CorrelationEvents /\ IsFiniteSet(arrived)
    BY <1>0, FS_AddElement
  <2>2. StoredOf(observed', observations')
    BY <1>1, <1>4, ObservationStores
  <2>3. inMemory => remembered' = RowsOf(arrived)
    <3>1. RowsOf(arrived) = RowsOf(observed) \cup RowsOf({e})
      BY <1>0, RowsGrow
    <3> HIDE DEF arrived, new
    <3> QED
      BY <3>1, <1>0, <1>1, <1>2
  <2>4. W \in SUBSET arrived /\ W \in SUBSET CorrelationEvents
    BY <2>1 DEF WindowIn
  <2>5. IsFiniteSet(W) /\ W \ {e} \in SUBSET CorrelationEvents /\ IsFiniteSet(W \ {e})
    <3> HIDE DEF W, arrived
    <3>1. IsFiniteSet(W)
      BY <2>1, <2>4, FS_Subset
    <3>2. IsFiniteSet(W \ {e})
      BY <3>1, FS_RemoveElement
    <3> QED
      BY <3>1, <3>2, <2>4
  <2>6. /\ Evaluated(e) \subseteq RowsOf(W)
        /\ (\A o \in observed : o.time <= e.time) => Evaluated(e) = RowsOf(W)
    BY EvaluatedRows
  <2> DEFINE X == emissions
             Y == emissions'
  <2>7. X \subseteq Y /\ \A y \in Y : y \in X \/ (y = emission /\ now.satisfied)
    BY <1>1, <1>4
  <2>8. (~was.satisfied /\ now.satisfied) => emission \in Y
    BY <1>1, <1>4
  <2> HIDE DEF W, X, Y
  <2>9. RealIn(correlation, arrived, Y)
    <3> SUFFICES ASSUME NEW y \in Y
                 PROVE  y.trigger \in arrived /\ RealOf(correlation, WindowIn(arrived, y.trigger), y.events)
      BY DEF RealIn
    <3>1. CASE y \in X
      <4> DEFINE V == WindowIn(observed, y.trigger)
                 Z == WindowIn(arrived, y.trigger)
      <4>1. y.trigger \in observed /\ RealOf(correlation, V, y.events)
        BY <3>1, <1>0 DEF RealIn, X
      <4>2. V \in SUBSET Z /\ Z \in SUBSET arrived
        BY DEF WindowIn
      <4> HIDE DEF V, Z
      <4>3. IsFiniteSet(Z)
        BY <4>2, <2>1, FS_Subset
      <4>4. RealOf(correlation, Z, y.events)
        BY <4>1, <4>2, <4>3, <1>0, RealGrows
      <4> QED
        BY <4>1, <4>4 DEF Z
    <3>2. CASE y = emission /\ now.satisfied
      <4>1. y.trigger = e /\ y.events = now.events
        BY <3>2
      <4> DEFINE V == EventsOf(Evaluated(e))
      <4>2. RealOf(correlation, V, now.events)
        BY <3>2, <2>4, <2>5, <2>6, <1>0, CorrelatedFacts DEF now
      <4>3. V \in SUBSET W
        BY <2>6 DEF EventsOf, RowsOf
      <4> HIDE DEF V
      <4>4. RealOf(correlation, W, now.events)
        BY <4>2, <4>3, <2>5, <1>0, RealGrows
      <4> QED
        BY <4>1, <4>4 DEF W
    <3> QED
      BY <3>1, <3>2, <2>7
  <2>10. ASSUME ~disordered' PROVE StandsIn(correlation, arrived, Y)
    <3>1. ~disordered /\ ~late
      BY <2>10, <1>0, <1>1, <1>4
    <3>2. \A o \in observed : o.time <= e.time
      <4>1. \A o \in CorrelationEvents : o.time \in Nat
        BY CorrelationEventsAssumption
      <4> QED
        BY <3>1, <4>1, <1>0 DEF late
    <3>3. Evaluated(e) = RowsOf(W)
      BY <2>6, <3>2
    <3>4. {r \in Evaluated(e) : r.event # e} = RowsOf(W \ {e})
      BY <3>3 DEF RowsOf
    <3>5. /\ now.satisfied <=> CorrelatedAs(correlation, W)
          /\ was.satisfied <=> CorrelatedAs(correlation, W \ {e})
      <4> DEFINE V == W \ {e}
      <4>1. /\ was = EvaluateCorrelation(RowsOf(V)) /\ now = EvaluateCorrelation(RowsOf(W))
            /\ V \in SUBSET CorrelationEvents /\ IsFiniteSet(V)
        BY <3>3, <3>4, <2>5 DEF was, now
      <4> HIDE DEF V
      <4>2. \A E \in SUBSET CorrelationEvents : IsFiniteSet(E) =>
               (EvaluateCorrelation(RowsOf(E)).satisfied <=> CorrelatedAs(correlation, E))
        BY <1>0, CorrelatedFacts
      <4> QED
        BY <4>1, <4>2, <2>4, <2>5 DEF V
    <3>6. CorrelatedAs(correlation, W) =>
            CorrelatedAs(correlation, W \ {e}) \/ \E y \in Y : y.trigger = e
      <4>1. emission.trigger = e
        OBVIOUS
      <4> QED
        BY <4>1, <3>5, <2>8
    <3>7. StandsIn(correlation, observed, X) /\ \A x \in X : x.trigger \in observed
      BY <3>1, <1>0 DEF X, RealIn
    <3> DEFINE A == observed
    <3>8. /\ A \in SUBSET CorrelationEvents /\ IsFiniteSet(A) /\ StandsIn(correlation, A, X)
          /\ \A x \in X : x.trigger \in A
          /\ \A o \in A : o.time <= e.time
          /\ CorrelatedAs(correlation, WindowIn(A \cup {e}, e)) =>
                \/ CorrelatedAs(correlation, WindowIn(A \cup {e}, e) \ {e})
                \/ \E y \in Y : y.trigger = e
      BY <3>2, <3>6, <3>7, <1>0 DEF W
    <3> HIDE DEF A
    <3>9. StandsIn(correlation, A \cup {e}, Y)
      BY <3>8, <2>7, <1>0, AlarmsKeepStanding
    <3> QED
      BY <3>9 DEF A
  <2>11. disordered' \in BOOLEAN
    BY <1>1, <1>0
  <2> QED
    BY <2>1, <2>2, <2>3, <2>9, <2>10, <2>11, <1>0, <1>1 DEF CorrelationInv, Y
<1> QED
  BY <1>3, <1>4

\* Nothing has been observed at the start.
LEMMA CorrelationStarts == CorrelationInit => CorrelationInv
<1> SUFFICES ASSUME CorrelationInit PROVE CorrelationInv
  OBVIOUS
<1>1. /\ correlation \in [type : CorrelationTypes, threshold : Thresholds] /\ inMemory \in BOOLEAN /\ remembered = {}
      /\ observations = {} /\ emissions = {} /\ observed = {} /\ disordered = FALSE
  BY DEF CorrelationInit
<1>2. correlation \in Specs
  <2>1. CorrelationTypes \subseteq Kinds /\ Thresholds \subseteq Nat \ {0, 1}
    BY CorrelationAssumption DEF compileCorrelation, Kinds
  <2> QED
    BY <2>1, <1>1 DEF Specs
<1>3. RowsOf({}) = {} /\ IsFiniteSet({})
  BY FS_EmptySet DEF RowsOf
<1> QED
  BY <1>1, <1>2, <1>3 DEF CorrelationInv, StoredOf, RealIn, StandsIn

\* The invariant says what CorrelationIsFaithful says.
LEMMA CorrelationFollows == CorrelationInv => CorrelationIsFaithful
<1> SUFFICES ASSUME CorrelationInv PROVE EmissionIsReal /\ AlarmStands
  BY DEF CorrelationIsFaithful
<1>1. RealIn(correlation, observed, emissions) /\ (~disordered => StandsIn(correlation, observed, emissions))
  BY DEF CorrelationInv
<1>2. \A e : windowOf(e) = WindowIn(observed, e)
  BY DEF windowOf, WindowIn
<1>3. EmissionIsReal
  BY <1>1, <1>2, CorrelatedReads DEF EmissionIsReal, RealIn, RealOf, Counts
<1>4. AlarmStands
  <2> SUFFICES ASSUME ~disordered, NEW e \in observed, Correlated(windowOf(e))
               PROVE  \E x \in emissions : /\ x.trigger.time <= e.time
                                           /\ \A o \in observed : (o.time >= x.trigger.time /\ o.time <= e.time)
                                                                     => Correlated(windowOf(o))
    BY DEF AlarmStands
  <2>1. PICK x \in emissions : AlarmFor(correlation, observed, e, x)
    BY <1>1, <1>2, CorrelatedReads DEF StandsIn
  <2>2. \A o \in observed : (o.time >= x.trigger.time /\ o.time <= e.time) => Correlated(windowOf(o))
    BY <2>1, <1>2, CorrelatedReads DEF AlarmFor
  <2> QED
    BY <2>1, <2>2 DEF AlarmFor
<1> QED
  BY <1>3, <1>4

\* CorrelationIsFaithful holds for any events, rules, kind, threshold, window
\* and bound on the events an emission names, in whatever order they come.
THEOREM CorrelationStaysFaithful == CorrelationSpec => []CorrelationIsFaithful
<1>1. CorrelationInv /\ [CorrelationNext]_correlationVars => CorrelationInv'
  <2> SUFFICES ASSUME CorrelationInv, [CorrelationNext]_correlationVars PROVE CorrelationInv'
    OBVIOUS
  <2>1. CASE UNCHANGED correlationVars
    BY <2>1 DEF CorrelationInv, correlationVars
  <2>2. CASE CorrelationNext
    BY <2>2, ObserveCorrelationStep DEF CorrelationNext
  <2> QED
    BY <2>1, <2>2
<1> QED
  BY <1>1, CorrelationStarts, CorrelationFollows, PTL DEF CorrelationSpec
==============================================================================
