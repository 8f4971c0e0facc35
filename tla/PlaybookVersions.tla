--------------------------- MODULE PlaybookVersions ---------------------------
(***************************************************************************)
(* One SOAR playbook and its versions: editors create, validate and        *)
(* publish versions and disable the playbook, clients start executions.    *)
(* internal/soar/service.go, internal/store/soar.go, internal/httpapi/     *)
(* soar.go.  A publication is one transaction of several statements; the   *)
(* variables hold what is committed and tx what a transaction in progress  *)
(* has locked and seen.  Statements run under READ COMMITTED: each sees    *)
(* what was committed when it began and, where it waited for a row lock,   *)
(* looks at that row again.  The unique index soar_one_published_version   *)
(* refuses a second PUBLISHED row.                                         *)
(***************************************************************************)
EXTENDS Naturals, FiniteSets

CONSTANTS
    PublishersOfPlaybook,   \* editors who validate and publish
    ExecutionClients,       \* clients that start executions
    ExecutionRequests,      \* their request identities
    MaxPlaybookVersions     \* bound: versions of the playbook

ASSUME PlaybookVersionsAssumption ==
    /\ MaxPlaybookVersions \in Nat \ {0}
    /\ IsFiniteSet(PublishersOfPlaybook)

VARIABLES
    playbook,       \* [state, published, latest]
    pbVersion,      \* version -> [state, sound]: its state, and whether its spec validates
    publication,    \* editor -> the publication in progress
    starting,       \* client -> the StartExecution in progress
    executions      \* request -> {} or {the version it runs}

playbookVars == <<playbook, pbVersion, publication, starting, executions>>

PlaybookVersionIds == 1 .. MaxPlaybookVersions
NoPublication == [at |-> "idle", v |-> 0, seen |-> {}, retire |-> {}]
NoStart == [at |-> "idle", request |-> {}, v |-> 0]

PlaybookInit ==
    /\ playbook = [state |-> "ABSENT", published |-> 0, latest |-> 0]
    /\ pbVersion = [v \in PlaybookVersionIds |-> [state |-> "ABSENT", sound |-> FALSE]]
    /\ publication = [e \in PublishersOfPlaybook |-> NoPublication]
    /\ starting = [c \in ExecutionClients |-> NoStart]
    /\ executions = [r \in ExecutionRequests |-> {}]

-----------------------------------------------------------------------------
(* Playbooks and drafts.                                                   *)

draftVersion(v, sound) == [pbVersion EXCEPT ![v] = [state |-> "DRAFT", sound |-> sound]]

CreateSOARPlaybook(sound) ==
    /\ playbook.state = "ABSENT"
    /\ playbook' = [state |-> "DRAFT", published |-> 0, latest |-> 1]
    /\ pbVersion' = draftVersion(1, sound)
    /\ UNCHANGED <<publication, starting, executions>>

(* The advisory lock and FOR UPDATE make the read of latest_version and    *)
(* the insert one step.                                                    *)
CreateSOARPlaybookVersion(sound) ==
    /\ playbook.state # "ABSENT" /\ playbook.latest < MaxPlaybookVersions
    /\ playbook' = [playbook EXCEPT !.latest = @ + 1]
    /\ pbVersion' = draftVersion(playbook.latest + 1, sound)
    /\ UNCHANGED <<publication, starting, executions>>

(* Disabling says nothing about the version, which stays PUBLISHED.        *)
DisableSOARPlaybook ==
    /\ playbook.state # "ABSENT"
    /\ playbook' = [playbook EXCEPT !.state = "DISABLED"]
    /\ UNCHANGED <<pbVersion, publication, starting, executions>>

-----------------------------------------------------------------------------
(* Validation and publication.                                             *)

holdsRow(f, v) ==
    \/ publication[f].at \in {"locked", "retiring", "retired"} /\ publication[f].v = v
    \/ v \in publication[f].retire

unlocked(v) == ~\E f \in PublishersOfPlaybook : holdsRow(f, v)
rowLockedByOther(e, v) == \E f \in PublishersOfPlaybook \ {e} : holdsRow(f, v)

(* A report is saved only over a DRAFT or VALIDATED version, whatever was  *)
(* read before; the spec of a version never changes, so the report does    *)
(* not depend on when it was read.                                         *)
SaveSOARValidation(v) ==
    /\ unlocked(v)
    /\ pbVersion[v].state \in {"DRAFT", "VALIDATED"}
    /\ pbVersion' = [pbVersion EXCEPT ![v].state = IF pbVersion[v].sound THEN "VALIDATED" ELSE "DRAFT"]

ValidateVersion(v) ==
    /\ SaveSOARValidation(v)
    /\ UNCHANGED <<playbook, publication, starting, executions>>

(* PublishVersion validates first and goes on only with a valid report.    *)
PublishVersion(e, v) ==
    /\ publication[e].at = "idle"
    /\ SaveSOARValidation(v)
    /\ publication' = IF pbVersion[v].sound
                      THEN [publication EXCEPT ![e] = [at |-> "begin", v |-> v, seen |-> {}, retire |-> {}]]
                      ELSE publication
    /\ UNCHANGED <<playbook, starting, executions>>

(* SELECT state ... FOR UPDATE: only a VALIDATED version goes on.          *)
lockVersion(e) ==
    /\ publication[e].at = "begin"
    /\ ~rowLockedByOther(e, publication[e].v)
    /\ publication' = IF pbVersion[publication[e].v].state = "VALIDATED"
                      THEN [publication EXCEPT ![e].at = "locked"]
                      ELSE [publication EXCEPT ![e] = NoPublication]
    /\ UNCHANGED <<playbook, pbVersion, starting, executions>>

(* UPDATE ... SET state='RETIRED' WHERE state='PUBLISHED': the statement   *)
(* begins with the rows it sees,                                           *)
retireBegins(e) ==
    /\ publication[e].at = "locked"
    /\ publication' = [publication EXCEPT ![e] = [at |-> "retiring", v |-> @.v,
           seen |-> {v \in PlaybookVersionIds : pbVersion[v].state = "PUBLISHED"}, retire |-> {}]]
    /\ UNCHANGED <<playbook, pbVersion, starting, executions>>

(* waits for their locks, and takes those that are still PUBLISHED.        *)
retireEnds(e) ==
    /\ publication[e].at = "retiring"
    /\ \A v \in publication[e].seen : ~rowLockedByOther(e, v)
    /\ publication' = [publication EXCEPT ![e] = [at |-> "retired", v |-> @.v, seen |-> @.seen,
           retire |-> {v \in @.seen : pbVersion[v].state = "PUBLISHED"}]]
    /\ UNCHANGED <<playbook, pbVersion, starting, executions>>

publishedRows(e) == {v \in PlaybookVersionIds : pbVersion[v].state = "PUBLISHED"} \ publication[e].retire
noUniqueIndex(e) == FALSE
duplicatePublished(e) == publishedRows(e) # {}

(* The version and the playbook are updated and the transaction commits,   *)
(* unless the unique index refuses the row.                                *)
PublishSOARPlaybookVersion(e) ==
    LET p == publication[e] IN
    /\ p.at = "retired"
    /\ ~duplicatePublished(e)
    /\ pbVersion' = [v \in PlaybookVersionIds |->
          IF v = p.v THEN [pbVersion[v] EXCEPT !.state = "PUBLISHED"]
          ELSE IF v \in p.retire THEN [pbVersion[v] EXCEPT !.state = "RETIRED"] ELSE pbVersion[v]]
    /\ playbook' = [state |-> "PUBLISHED", published |-> p.v, latest |-> playbook.latest]
    /\ publication' = [publication EXCEPT ![e] = NoPublication]
    /\ UNCHANGED <<starting, executions>>

(* The transaction is rolled back: the index refused the row, the request  *)
(* was cancelled, or the process ended.                                    *)
publishRollsBack(e) ==
    /\ publication[e].at # "idle"
    /\ publication' = [publication EXCEPT ![e] = NoPublication]
    /\ UNCHANGED <<playbook, pbVersion, starting, executions>>

-----------------------------------------------------------------------------
(* Starting an execution: two reads, then a transaction that looks again.  *)

getPlaybook(c, r) ==
    /\ starting[c].at = "idle" /\ playbook.state = "PUBLISHED"
    /\ starting' = [starting EXCEPT ![c] = [at |-> "versions", request |-> {r}, v |-> playbook.published]]
    /\ UNCHANGED <<playbook, pbVersion, publication, executions>>

listVersions(c) ==
    /\ starting[c].at = "versions"
    /\ starting' = IF pbVersion[starting[c].v].state = "PUBLISHED"
                   THEN [starting EXCEPT ![c].at = "create"]
                   ELSE [starting EXCEPT ![c] = NoStart]
    /\ UNCHANGED <<playbook, pbVersion, publication, executions>>

mayExecute(v) == playbook.state = "PUBLISHED" /\ pbVersion[v].state = "PUBLISHED"

(* A request that exists already returns its execution; otherwise the      *)
(* playbook and the version must both still be PUBLISHED.  The row locks   *)
(* wait for a publication that holds the version.                          *)
CreateSOARExecution(c) ==
    LET v == starting[c].v IN
    /\ starting[c].at = "create" /\ unlocked(v)
    /\ executions' = [r \in ExecutionRequests |->
           IF r \in starting[c].request /\ executions[r] = {} /\ mayExecute(v) THEN {v} ELSE executions[r]]
    /\ starting' = [starting EXCEPT ![c] = NoStart]
    /\ UNCHANGED <<playbook, pbVersion, publication>>

StartExecution(c) == (\E r \in ExecutionRequests : getPlaybook(c, r)) \/ listVersions(c) \/ CreateSOARExecution(c)

publicationStep(e) == lockVersion(e) \/ retireBegins(e) \/ retireEnds(e) \/ PublishSOARPlaybookVersion(e) \/ publishRollsBack(e)

PlaybookNext ==
    \/ \E sound \in BOOLEAN : CreateSOARPlaybook(sound) \/ CreateSOARPlaybookVersion(sound)
    \/ DisableSOARPlaybook
    \/ \E v \in PlaybookVersionIds : ValidateVersion(v) \/ \E e \in PublishersOfPlaybook : PublishVersion(e, v)
    \/ \E e \in PublishersOfPlaybook : publicationStep(e)
    \/ \E c \in ExecutionClients : StartExecution(c)

PlaybookSpec == PlaybookInit /\ [][PlaybookNext]_playbookVars

-----------------------------------------------------------------------------
(* The version in force is the PUBLISHED one, while the playbook is.       *)
rowsIn(S) == {v \in PlaybookVersionIds : pbVersion[v].state \in S}
playbookLive == IF playbook.state = "PUBLISHED" THEN rowsIn({"PUBLISHED"}) ELSE {}

PlaybookContent == INSTANCE VersionedContent WITH
    Versions <- PlaybookVersionIds, Requests <- ExecutionRequests, Restorable <- FALSE,
    live <- playbookLive, kept <- {}, spent <- rowsIn({"PUBLISHED", "RETIRED"}) \ playbookLive,
    served <- executions

(* Whatever editors and clients do at the same time, a playbook behaves as *)
(* versioned content: one version in force, a version published once and   *)
(* never again after it was retired or the playbook disabled, and each     *)
(* request executed once, by the version then in force.                    *)
PlaybookContract == PlaybookContent!ContentSpec
=============================================================================
