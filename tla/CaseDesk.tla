------------------------------- MODULE CaseDesk -------------------------------
(***************************************************************************)
(* An investigation case: its creation under a request id, and the changes *)
(* several analysts make to it.  internal/cases/service.go,                *)
(* internal/store/cases.go, internal/httpapi/cases.go.  A change runs in a *)
(* transaction that locks the row, applies the change to what it read and  *)
(* writes the whole row back; the audit entry is a call of its own after   *)
(* the commit.  Texts, severities and deadlines are left out.              *)
(***************************************************************************)
EXTENDS Integers, Sequences

CONSTANTS
    Analysts,          \* who have a request open; also the users of a case
    CaseIncidents,     \* incidents that exist
    CaseChanges,       \* the changes the analysts ask for
    MaxCaseVersion     \* bound on the versions of the case

CaseStatuses == {"OPEN", "INVESTIGATION", "RESPONSE", "CLOSED"}

(* Every request reaches one of the handlers.                              *)
ASSUME CaseChangesAssumption ==
    \A c \in CaseChanges : c.kind \in {"update", "comment", "task", "task_update", "participant", "observable", "link"}

VARIABLES
    caseRow,       \* the row of the case, NoCase before it is created
    caseLinks,     \* case_incidents: the incidents linked to the case
    caseCall,      \* analyst -> the request in progress
    caseSeen,      \* analyst -> the version last read, 0 for none
    caseAudit,     \* the changes that have an audit entry
    caseDone       \* the changes that were answered with success

caseVars == <<caseRow, caseLinks, caseCall, caseSeen, caseAudit, caseDone>>

NoCase == [version |-> 0]
NoCaseCall == [at |-> "idle"]

CaseInit ==
    /\ caseRow = NoCase /\ caseLinks = {}
    /\ caseCall = [a \in Analysts |-> NoCaseCall]
    /\ caseSeen = [a \in Analysts |-> 0]
    /\ caseAudit = {} /\ caseDone = {}

-----------------------------------------------------------------------------
(* The changes, as functions of the row; {} is an error.                   *)

AllowedTransitions(status) ==
    CASE status = "OPEN" -> {"INVESTIGATION", "CLOSED"}
      [] status = "INVESTIGATION" -> {"RESPONSE", "CLOSED"}
      [] status = "RESPONSE" -> {"INVESTIGATION", "CLOSED"}
      [] OTHER -> {}

validTaskTransition(current, next) ==
    \/ current = "OPEN" /\ next \in {"IN_PROGRESS", "DONE", "CANCELLED"}
    \/ current = "IN_PROGRESS" /\ next \in {"DONE", "CANCELLED"}

(* A user who takes part already only changes role.                        *)
appendParticipant(participants, user, role) ==
    [u \in DOMAIN participants \cup {user} |-> IF u = user THEN role ELSE participants[u]]

newHistory(row, action) == [row EXCEPT !.history = Append(@, action)]

newCase(owner, incidents) ==
    [version |-> 1, status |-> "OPEN", owner |-> owner, closed |-> FALSE,
     participants |-> [u \in {owner} |-> "OWNER"], incidents |-> incidents,
     tasks |-> <<>>, comments |-> {}, observables |-> {}, history |-> <<"case.created">>]

assigned(row, owner) ==
    IF owner \in {"", row.owner} THEN row
    ELSE newHistory([[row EXCEPT !.owner = owner] EXCEPT !.participants = appendParticipant(@, owner, "OWNER")], "case.assigned")

Update(row, patch) ==
    LET item == assigned(row, patch.owner)
        moved == [[item EXCEPT !.status = patch.status] EXCEPT !.closed = @ \/ patch.status = "CLOSED"]
    IN  CASE patch.status = "" -> {item}
          [] patch.status # "" /\ patch.status # row.status /\ patch.status \notin AllowedTransitions(row.status) -> {}
          [] patch.status = "CLOSED" /\ ~patch.summary -> {}
          [] OTHER -> {IF patch.status = row.status THEN moved ELSE newHistory(moved, patch.status)}

AddComment(row, id) == {newHistory([row EXCEPT !.comments = @ \cup {id}], "case.comment_added")}

AddTask(row) == {newHistory([row EXCEPT !.tasks = Append(@, "OPEN")], "case.task_created")}

(* The version of a request is that of the case, also for a task.          *)
UpdateTask(row, task, next) ==
    IF task \notin DOMAIN row.tasks \/ (next # row.tasks[task] /\ ~validTaskTransition(row.tasks[task], next)) THEN {}
    ELSE {newHistory([row EXCEPT !.tasks = [@ EXCEPT ![task] = next]], "case.task_updated")}

AddParticipant(row, user, role) ==
    {newHistory([row EXCEPT !.participants = appendParticipant(@, user, role)], "case.participant_added")}

(* An observable the case has already is noted again in the history only.  *)
AddObservable(row, value) ==
    {newHistory([row EXCEPT !.observables = @ \cup {value}], "case.observable_added")}

(* The incident was looked up before the transaction; incidents stay.      *)
LinkIncident(row, incident) ==
    {newHistory([row EXCEPT !.incidents = @ \cup {incident}], "case.incident_linked")}

mutate(row, change, id) ==
    CASE change.kind = "update" -> Update(row, change)
      [] change.kind = "comment" -> AddComment(row, id)
      [] change.kind = "task" -> AddTask(row)
      [] change.kind = "task_update" -> UpdateTask(row, change.task, change.status)
      [] change.kind = "participant" -> AddParticipant(row, change.user, change.role)
      [] change.kind = "observable" -> AddObservable(row, change.value)
      [] change.kind = "link" -> LinkIncident(row, change.incident)

-----------------------------------------------------------------------------
caseGoes(a, call) == caseCall' = [caseCall EXCEPT ![a] = call]
caseIdle(a) == caseCall[a].at = "idle"

(* The row is locked from the read FOR UPDATE to the end of the            *)
(* transaction.                                                            *)
neverLocked(a) == FALSE
caseLocked(a) == \E b \in Analysts \ {a} : caseCall[b].at = "locked"

(* Create.  A request id that was used is answered with the case it made,  *)
(* whatever the rest of the request says, and no audit entry is made.      *)
CreateCase(a, incidents) ==
    /\ caseIdle(a) /\ caseRow = NoCase
    /\ caseRow' = newCase(a, incidents) /\ caseLinks' = incidents
    /\ caseGoes(a, [at |-> "committed", id |-> <<a, 1>>, change |-> [kind |-> "create", incidents |-> incidents]])
    /\ UNCHANGED <<caseSeen, caseAudit, caseDone>>

GetCase(a) ==
    /\ caseIdle(a) /\ caseRow # NoCase
    /\ caseSeen' = [caseSeen EXCEPT ![a] = caseRow.version]
    /\ UNCHANGED <<caseRow, caseLinks, caseCall, caseAudit, caseDone>>

(* MutateCase: a request may name the version it is about; one without a   *)
(* version is applied to whatever the row holds.                           *)
selectCase(a, change, version) ==
    /\ caseIdle(a) /\ caseRow # NoCase /\ ~caseLocked(a)
    /\ caseRow.version < MaxCaseVersion
    /\ version = 0 \/ version = caseRow.version
    /\ caseGoes(a, [at |-> "locked", row |-> caseRow, change |-> change])
    /\ UNCHANGED <<caseRow, caseLinks, caseSeen, caseAudit, caseDone>>

MutateCase(a) ==
    LET read == caseCall[a].row
        id == <<a, read.version + 1>>
    IN
    /\ caseCall[a].at = "locked"
    /\ \E item \in mutate(read, caseCall[a].change, id) :
          /\ caseRow' = [item EXCEPT !.version = read.version + 1]
          /\ caseLinks' = item.incidents
    /\ caseGoes(a, [at |-> "committed", id |-> id, change |-> caseCall[a].change])
    /\ UNCHANGED <<caseSeen, caseAudit, caseDone>>

(* An invalid change, a failing database or the end of the process.        *)
caseRollsBack(a) ==
    /\ caseCall[a].at = "locked"
    /\ caseGoes(a, NoCaseCall)
    /\ UNCHANGED <<caseRow, caseLinks, caseSeen, caseAudit, caseDone>>

(* audit: its failure is the answer to the request.                        *)
audit(a) ==
    /\ caseCall[a].at = "committed"
    /\ caseAudit' = caseAudit \cup {caseCall[a].id}
    /\ caseGoes(a, [at |-> "audited", id |-> caseCall[a].id, change |-> caseCall[a].change])
    /\ UNCHANGED <<caseRow, caseLinks, caseSeen, caseDone>>

answer(a) ==
    /\ caseCall[a].at = "audited"
    /\ caseDone' = caseDone \cup {[id |-> caseCall[a].id, change |-> caseCall[a].change]}
    /\ caseGoes(a, NoCaseCall)
    /\ UNCHANGED <<caseRow, caseLinks, caseSeen, caseAudit>>

(* The audit or the read after it fails, or the process ends.              *)
caseFails(a) ==
    /\ caseCall[a].at \in {"committed", "audited"}
    /\ caseGoes(a, NoCaseCall)
    /\ UNCHANGED <<caseRow, caseLinks, caseSeen, caseAudit, caseDone>>

CaseNext ==
    \E a \in Analysts :
        \/ \E incidents \in SUBSET CaseIncidents : CreateCase(a, incidents)
        \/ GetCase(a)
        \/ \E change \in CaseChanges, version \in {0, caseSeen[a]} : selectCase(a, change, version)
        \/ MutateCase(a) \/ caseRollsBack(a) \/ audit(a) \/ answer(a) \/ caseFails(a)

CaseSpec == CaseInit /\ [][CaseNext]_caseVars

-----------------------------------------------------------------------------
(* What the case must hold of a change that was answered with success.     *)
holds(row, done) ==
    LET c == done.change IN
    /\ c.kind = "create" => c.incidents \subseteq row.incidents
    /\ c.kind = "comment" => done.id \in row.comments
    /\ c.kind = "task" => row.tasks # <<>>
    /\ c.kind = "task_update" /\ c.status \in {"DONE", "CANCELLED"} => c.task \in DOMAIN row.tasks /\ row.tasks[c.task] = c.status
    /\ c.kind = "participant" => c.user \in DOMAIN row.participants
    /\ c.kind = "observable" => c.value \in row.observables
    /\ c.kind = "link" => c.incident \in row.incidents
    /\ c.kind = "update" /\ c.status = "CLOSED" => row.status = "CLOSED"

(* The last change of status that a history tells of, if any, was to the   *)
(* given one.                                                              *)
endsIn(history, status) ==
    LET moves == {i \in DOMAIN history : history[i] \in CaseStatuses}
    IN  IF moves = {} THEN status = "OPEN" ELSE \E i \in moves : history[i] = status /\ \A j \in moves : j <= i

(* However requests overlap and fail, the case still holds every comment,  *)
(* link, participant, finished task and closure that was answered with     *)
(* success, and each has its audit entry; no two changes were made to the  *)
(* same version; and the row agrees with itself: its owner takes part, its *)
(* status is where its history ends, its links are those of the links      *)
(* table.  (A creation whose audit entry failed and that is repeated is    *)
(* answered as a repetition and stays without one: see CreateCase.)        *)
CaseKeepsItsRecord ==
    /\ \A done \in caseDone : holds(caseRow, done) /\ done.id \in caseAudit
    /\ caseRow # NoCase =>
          /\ caseRow.owner \in DOMAIN caseRow.participants
          /\ endsIn(caseRow.history, caseRow.status)
          /\ caseRow.closed <=> caseRow.status = "CLOSED"
          /\ caseLinks = caseRow.incidents
    /\ \A d, e \in caseDone : d.id[2] = e.id[2] => d = e
=============================================================================
