------------------------------- MODULE SocDesk -------------------------------
(***************************************************************************)
(* The analysts' desk: alerts that detection opens and aggregates,         *)
(* incidents made from them, and the audit chain, as the requests of       *)
(* internal/soc/service.go and the transactions of internal/store/         *)
(* postgres.go change them.                                                *)
(*                                                                         *)
(* A transaction is one step, except for the append to the audit chain,    *)
(* which waits for the lock of the chain's head.  A request is several     *)
(* transactions: the change and its audit entry, and for an incident the   *)
(* search for an equal one, the reads of its alerts, the insert, one       *)
(* update per alert and the audit entry.  Requests interleave between any  *)
(* two and may fail between any two.                                       *)
(*                                                                         *)
(* Alerts have one deduplication key.  Texts are empty, blank or given;    *)
(* assignees, titles, risk and severity are left out.                      *)
(***************************************************************************)
EXTENDS Integers, Sequences, FiniteSets

CONSTANTS
    NAlerts, NIncidents, \* bounds on the rows of a run
    Clients,             \* requests in progress at a time
    Events,              \* events that detection matches
    SeenAt,              \* observed_at of an event
    Window,              \* the 15 minutes of deduplication
    PatchTexts,          \* the texts a patch may carry
    MaxChanges,          \* bound on edits and new incidents
    MaxUnaudited         \* bound on requests that fail after their change

Alerts == 1..NAlerts
Incidents == 1..NIncidents

ASSUME DeskAssumption ==
    /\ NAlerts \in Nat /\ NIncidents \in Nat /\ IsFiniteSet(Clients)
    /\ SeenAt \in [Events -> Nat]
    /\ PatchTexts \subseteq {"none", "blank", "given"}
    /\ Window \in Nat /\ MaxChanges \in Nat /\ MaxUnaudited \in Nat

VARIABLES
    alert, incident, \* the rows, "NONE" while there is none
    auditEntries,    \* audit_entries, in sequence_id order
    head, lockedBy,  \* audit_heads: the hash and the transaction that locks it
    session,         \* what each request is doing
    changes,         \* changes committed, each of which owes an entry
    unaudited        \* changes whose request failed before their entry

deskVars == <<alert, incident, auditEntries, head, lockedBy, session, changes, unaudited>>

AlertStatuses == {"NEW", "ACKNOWLEDGED", "IN_PROGRESS", "CLOSED"}
IncidentStatuses == {"NEW", "TRIAGE", "INVESTIGATION", "CONTAINMENT", "ERADICATION",
                     "RECOVERY", "CLOSED"}
Texts == {"none", "blank", "given"}

NoAlert == [status |-> "NONE", version |-> 0, events |-> {}, lastSeen |-> 0,
            disposition |-> "none", acked |-> FALSE]
NoIncident == [status |-> "NONE", version |-> 0, links |-> {}, events |-> {},
               disposition |-> "none", reason |-> "none", acked |-> FALSE, timeline |-> <<>>]

\* at: "away"; a row on the screen ("alert", "incident"); CreateIncident
\* ("gather", "link"); an audit entry owed ("audit") or being written ("append").
Away == [at |-> "away", id |-> 0, view |-> NoAlert, links |-> {}, todo |-> {},
         events |-> {}, what |-> "updated", prev |-> 0]

Rows(table) == {k \in DOMAIN table : table[k].status # "NONE"}

DeskInit ==
    /\ alert = [a \in Alerts |-> NoAlert]
    /\ incident = [i \in Incidents |-> NoIncident]
    /\ auditEntries = <<>> /\ head = 0 /\ lockedBy = {}
    /\ session = [c \in Clients |-> Away]
    /\ changes = 0 /\ unaudited = 0

-----------------------------------------------------------------------------
(* Detection.  UpsertAlert is one transaction under an advisory lock; it    *)
(* comes once for an event (TelemetryProcessor has the exceptions).        *)

Unseen(e) == \A a \in Alerts : e \notin alert[a].events

OpenAlerts == {a \in Alerts : alert[a].status \notin {"NONE", "CLOSED"}}

\* The open alert seen last takes the event if it is within the window of it.
Aggregates(a, e) ==
    /\ a \in OpenAlerts /\ \A b \in OpenAlerts : alert[b].lastSeen <= alert[a].lastSeen
    /\ SeenAt[e] - alert[a].lastSeen <= Window

UpsertAlert(e) ==
    \/ \E a \in Alerts :
          /\ Unseen(e) /\ Aggregates(a, e)
          /\ alert' = [alert EXCEPT ![a].events = @ \union {e}, ![a].lastSeen = SeenAt[e],
                                     ![a].version = @ + 1]
          /\ UNCHANGED <<incident, auditEntries, head, lockedBy, session, changes, unaudited>>
    \/ \E a \in Alerts :
          /\ Unseen(e) /\ \A b \in Alerts : ~Aggregates(b, e)
          /\ a = Cardinality(Rows(alert)) + 1
          /\ alert' = [alert EXCEPT ![a] = [NoAlert EXCEPT !.status = "NEW", !.version = 1,
                                              !.events = {e}, !.lastSeen = SeenAt[e]]]
          /\ UNCHANGED <<incident, auditEntries, head, lockedBy, session, changes, unaudited>>

-----------------------------------------------------------------------------
(* Edits.  A client has a row on its screen and sends a patch, with the    *)
(* version it sees or without one.                                         *)

Become(c, s) == session' = [session EXCEPT ![c] = s]

GetAlertRow(c, a) ==
    /\ session[c] = Away /\ a \in Rows(alert)
    /\ Become(c, [Away EXCEPT !.at = "alert", !.id = a, !.view = alert[a]])
    /\ UNCHANGED <<alert, incident, auditEntries, head, lockedBy, changes, unaudited>>

GetIncidentRow(c, i) ==
    /\ session[c] = Away /\ i \in Rows(incident)
    /\ Become(c, [Away EXCEPT !.at = "incident", !.id = i, !.view = incident[i]])
    /\ UNCHANGED <<alert, incident, auditEntries, head, lockedBy, changes, unaudited>>

\* The client sends nothing, or its patch is refused.
Leave(c) ==
    /\ session[c].at \in {"alert", "incident"}
    /\ Become(c, Away)
    /\ UNCHANGED <<alert, incident, auditEntries, head, lockedBy, changes, unaudited>>

Expected(version, row) == version = 0 \/ version = row.version

Owes(c) ==
    /\ Become(c, [Away EXCEPT !.at = "audit"])
    /\ changes' = changes + 1

validAlertTransition(current, next) ==
    \/ current = next
    \/ current = "NEW" /\ next # "NEW"
    \/ current = "ACKNOWLEDGED" /\ next \in {"IN_PROGRESS", "CLOSED"}
    \/ current = "IN_PROGRESS" /\ next = "CLOSED"

\* MutateAlert with the function of UpdateAlert.
UpdateAlert(c) ==
    LET a == session[c].id
        row == alert[a]
    IN
    /\ session[c].at = "alert" /\ changes < MaxChanges
    /\ \E version \in {0, session[c].view.version},
          next \in AlertStatuses \union {"none"}, text \in PatchTexts :
          /\ Expected(version, row)
          /\ next # "none" => validAlertTransition(row.status, next)
          /\ next = "CLOSED" => text = "given"
          /\ alert' = [alert EXCEPT
                ![a].status = IF next = "none" THEN @ ELSE next,
                ![a].acked = @ \/ next \in AlertStatuses \ {"NEW"},
                ![a].disposition = IF text = "none" THEN @ ELSE text,
                ![a].version = @ + 1]
          /\ Owes(c)
    /\ UNCHANGED <<incident, auditEntries, head, lockedBy, unaudited>>

IncidentTransitions(status) ==
    CASE status = "NEW" -> {"TRIAGE"}
      [] status = "TRIAGE" -> {"INVESTIGATION", "CLOSED"}
      [] status = "INVESTIGATION" -> {"CONTAINMENT", "RECOVERY", "CLOSED"}
      [] status = "CONTAINMENT" -> {"ERADICATION", "RECOVERY"}
      [] status = "ERADICATION" -> {"RECOVERY"}
      [] status = "RECOVERY" -> {"CLOSED"}
      [] status = "CLOSED" -> {}

\* Mistake: closing an incident is not written to its timeline.
PatchedSilentClose(row, next, disposition, reason, note) ==
    [row EXCEPT
          !.status = IF next = "none" THEN @ ELSE next,
          !.acked = @ \/ next \notin {"none", "NEW"},
          !.timeline = IF next \in {"none", "CLOSED", row.status} THEN @ ELSE Append(@, next),
          !.version = @ + 1]

\* The row after a patch: next may be "none"; note stands for a comment or
\* a new assignee, which also go to the timeline.  A text in the patch replaces
\* the stored one even if it is blank; a blank reason is trimmed to nothing.
Patched(row, next, disposition, reason, note) ==
    LET moved == IF next \in {"none", row.status} THEN <<>> ELSE <<next>>
    IN [status |-> IF next = "none" THEN row.status ELSE next,
        version |-> row.version + 1, links |-> row.links, events |-> row.events,
        disposition |-> IF disposition # "none" THEN disposition ELSE row.disposition,
        reason |-> CASE reason = "given" -> "given"
                     [] reason = "blank" -> "none"
                     [] OTHER -> row.reason,
        acked |-> row.acked \/ next \notin {"none", "NEW"},
        timeline |-> row.timeline \o moved \o (IF note THEN <<"note">> ELSE <<>>)]

\* MutateIncident with the function of UpdateIncident.
UpdateIncident(c) ==
    LET i == session[c].id
        row == incident[i]
    IN
    /\ session[c].at = "incident" /\ changes < MaxChanges
    /\ \E version \in {0, session[c].view.version}, next \in IncidentStatuses \union {"none"},
          disposition, reason \in PatchTexts, note \in BOOLEAN :
          /\ Expected(version, row)
          /\ next \in IncidentTransitions(row.status) \union {"none", row.status}
          /\ next = "CLOSED" => /\ "given" \in {disposition, row.disposition}
                                /\ "given" \in {reason, row.reason}
          /\ incident' = [incident EXCEPT ![i] = Patched(row, next, disposition, reason, note)]
          /\ Owes(c)
    /\ UNCHANGED <<alert, auditEntries, head, lockedBy, unaudited>>

-----------------------------------------------------------------------------
(* CreateIncident.                                                         *)

\* ListIncidents finds no incident with the same alerts; one that does is
\* returned and nothing changes.
CreateIncident(c) ==
    /\ session[c] = Away
    /\ \E links \in SUBSET Rows(alert) :
          /\ links # {} /\ \A i \in Incidents : incident[i].links # links
          /\ Become(c, [Away EXCEPT !.at = "gather", !.links = links, !.todo = links])
    /\ UNCHANGED <<alert, incident, auditEntries, head, lockedBy, changes, unaudited>>

\* The alert that comes next, in the order of the ids.
First(c, a) == \A b \in session[c].todo : a <= b

\* One alert is read at a time.
GetAlert(c) ==
    /\ session[c].at = "gather"
    /\ \E a \in session[c].todo :
          /\ First(c, a)
          /\ session' = [session EXCEPT ![c].todo = @ \ {a},
                                         ![c].events = @ \union alert[a].events]
    /\ UNCHANGED <<alert, incident, auditEntries, head, lockedBy, changes, unaudited>>

InsertIncident(c) ==
    /\ session[c].at = "gather" /\ session[c].todo = {} /\ changes < MaxChanges
    /\ \E i \in Incidents :
          /\ i = Cardinality(Rows(incident)) + 1
          /\ incident' = [incident EXCEPT ![i] =
                [NoIncident EXCEPT !.status = "NEW", !.version = 1, !.links = session[c].links,
                                   !.events = session[c].events, !.timeline = <<"NEW">>]]
          /\ Become(c, [Away EXCEPT !.at = "link", !.id = i, !.links = session[c].links,
                                    !.todo = session[c].links])
    /\ changes' = changes + 1
    /\ UNCHANGED <<alert, auditEntries, head, lockedBy, unaudited>>

\* MutateAlert without a version moves each linked alert out of the queue.
LinkAlert(c) ==
    /\ session[c].at = "link"
    /\ \E a \in session[c].todo :
          /\ First(c, a)
          /\ alert' = [alert EXCEPT
                ![a].status = IF @ \in {"NEW", "ACKNOWLEDGED"} THEN "IN_PROGRESS" ELSE @,
                ![a].version = @ + 1]
          /\ session' = [session EXCEPT ![c].todo = @ \ {a}]
    /\ UNCHANGED <<incident, auditEntries, head, lockedBy, changes, unaudited>>

\* The creation is audited after the last link.
LinksDone(c) ==
    /\ session[c].at = "link" /\ session[c].todo = {}
    /\ Become(c, [Away EXCEPT !.at = "audit", !.what = "created", !.id = session[c].id])
    /\ UNCHANGED <<alert, incident, auditEntries, head, lockedBy, changes, unaudited>>

-----------------------------------------------------------------------------
(* The audit chain.                                                        *)

\* appendAuditTx, its SELECT ... FOR UPDATE.
LockAuditHead(c) ==
    /\ session[c].at = "audit" /\ lockedBy = {}
    /\ lockedBy' = {c}
    /\ session' = [session EXCEPT ![c].at = "append", ![c].prev = head]
    /\ UNCHANGED <<alert, incident, auditEntries, head, changes, unaudited>>

\* The rest of appendAuditTx and its commit.  The number of an entry stands
\* for its hash: entries differ.
AppendAudit(c) ==
    LET hash == Len(auditEntries) + 1 IN
    /\ session[c].at = "append"
    /\ auditEntries' = Append(auditEntries, [prev |-> session[c].prev, hash |-> hash,
                               what |-> session[c].what, id |-> session[c].id])
    /\ head' = hash
    /\ lockedBy' = lockedBy \ {c}
    /\ Become(c, Away)
    /\ UNCHANGED <<alert, incident, changes, unaudited>>

\* A request ends between two transactions, or inside one that rolls back: the
\* database or the process fails, or the client is gone.  What it has committed
\* stays, without its entry.
Owing == {c \in Clients : session[c].at \in {"link", "audit", "append"}}
RequestFails(c) ==
    /\ \/ session[c].at = "gather" /\ unaudited' = unaudited
       \/ c \in Owing /\ unaudited < MaxUnaudited /\ unaudited' = unaudited + 1
    /\ lockedBy' = lockedBy \ {c}
    /\ Become(c, Away)
    /\ UNCHANGED <<alert, incident, auditEntries, head, changes>>

-----------------------------------------------------------------------------
DeskNext ==
    \/ \E e \in Events : UpsertAlert(e)
    \/ \E c \in Clients :
          \/ \E a \in Alerts : GetAlertRow(c, a)
          \/ \E i \in Incidents : GetIncidentRow(c, i)
          \/ UpdateAlert(c) \/ UpdateIncident(c) \/ Leave(c)
          \/ CreateIncident(c) \/ GetAlert(c) \/ InsertIncident(c)
          \/ LinkAlert(c) \/ LinksDone(c)
          \/ LockAuditHead(c) \/ AppendAudit(c) \/ RequestFails(c)

DeskSpec == DeskInit /\ [][DeskNext]_deskVars

-----------------------------------------------------------------------------
\* The audit chain is a chain: the first entry follows the empty hash, each
\* other one the entry before it, and the head is the last (appendAuditTx).
ChainIntact ==
    /\ \A k \in 1..Len(auditEntries) :
          auditEntries[k].prev = IF k = 1 THEN 0 ELSE auditEntries[k - 1].hash
    /\ head = IF auditEntries = <<>> THEN 0 ELSE auditEntries[Len(auditEntries)].hash

\* The audit log accounts for the changes: each has its entry, or a request that
\* is still to write it, or its own request failed between the two; and there is
\* no entry without a change.
AuditAccounts == changes = Len(auditEntries) + Cardinality(Owing) + unaudited

\* An incident is backed by its alerts: they exist and hold its events, and
\* once its creation is audited none of them is left in the queue of new ones,
\* whatever analysts do to them meanwhile.
IncidentIsBacked ==
    /\ \A i \in Rows(incident) :
          /\ incident[i].links \subseteq Rows(alert)
          /\ incident[i].events \subseteq UNION {alert[a].events : a \in incident[i].links}
    /\ \A k \in 1..Len(auditEntries) : auditEntries[k].what = "created" =>
          \A a \in incident[auditEntries[k].id].links : alert[a].status \in {"IN_PROGRESS", "CLOSED"}

\* The entry that says the status after the first n entries of a timeline.
SaysStatus(timeline, n, k) ==
    /\ k \in 1..n /\ timeline[k] # "note"
    /\ \A m \in (k + 1)..n : timeline[m] = "note"

\* A timeline that leads from NEW to a status along IncidentTransitions.
Tells(timeline, status) ==
    /\ timeline # <<>> /\ timeline[1] = "NEW"
    /\ \A n \in 2..Len(timeline) : timeline[n] # "note" =>
          \E k \in 1..(n - 1) : /\ SaysStatus(timeline, n - 1, k)
                                /\ timeline[n] \in IncidentTransitions(timeline[k])
    /\ \E k \in 1..Len(timeline) : /\ SaysStatus(timeline, Len(timeline), k)
                                   /\ timeline[k] = status

\* The timeline tells how an incident came to its status, whoever moved it and
\* with whatever versions.
IncidentStory ==
    \A i \in Rows(incident) :
        /\ Tells(incident[i].timeline, incident[i].status)
        /\ incident[i].acked <=> incident[i].status # "NEW"

\* As long as a row has the version a client saw, it is the row the client saw,
\* although detection, links and other analysts write the same rows: the check
\* of the version protects every decision sent with one.
SeenVersionNamesRow ==
    \A c \in Clients :
        LET view == session[c].view IN
        /\ session[c].at = "alert" /\ alert[session[c].id].version = view.version
              => alert[session[c].id] = view
        /\ session[c].at = "incident" /\ incident[session[c].id].version = view.version
              => incident[session[c].id] = view

\* What the desk keeps is a record one can rely on: the chain of audit entries
\* and the changes they account for, incidents that their alerts back and whose
\* timeline explains them, and versions that protect what a client saw.
DeskKeepsItsRecord ==
    /\ ChainIntact /\ AuditAccounts
    /\ IncidentIsBacked /\ IncidentStory
    /\ SeenVersionNamesRow

\* What the comment on soc.Repository requires, in its weakest form: when no
\* request is under way, each mutation has its audit record.
MutationHasAudit == Owing = {} => Len(auditEntries) = changes

\* What docs/architecture/vertical-slice.md says of creating an incident: one set
\* of alerts is one incident, however often it is asked for.
AlertSetIsIdempotent ==
    \A i, j \in Rows(incident) : incident[i].links = incident[j].links => i = j
=============================================================================
