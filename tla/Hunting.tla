------------------------------- MODULE Hunting -------------------------------
(***************************************************************************)
(* A hunt reads the stored events page by page while processors store      *)
(* more of them and others expire.  A page ends in a cursor: the time and  *)
(* the id of its last event and the hash of the query.                     *)
(* internal/hunt/query.go, internal/store/clickhouse.go,                   *)
(* internal/httpapi/hunt.go.                                               *)
(*                                                                         *)
(* A time is what the driver writes into a statement, for an event, a      *)
(* range and a cursor alike.  What an expression is and says of the fields *)
(* of an event is HuntQuery's.                                             *)
(***************************************************************************)
EXTENDS Integers, Sequences, FiniteSets

CONSTANTS
    StoredEvents,       \* set of [id, time, version, fields] that arrive: delivered again, an event
                        \* has the id, the time and the fields it had, and a later version
    HuntRequests,       \* set of [start, end, lookback, limit, expression]
    HuntTimes,          \* the times at which a hunt starts
    HuntWriters,
    MaximumWindow,
    Accepts(_),         \* the validation accepts an expression
    Meets(_, _),        \* the condition compiled from an expression holds of the fields of an event
    Means(_, _)         \* the expression holds of them, as the hunter reads it

(* A limit is between one and a thousand, or the default.  An expression   *)
(* that was accepted is compiled to what it means: HuntQuery.              *)
ASSUME HuntAssumption ==
    /\ \A e \in StoredEvents : e.id \in Nat /\ e.time \in Nat /\ e.version \in Nat
    /\ \A e, f \in StoredEvents : e.id = f.id => e.time = f.time /\ e.fields = f.fields
    /\ \A e, f \in StoredEvents : e.id = f.id /\ e.version = f.version => e = f
    /\ \A q \in HuntRequests : q.limit \in Nat \ {0}
    /\ \A q \in HuntRequests : \A x \in q.expression : \A e \in StoredEvents :
          Accepts(x) => (Meets(x, e.fields) <=> Means(x, e.fields))

VARIABLES
    eventRows,    \* rows of normalized_events, before they are merged
    putting,      \* writer -> the event it found missing, if any
    hunt          \* the session of the hunter, with what has been there since its first page

huntVars == <<eventRows, putting, hunt>>

NoHunt == [at |-> "idle"]
HuntInit ==
    /\ eventRows = {} /\ hunt = NoHunt
    /\ putting = [w \in HuntWriters |-> {}]

-----------------------------------------------------------------------------
(* Storing.  The look-up and the insert are two statements: two writers    *)
(* may both insert, and a read merges the rows of an id into the one with  *)
(* the highest version.                                                    *)
visible == {row \in eventRows : \A other \in eventRows : other.id = row.id => other.version <= row.version}
GetEvent(id) == {row \in visible : row.id = id}

PutEvent(w, event) ==
    /\ putting[w] = {} /\ GetEvent(event.id) = {}
    /\ putting' = [putting EXCEPT ![w] = {event}]
    /\ UNCHANGED <<eventRows, hunt>>
InsertEvent(w) ==
    /\ putting[w] # {}
    /\ eventRows' = eventRows \cup putting[w]
    /\ putting' = [putting EXCEPT ![w] = {}]
    /\ UNCHANGED hunt
Expires(id) ==
    /\ GetEvent(id) # {} /\ hunt.at = "paging"
    /\ eventRows' = {row \in eventRows : row.id # id}
    /\ hunt' = [hunt EXCEPT !.kept = {row \in @ : row.id # id}]
    /\ UNCHANGED putting

-----------------------------------------------------------------------------
(* A request without a time range is given one that ends now. *)
Normalize(q, now) ==
    LET end == IF q.lookback > 0 THEN now ELSE q.end
        start == IF q.lookback > 0 THEN now - q.lookback ELSE q.start
    IN IF end - start \in 1 .. MaximumWindow /\ end <= now + 1
          /\ \A x \in q.expression : Accepts(x)
       THEN {[start |-> start, end |-> end, limit |-> q.limit, expression |-> q.expression]} ELSE {}

-----------------------------------------------------------------------------
before(r, s) == r.time > s.time \/ (r.time = s.time /\ r.id > s.id)
onlyEarlier(row, cursor) == \A c \in cursor : row.time < c.time   \* mutant: the cursor forgets the id
afterCursor(row, cursor) == \A c \in cursor : before(c, row)

matching(q, cursor) ==
    {row \in visible : /\ q.start <= row.time /\ row.time < q.end
                       /\ \A x \in q.expression : Meets(x, row.fields)
                       /\ afterCursor(row, cursor)}

(* One row more than the limit is read: it only says that there is more.   *)
place(row, rows) == Cardinality({s \in rows : before(s, row)}) + 1
page(q, cursor) ==
    LET rows == matching(q, cursor)
        more == Cardinality(rows) > q.limit
        count == IF more THEN q.limit ELSE Cardinality(rows)
        items == [i \in 1 .. count |-> CHOOSE row \in rows : place(row, rows) = i]
    IN [items |-> items, cursor |-> IF more THEN {[time |-> items[count].time, id |-> items[count].id]} ELSE {}]

hunted(q, found, seen, kept) ==
    hunt' = [at |-> IF found.cursor = {} THEN "done" ELSE "paging", query |-> q,
             cursor |-> found.cursor, seen |-> seen \o found.items, kept |-> kept]

(* HuntEvents, and the record and the audit of the execution; when one of  *)
(* them fails there is no page, and the hunter asks again.                 *)
searchHunt(q, now) ==
    /\ hunt.at = "idle"
    /\ \E n \in Normalize(q, now) : hunted(n, page(n, {}), <<>>, visible)
    /\ UNCHANGED <<eventRows, putting>>
(* A cursor is taken only with the query it belongs to, times and limit    *)
(* included. *)
nextPage ==
    /\ hunt.at = "paging"
    /\ hunted(hunt.query, page(hunt.query, hunt.cursor), hunt.seen, hunt.kept)
    /\ UNCHANGED <<eventRows, putting>>

HuntNext ==
    \/ \E w \in HuntWriters : (\E event \in StoredEvents : PutEvent(w, event)) \/ InsertEvent(w)
    \/ \E row \in eventRows : Expires(row.id)
    \/ \E q \in HuntRequests, now \in HuntTimes : searchHunt(q, now)
    \/ nextPage

HuntSpec == HuntInit /\ [][HuntNext]_huntVars

-----------------------------------------------------------------------------
wanted(row) ==
    /\ hunt.query.start <= row.time /\ row.time < hunt.query.end
    /\ \A x \in hunt.query.expression : Means(x, row.fields)

(* While events are stored and expire between the pages of a hunt          *)
(* (HuntEvents and its cursor), the pages run backwards in time without    *)
(* a repetition, hold only what the query means, and, once they have       *)
(* ended, all of it that was there at the first page and ever since: also  *)
(* where a page ends between events of the same time.                      *)
HuntIsComplete ==
    hunt.at \in {"paging", "done"} =>
        /\ \A i \in 1 .. Len(hunt.seen) - 1 : before(hunt.seen[i], hunt.seen[i + 1])
        /\ \A i \in DOMAIN hunt.seen : wanted(hunt.seen[i])
        /\ hunt.at = "done" =>
              \A row \in hunt.kept : wanted(row) => \E i \in DOMAIN hunt.seen : hunt.seen[i].id = row.id
=============================================================================
