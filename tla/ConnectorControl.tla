-------------------------- MODULE ConnectorControl --------------------------
(***************************************************************************)
(* The control plane of one SOAR connector: its row, edited through the API*)
(* with optimistic versions; its connection tests, queued by the API and   *)
(* run under a lease by the SOAR workers; and the LIVE calls the workers   *)
(* make with the connector as they last read it.                           *)
(*                                                                         *)
(* An update is two statements (load, then UPDATE ... WHERE version), a    *)
(* test is a claim, a probe outside any transaction and a completion, and  *)
(* a LIVE call is a load, a reservation and the call: every pair of them   *)
(* interleaves.  A configuration is a function from fields to values; an   *)
(* update patches one field and carries the others over from its load.     *)
(***************************************************************************)
EXTENDS Integers, FiniteSets

CONSTANTS
    Workers,     \* SOAR worker processes
    Editors,     \* API requests that edit the connector
    Requests,    \* request_ids of connection tests
    Fields,      \* the fields of a configuration
    Values,      \* the values a field may take
    Valid,       \* the configurations normalizeConnectorDraft accepts
    Anonymous,   \* those of them with auth_type NONE
    Unbound,     \* those that need a secret and have no secret_ref
    Initial,     \* the configuration the connector is created with
    RateLimit,   \* rate_limit_per_minute
    MaxVersion,  \* bound on the versions from which an edit is started
    MaxSlips     \* bound on expired leases and worker stops

ASSUME ControlAssumption ==
    /\ Fields # {} /\ Values # {}
    /\ Valid \subseteq [Fields -> Values]
    /\ Anonymous \subseteq Valid
    /\ Unbound \subseteq Valid \ Anonymous
    /\ Initial \in Valid
    /\ RateLimit \in Nat \ {0} /\ MaxVersion \in Nat /\ MaxSlips \in Nat

VARIABLES
    conn,      \* the connector's row: state, version, configuration
    tests,     \* the row of each connection test
    editor,    \* each edit: the version it was given, the patch, what it loaded
    worker,    \* each worker: what it does and the connector it does it with
    used,      \* calls reserved in the current minute
    slips,     \* expired leases and worker stops so far
    passed,    \* history: configurations that passed a probe
    straddled, \* history: configurations installed while a test was running
    called     \* history: configurations used for LIVE calls

vars == <<conn, tests, editor, worker, used, slips, passed, straddled, called>>
history == <<passed, straddled, called>>

States == {"CONFIGURED", "CREDENTIALS_REQUIRED", "READY", "DEGRADED", "DISABLED"}
Verdicts == {"SUCCEEDED", "FAILED", "CREDENTIALS_REQUIRED"}
Patches == [field : Fields, value : Values]

Conn == [state : States, version : Nat \ {0}, conf : Valid]
Test == [status : {"NONE", "QUEUED", "RUNNING"} \union Verdicts,
         worker : Workers \union {"none"}, leased : BOOLEAN]
Editor == [at : {"away", "sent", "loaded"}, seen : Nat, patch : Patches,
           base : Nat, conf : Valid]
Worker == [at : {"idle", "selected", "probing", "probed", "action", "reserved"},
           test : Requests \union {"none"}, state : States, conf : Valid,
           verdict : Verdicts]

\* The health column follows the state: READY is HEALTHY and so on.
InitialState(conf) ==
    IF conf \in Anonymous THEN "CONFIGURED" ELSE "CREDENTIALS_REQUIRED"

Patched(conf, patch) == [conf EXCEPT ![patch.field] = patch.value]

\* A worker between two jobs, and an edit that is answered or not yet sent.
IdleWorker == [at |-> "idle", test |-> "none", state |-> "DISABLED", conf |-> Initial,
               verdict |-> "FAILED"]
AwayEditor == [at |-> "away", seen |-> 0, patch |-> CHOOSE p \in Patches : TRUE,
               base |-> 0, conf |-> Initial]

Init ==
    /\ conn = [state |-> InitialState(Initial), version |-> 1, conf |-> Initial]
    /\ tests = [r \in Requests |->
                  [status |-> "NONE", worker |-> "none", leased |-> FALSE]]
    /\ editor = [e \in Editors |-> AwayEditor]
    /\ worker = [w \in Workers |-> IdleWorker]
    /\ used = 0 /\ slips = 0
    /\ passed = {} /\ straddled = {} /\ called = {}

Testing == \E r \in Requests : tests[r].status = "RUNNING"

-----------------------------------------------------------------------------
(* Edits.  A client sends a patch and the version it was shown.            *)

SendUpdate(e) ==
    /\ editor[e].at = "away" /\ conn.version <= MaxVersion
    /\ \E p \in Patches :
          editor' = [editor EXCEPT ![e] =
                        [@ EXCEPT !.at = "sent", !.seen = conn.version, !.patch = p]]
    /\ UNCHANGED <<conn, tests, worker, used, slips, history>>

\* UpdateConnector loads the row and merges the patch into it; a disabled
\* connector and a configuration that does not normalise are refused.
UpdateConnector(e) ==
    /\ editor[e].at = "sent"
    /\ \/ /\ conn.state # "DISABLED"
          /\ Patched(conn.conf, editor[e].patch) \in Valid
          /\ editor' = [editor EXCEPT ![e] =
                           [@ EXCEPT !.at = "loaded", !.base = conn.version,
                                     !.conf = Patched(conn.conf, editor[e].patch)]]
       \/ /\ \/ conn.state = "DISABLED"
             \/ Patched(conn.conf, editor[e].patch) \notin Valid
          /\ editor' = [editor EXCEPT ![e] = AwayEditor]
    /\ UNCHANGED <<conn, tests, worker, used, slips, history>>

Installed(e) ==
    [state |-> InitialState(editor[e].conf), version |-> conn.version + 1,
     conf |-> editor[e].conf]

\* Mistake: the version is not compared.
UpdateSOARConnectorUnversioned(e) ==
    /\ editor[e].at = "loaded"
    /\ conn.state # "DISABLED"
    /\ conn' = Installed(e)
    /\ straddled' = IF Testing THEN straddled \union {editor[e].conf} ELSE straddled
    /\ editor' = [editor EXCEPT ![e] = AwayEditor]
    /\ UNCHANGED <<tests, worker, used, slips, passed, called>>

\* The UPDATE of the row the version still names; zero rows is a conflict.
UpdateSOARConnector(e) ==
    /\ editor[e].at = "loaded"
    /\ IF conn.version = editor[e].seen /\ conn.state # "DISABLED"
       THEN /\ conn' = Installed(e)
            /\ straddled' =
                 IF Testing THEN straddled \union {editor[e].conf} ELSE straddled
       ELSE UNCHANGED <<conn, straddled>>
    /\ editor' = [editor EXCEPT ![e] = AwayEditor]
    /\ UNCHANGED <<tests, worker, used, slips, passed, called>>

DisableSOARConnector(e) ==
    /\ editor[e].at = "sent"
    /\ IF conn.version = editor[e].seen /\ conn.state # "DISABLED"
       THEN conn' = [conn EXCEPT !.state = "DISABLED", !.version = conn.version + 1]
       ELSE UNCHANGED conn
    /\ editor' = [editor EXCEPT ![e] = AwayEditor]
    /\ UNCHANGED <<tests, worker, used, slips, history>>

-----------------------------------------------------------------------------
(* Connection tests.                                                       *)

\* The same request_id again finds its row and queues nothing.
CreateSOARConnectorTest(r) ==
    /\ tests[r].status = "NONE" /\ conn.state # "DISABLED"
    /\ tests' = [tests EXCEPT ![r].status = "QUEUED"]
    /\ UNCHANGED <<conn, editor, worker, used, slips, history>>

\* No claim holds the lock of the test's row.
Unlocked(r) ==
    \A w \in Workers : ~(worker[w].at = "selected" /\ worker[w].test = r)

\* The SELECT ... FOR UPDATE SKIP LOCKED of the claim.  It locks the test's
\* row and not the connector's.
SelectTest(w, r) ==
    /\ worker[w].at = "idle" /\ conn.state # "DISABLED"
    /\ \/ tests[r].status = "QUEUED"
       \/ tests[r].status = "RUNNING" /\ ~tests[r].leased
    /\ Unlocked(r)
    /\ worker' = [worker EXCEPT ![w] = [@ EXCEPT !.at = "selected", !.test = r]]
    /\ UNCHANGED <<conn, tests, editor, used, slips, history>>

\* The rest of the claim's transaction: the lease, and the connector as it
\* is by now.
ClaimSOARConnectorTest(w) ==
    /\ worker[w].at = "selected"
    /\ tests' = [tests EXCEPT ![worker[w].test] =
                   [status |-> "RUNNING", worker |-> w, leased |-> TRUE]]
    /\ worker' = [worker EXCEPT ![w] =
                    [@ EXCEPT !.at = "probing", !.state = conn.state, !.conf = conn.conf]]
    /\ UNCHANGED <<conn, editor, used, slips, history>>

\* The answers of TestConnector for a connector it was handed; the external
\* system and the secret provider decide among the possible ones.
TestVerdicts(state, conf) ==
    IF state = "DISABLED" THEN {"FAILED"}
    ELSE IF conf \in Unbound THEN {"CREDENTIALS_REQUIRED"}
    ELSE IF conf \in Anonymous THEN {"SUCCEEDED", "FAILED"}
    ELSE Verdicts

TestConnector(w) ==
    /\ worker[w].at = "probing"
    /\ \E v \in TestVerdicts(worker[w].state, worker[w].conf) :
          /\ worker' = [worker EXCEPT ![w] = [@ EXCEPT !.at = "probed", !.verdict = v]]
          /\ passed' = IF v = "SUCCEEDED" THEN passed \union {worker[w].conf}
                                          ELSE passed
    /\ UNCHANGED <<conn, tests, editor, used, slips, straddled, called>>

StateAfter(verdict) ==
    CASE verdict = "SUCCEEDED" -> "READY"
      [] verdict = "CREDENTIALS_REQUIRED" -> "CREDENTIALS_REQUIRED"
      [] OTHER -> "DEGRADED"

\* The test's verdict on the connector, whatever configuration it has now.
Tested(verdict) ==
    [conn EXCEPT !.state = IF conn.state = "DISABLED" THEN "DISABLED"
                                                      ELSE StateAfter(verdict),
                 !.version = conn.version + 1]

\* Only the worker the row names completes the test, once no claim holds the
\* row; the connector's row is updated in the same transaction.
FinishSOARConnectorTest(w) ==
    LET r == worker[w].test IN
    /\ worker[w].at = "probed" /\ Unlocked(r)
    /\ IF tests[r].status = "RUNNING" /\ tests[r].worker = w
       THEN /\ tests' = [tests EXCEPT ![r] =
                            [@ EXCEPT !.status = worker[w].verdict, !.leased = FALSE]]
            /\ conn' = Tested(worker[w].verdict)
       ELSE UNCHANGED <<tests, conn>>
    /\ worker' = [worker EXCEPT ![w] = IdleWorker]
    /\ UNCHANGED <<editor, used, slips, history>>

\* A lease runs out; nothing renews it.
LeaseExpires(r) ==
    /\ tests[r].leased /\ slips < MaxSlips
    /\ tests' = [tests EXCEPT ![r].leased = FALSE]
    /\ slips' = slips + 1
    /\ UNCHANGED <<conn, editor, worker, used, history>>

\* A worker stops; an open transaction rolls back with it.  Its leases run out
\* by themselves.
WorkerStops(w) ==
    /\ worker[w].at # "idle" /\ slips < MaxSlips
    /\ worker' = [worker EXCEPT ![w] = IdleWorker]
    /\ tests' = [r \in Requests |->
                   IF tests[r].worker = w THEN [tests[r] EXCEPT !.leased = FALSE]
                                          ELSE tests[r]]
    /\ slips' = slips + 1
    /\ UNCHANGED <<conn, editor, used, history>>

-----------------------------------------------------------------------------
(* LIVE calls.                                                             *)

\* Execute loads the connector; one that is not READY fails the action.
Execute(w) ==
    /\ worker[w].at = "idle"
    /\ conn.state = "READY"
    /\ worker' = [worker EXCEPT ![w] =
                    [@ EXCEPT !.at = "action", !.state = conn.state, !.conf = conn.conf]]
    /\ UNCHANGED <<conn, tests, editor, used, slips, history>>

\* One atomic upsert counts the call; a spent window refuses it.
ReserveSOARConnectorCall(w) ==
    /\ worker[w].at = "action"
    /\ IF used < RateLimit
       THEN /\ used' = used + 1
            /\ worker' = [worker EXCEPT ![w].at = "reserved"]
       ELSE /\ worker' = [worker EXCEPT ![w] = IdleWorker]
            /\ UNCHANGED used
    /\ UNCHANGED <<conn, tests, editor, slips, history>>

CallConnector(w) ==
    /\ worker[w].at = "reserved"
    /\ called' = called \union {worker[w].conf}
    /\ worker' = [worker EXCEPT ![w] = IdleWorker]
    /\ UNCHANGED <<conn, tests, editor, used, slips, passed, straddled>>

NextMinute ==
    /\ used > 0 /\ used' = 0
    /\ UNCHANGED <<conn, tests, editor, worker, slips, history>>

-----------------------------------------------------------------------------
RunTests(w) ==
    \/ \E r \in Requests : SelectTest(w, r)
    \/ ClaimSOARConnectorTest(w) \/ TestConnector(w) \/ FinishSOARConnectorTest(w)

RunAction(w) == Execute(w) \/ ReserveSOARConnectorCall(w) \/ CallConnector(w)

Edit(e) ==
    \/ SendUpdate(e) \/ UpdateConnector(e) \/ UpdateSOARConnector(e)
    \/ DisableSOARConnector(e)

Next ==
    \/ \E e \in Editors : Edit(e)
    \/ \E r \in Requests : CreateSOARConnectorTest(r) \/ LeaseExpires(r)
    \/ \E w \in Workers : RunTests(w) \/ RunAction(w) \/ WorkerStops(w)
    \/ NextMinute

Spec == Init /\ [][Next]_vars

-----------------------------------------------------------------------------
\* Every row and request has a value of its type, and the reservations of a
\* minute stay within the connector's limit.
TypeOK ==
    /\ conn \in Conn
    /\ tests \in [Requests -> Test]
    /\ editor \in [Editors -> Editor]
    /\ worker \in [Workers -> Worker]
    /\ used \in 0..RateLimit
    /\ slips \in 0..MaxSlips
    /\ passed \subseteq Valid /\ straddled \subseteq Valid /\ called \subseteq Valid

\* Every change of the stored configuration is one edit's patch applied to the
\* configuration it replaces: concurrent edits, and the version bumps of test
\* results, never make an update write back a field it did not patch.
NoLostUpdate ==
    [][conn'.conf # conn.conf =>
         \E e \in Editors :
            /\ editor[e].at = "loaded"
            /\ conn'.conf = Patched(conn.conf, editor[e].patch)]_vars

\* A disabled connector stays disabled: neither an edit that was loaded before,
\* nor the result of a test that was running, brings it back.
DisabledIsFinal == [][conn.state = "DISABLED" => conn'.state = "DISABLED"]_vars

\* A recorded verdict is final: a worker that lost its lease cannot replace it,
\* and a completed test is not claimed again.
VerdictIsFinal ==
    [][\A r \in Requests : tests[r].status \in Verdicts => tests'[r] = tests[r]]_vars

\* A LIVE call uses a configuration that passed a test, or one that replaced
\* another while a test of it was running: the race of an edit with a running
\* test is the only way past the health check of Execute.
CallsAreTestedOrRaced == called \subseteq passed \union straddled
=============================================================================
