----------------------- MODULE SoarConcurrencyProofs -----------------------
(***************************************************************************)
(* SOAR under concurrency, for every set of workers, edits and tests and   *)
(* every graph: the control plane of a connector, store transactions whose *)
(* statements interleave at READ COMMITTED, and the LIVE calls.            *)
(***************************************************************************)
EXTENDS MCSoarConcurrency, TLAPS

-----------------------------------------------------------------------------
(* The control plane.  An update is safe because of two comparisons of       *)
(* versions: the client's is at most the one the edit loads (EditsAreBased), *)
(* and the UPDATE asks for the client's.  When it succeeds the row is the    *)
(* one that was loaded.  A verdict is final because a claim locks a row that *)
(* is open and a completion waits for the lock (ClaimsAreOpen).              *)

\* What an edit holds: the version it was given is not above the row's, and if
\* the row is still at the version it loaded, it holds that row, patched.
EditsAreBased ==
    \A e \in Editors :
       /\ editor[e].at \in {"sent", "loaded"} => editor[e].seen <= conn.version
       /\ editor[e].at = "loaded" =>
             /\ editor[e].seen <= editor[e].base /\ editor[e].base <= conn.version
             /\ editor[e].base = conn.version =>
                   editor[e].conf = Patched(conn.conf, editor[e].patch)

\* What a worker holds: a test it selected is open, a test it runs is known,
\* and a test with a verdict has no lease.
ClaimsAreOpen ==
    /\ \A w \in Workers :
          /\ worker[w].at \in {"selected", "probing", "probed"} =>
                worker[w].test \in Requests
          /\ worker[w].at = "selected" =>
                tests[worker[w].test].status \in {"QUEUED", "RUNNING"}
    /\ \A r \in Requests : tests[r].status \in Verdicts => ~tests[r].leased

\* The inductive invariant of the control plane.
ControlInv == TypeOK /\ EditsAreBased /\ ClaimsAreOpen

\* The values a worker and an edit rest at are of their types.
LEMMA RestingFacts ==
  /\ IdleWorker \in Worker /\ IdleWorker.at = "idle"
  /\ AwayEditor \in Editor /\ AwayEditor.at = "away"
<1> USE ControlAssumption
<1>1. (CHOOSE p \in Patches : TRUE) \in Patches
  <2>1. PICK f \in Fields, v \in Values : TRUE
    OBVIOUS
  <2>2. [field |-> f, value |-> v] \in Patches
    BY DEF Patches
  <2> QED
    BY <2>2
<1>2. IdleWorker \in Worker /\ IdleWorker.at = "idle"
  BY DEF IdleWorker, Worker, Verdicts, States
<1> DEFINE p0 == CHOOSE p \in Patches : TRUE
<1>3. p0 \in Patches
  BY <1>1
<1>4. AwayEditor = [at |-> "away", seen |-> 0, patch |-> p0, base |-> 0, conf |-> Initial]
  BY DEF AwayEditor
<1> HIDE DEF p0
<1>5. AwayEditor \in Editor /\ AwayEditor.at = "away"
  BY <1>3, <1>4 DEF Editor
<1> QED
  BY <1>2, <1>5

\* The connector as it is created (CreateSOARConnector).
LEMMA ControlInit == Init => ControlInv
<1> SUFFICES ASSUME Init PROVE ControlInv
  OBVIOUS
<1> USE ControlAssumption
<1>2. InitialState(Initial) \in States
  BY DEF InitialState, States
<1>3. conn \in Conn
  BY <1>2 DEF Init, Conn
<1>4. tests \in [Requests -> Test]
  <2>1. [status |-> "NONE", worker |-> "none", leased |-> FALSE] \in Test
    BY DEF Test
  <2> QED
    BY <2>1 DEF Init
<1>5. editor \in [Editors -> Editor]
  BY RestingFacts DEF Init
<1>6. worker \in [Workers -> Worker]
  BY RestingFacts DEF Init
<1>7. TypeOK
  BY <1>3, <1>4, <1>5, <1>6 DEF Init, TypeOK
<1>8. EditsAreBased /\ ClaimsAreOpen
  BY RestingFacts DEF Init, EditsAreBased, ClaimsAreOpen, Verdicts
<1> QED
  BY <1>7, <1>8 DEF ControlInv

\* An edit before its UPDATE, and a reservation, a call or a minute, leave the
\* rows alone.
LEMMA EditSteps ==
  ASSUME ControlInv, NEW e \in Editors,
         SendUpdate(e) \/ UpdateConnector(e)
  PROVE  ControlInv'
<1> USE ControlAssumption
<1>0. /\ TypeOK /\ EditsAreBased /\ ClaimsAreOpen
      /\ UNCHANGED <<conn, tests, worker, used, slips, history>>
  BY DEF ControlInv, SendUpdate, UpdateConnector
<1>t. /\ conn \in Conn /\ conn.version \in Nat /\ conn.conf \in Valid
      /\ editor \in [Editors -> Editor]
  BY <1>0 DEF TypeOK, Conn
<1>1. CASE SendUpdate(e)
  <2>1. PICK p \in Patches :
          editor' = [editor EXCEPT ![e] = [@ EXCEPT !.at = "sent",
                        !.seen = conn.version, !.patch = p]]
    BY <1>1 DEF SendUpdate
  <2>2. editor' \in [Editors -> Editor]
    <3>1. [editor[e] EXCEPT !.at = "sent", !.seen = conn.version, !.patch = p] \in Editor
      BY <1>t DEF Editor
    <3> QED
      BY <2>1, <3>1, <1>t
  <2>3. TypeOK'
    BY <2>2, <1>0 DEF TypeOK, history
  <2>4. EditsAreBased'
    BY <2>1, <1>0, <1>t DEF EditsAreBased, Editor
  <2>5. ClaimsAreOpen'
    BY <1>0 DEF ClaimsAreOpen
  <2> QED
    BY <2>3, <2>4, <2>5 DEF ControlInv
<1>2. CASE UpdateConnector(e)
  <2>0. editor[e] \in Editor
    BY <1>t
  <2>1. CASE editor' = [editor EXCEPT ![e] = AwayEditor]
    <3>1. editor' \in [Editors -> Editor]
      BY <2>1, <1>t, RestingFacts
    <3>2. EditsAreBased'
      BY <2>1, <1>0, <1>t, RestingFacts DEF EditsAreBased
    <3> QED
      BY <3>1, <3>2, <1>0 DEF TypeOK, ClaimsAreOpen, ControlInv, history
  <2>2. CASE /\ editor[e].at = "sent"
             /\ Patched(conn.conf, editor[e].patch) \in Valid
             /\ editor' = [editor EXCEPT ![e] = [@ EXCEPT !.at = "loaded",
                   !.base = conn.version,
                   !.conf = Patched(conn.conf, editor[e].patch)]]
    <3> DEFINE c == Patched(conn.conf, editor[e].patch)
    <3>0. /\ c \in Valid
          /\ editor' = [editor EXCEPT ![e] = [@ EXCEPT !.at = "loaded",
                          !.base = conn.version, !.conf = c]]
      BY <2>2
    <3>x. editor[e].seen <= conn.version
      BY <1>0, <2>2 DEF EditsAreBased
    <3>p. editor'[e].patch = editor[e].patch
      BY <2>0, <1>t, <3>0 DEF Editor
    <3>c. c = Patched(conn.conf, editor'[e].patch)
      BY <3>p
    <3> HIDE DEF c
    <3>1. editor' \in [Editors -> Editor]
      BY <3>0, <2>0, <1>t DEF Editor
    <3>2. ASSUME NEW f \in Editors PROVE
            /\ (editor'[f].at \in {"sent", "loaded"} => editor'[f].seen <= conn.version)
            /\ (editor'[f].at = "loaded" =>
                  /\ editor'[f].seen <= editor'[f].base
                  /\ editor'[f].base <= conn.version
                  /\ (editor'[f].base = conn.version =>
                        editor'[f].conf = Patched(conn.conf, editor'[f].patch)))
      <4>1. CASE f = e
        BY <4>1, <3>0, <3>x, <3>c, <2>0, <1>t DEF Editor
      <4>2. CASE f # e
        <5>1. editor'[f] = editor[f]
          BY <4>2, <3>0, <1>t
        <5> QED
          BY <5>1, <1>0 DEF EditsAreBased
      <4> QED
        BY <4>1, <4>2
    <3>3. EditsAreBased'
      BY <3>2, <1>0 DEF EditsAreBased
    <3> QED
      BY <3>1, <3>3, <1>0 DEF TypeOK, ClaimsAreOpen, ControlInv, history
  <2> QED
    BY <1>2, <2>1, <2>2 DEF UpdateConnector
<1> QED
  BY <1>1, <1>2

\* An UPDATE that matches its row writes the patched row it loaded; one that
\* disables the connector, and one that matches nothing, keep the configuration.
LEMMA RowSteps ==
  ASSUME ControlInv, NEW e \in Editors,
         UpdateSOARConnector(e) \/ DisableSOARConnector(e)
  PROVE  /\ ControlInv'
         /\ conn'.conf # conn.conf =>
              /\ editor[e].at = "loaded"
              /\ conn'.conf = Patched(conn.conf, editor[e].patch)
<1> USE ControlAssumption
<1>0. /\ TypeOK /\ EditsAreBased /\ ClaimsAreOpen
      /\ UNCHANGED <<tests, worker, used, slips, passed, called>>
  BY DEF ControlInv, UpdateSOARConnector, DisableSOARConnector, history
<1>t. /\ conn \in Conn /\ conn.version \in Nat /\ conn.conf \in Valid
      /\ editor \in [Editors -> Editor] /\ straddled \subseteq Valid
      /\ editor[e].conf \in Valid
  BY <1>0 DEF TypeOK, Conn, Editor
<1>1. editor' = [editor EXCEPT ![e] = AwayEditor]
  BY DEF UpdateSOARConnector, DisableSOARConnector
<1>2. editor' \in [Editors -> Editor] /\ editor'[e].at = "away"
  BY <1>1, <1>t, RestingFacts
<1>3. ClaimsAreOpen'
  BY <1>0 DEF ClaimsAreOpen
<1>4. CASE UNCHANGED <<conn, straddled>>
  <2>1. TypeOK'
    BY <1>4, <1>0, <1>2 DEF TypeOK
  <2>2. EditsAreBased'
    BY <1>4, <1>0, <1>1, <1>2, <1>t DEF EditsAreBased, Editor
  <2> QED
    BY <1>3, <1>4, <2>1, <2>2 DEF ControlInv
<1>5. CASE /\ editor[e].at = "loaded" /\ conn.version = editor[e].seen
           /\ conn' = Installed(e) /\ straddled' \subseteq Valid
  <2>1. editor[e].conf = Patched(conn.conf, editor[e].patch)
    <3>1. editor[e].seen \in Nat /\ editor[e].base \in Nat
      BY <1>t DEF Editor
    <3>2. /\ editor[e].seen <= editor[e].base /\ editor[e].base <= conn.version
          /\ editor[e].base = conn.version =>
                editor[e].conf = Patched(conn.conf, editor[e].patch)
      BY <1>0, <1>5 DEF EditsAreBased
    <3> QED
      BY <3>1, <3>2, <1>5, <1>t
  <2>2. conn' \in Conn /\ conn'.version = conn.version + 1
        /\ conn'.conf = editor[e].conf
    BY <1>5, <1>t DEF Installed, Conn, InitialState, States
  <2>3. TypeOK'
    BY <1>0, <1>2, <1>5, <2>2 DEF TypeOK
  <2>4. EditsAreBased'
    BY <1>0, <1>1, <1>2, <1>t, <2>2 DEF EditsAreBased, Editor
  <2> QED
    BY <1>3, <1>5, <2>1, <2>2, <2>3, <2>4 DEF ControlInv
<1>6. CASE /\ UNCHANGED straddled
           /\ conn' = [conn EXCEPT !.state = "DISABLED", !.version = conn.version + 1]
  <2>0. conn.version + 1 \in Nat \ {0} /\ "DISABLED" \in States
    BY <1>t DEF States
  <2>1. conn' \in Conn /\ conn'.version = conn.version + 1 /\ conn'.conf = conn.conf
    BY <1>6, <1>t, <2>0 DEF Conn
  <2>2. TypeOK'
    BY <1>0, <1>2, <1>6, <2>1 DEF TypeOK
  <2>3. EditsAreBased'
    BY <1>0, <1>1, <1>2, <1>t, <2>1 DEF EditsAreBased, Editor
  <2> QED
    BY <1>3, <2>1, <2>2, <2>3 DEF ControlInv
<1>7. CASE UpdateSOARConnector(e)
  BY <1>4, <1>5, <1>7, <1>t DEF UpdateSOARConnector
<1>8. CASE DisableSOARConnector(e)
  BY <1>4, <1>6, <1>8 DEF DisableSOARConnector, history
<1> QED
  BY <1>7, <1>8

\* Steps of a worker that leave the connector and the test rows alone.
LEMMA ReadSteps ==
  ASSUME ControlInv, NEW w \in Workers,
         \/ \E r \in Requests : SelectTest(w, r)
         \/ TestConnector(w) \/ Execute(w)
         \/ ReserveSOARConnectorCall(w) \/ CallConnector(w)
  PROVE  ControlInv'
<1> USE ControlAssumption
<1>0. /\ TypeOK /\ EditsAreBased /\ ClaimsAreOpen
      /\ UNCHANGED <<conn, tests, editor, slips, straddled>>
  BY DEF ControlInv, SelectTest, TestConnector, Execute,
         ReserveSOARConnectorCall, CallConnector, history
<1>t. /\ conn \in Conn /\ conn.state \in States /\ conn.conf \in Valid
      /\ worker \in [Workers -> Worker] /\ worker[w] \in Worker
      /\ used \in 0..RateLimit
      /\ passed \subseteq Valid /\ called \subseteq Valid
  BY <1>0 DEF TypeOK, Conn
<1>1. EditsAreBased'
  BY <1>0 DEF EditsAreBased
<1>2. SUFFICES /\ worker' \in [Workers -> Worker] /\ used' \in 0..RateLimit
               /\ passed' \subseteq Valid /\ called' \subseteq Valid
               /\ ClaimsAreOpen'
  BY <1>0, <1>1 DEF TypeOK, ControlInv
<1>3. CASE \E r \in Requests : SelectTest(w, r)
  <2>1. PICK r \in Requests : SelectTest(w, r)
    BY <1>3
  <2>2. /\ worker' = [worker EXCEPT ![w] = [@ EXCEPT !.at = "selected", !.test = r]]
        /\ tests[r].status \in {"QUEUED", "RUNNING"}
        /\ UNCHANGED <<used, passed, called>>
    BY <2>1 DEF SelectTest, history
  <2>3. worker' \in [Workers -> Worker]
    BY <2>2, <1>t DEF Worker
  <2>4. ClaimsAreOpen'
    BY <2>2, <1>0, <1>t DEF ClaimsAreOpen, Worker
  <2> QED
    BY <2>2, <2>3, <2>4, <1>t
<1>4. CASE TestConnector(w)
  <2>1. PICK v \in Verdicts :
          /\ worker' = [worker EXCEPT ![w] = [@ EXCEPT !.at = "probed", !.verdict = v]]
          /\ passed' = IF v = "SUCCEEDED" THEN passed \union {worker[w].conf} ELSE passed
    BY <1>4 DEF TestConnector, TestVerdicts, Verdicts
  <2>2. worker[w].at = "probing" /\ UNCHANGED <<used, called>>
    BY <1>4 DEF TestConnector
  <2>3. worker' \in [Workers -> Worker]
    BY <2>1, <1>t DEF Worker
  <2>4. ClaimsAreOpen'
    BY <2>1, <2>2, <1>0, <1>t DEF ClaimsAreOpen, Worker
  <2>5. passed' \subseteq Valid
    BY <2>1, <1>t DEF Worker
  <2> QED
    BY <2>2, <2>3, <2>4, <2>5, <1>t
<1>5. CASE Execute(w)
  <2>1. /\ worker' = [worker EXCEPT ![w] = [@ EXCEPT !.at = "action",
                         !.state = conn.state, !.conf = conn.conf]]
        /\ UNCHANGED <<used, passed, called>>
    BY <1>5 DEF Execute, history
  <2>2. worker' \in [Workers -> Worker]
    BY <2>1, <1>t DEF Worker
  <2>3. ClaimsAreOpen'
    BY <2>1, <1>0, <1>t DEF ClaimsAreOpen, Worker
  <2> QED
    BY <2>1, <2>2, <2>3, <1>t
<1>6. CASE ReserveSOARConnectorCall(w)
  <2>1. used' \in 0..RateLimit
    BY <1>6, <1>t DEF ReserveSOARConnectorCall
  <2>2. worker' \in [Workers -> Worker] /\ ClaimsAreOpen'
    <3>1. CASE worker' = [worker EXCEPT ![w].at = "reserved"]
      <4>1. worker' \in [Workers -> Worker]
        BY <3>1, <1>t DEF Worker
      <4> QED
        BY <3>1, <4>1, <1>0, <1>t DEF ClaimsAreOpen, Worker
    <3>2. CASE worker' = [worker EXCEPT ![w] = IdleWorker]
      BY <3>2, <1>0, <1>t, RestingFacts DEF ClaimsAreOpen
    <3> QED
      BY <1>6, <3>1, <3>2 DEF ReserveSOARConnectorCall
  <2> QED
    BY <1>6, <2>1, <2>2, <1>t DEF ReserveSOARConnectorCall, history
<1>7. CASE CallConnector(w)
  <2>1. /\ worker' = [worker EXCEPT ![w] = IdleWorker]
        /\ called' = called \union {worker[w].conf}
        /\ UNCHANGED <<used, passed>>
    BY <1>7 DEF CallConnector
  <2>2. worker' \in [Workers -> Worker]
    BY <2>1, <1>t, RestingFacts
  <2>3. ClaimsAreOpen'
    BY <2>1, <1>0, <1>t, RestingFacts DEF ClaimsAreOpen, Worker
  <2>4. called' \subseteq Valid
    BY <2>1, <1>t DEF Worker
  <2> QED
    BY <2>1, <2>2, <2>3, <2>4, <1>t
<1> QED
  BY <1>3, <1>4, <1>5, <1>6, <1>7

\* A claim opens the lease of a test that is open.
LEMMA ClaimStep ==
  ASSUME ControlInv, NEW w \in Workers, ClaimSOARConnectorTest(w)
  PROVE  /\ ControlInv'
         /\ \A r \in Requests : tests[r].status \in Verdicts => tests'[r] = tests[r]
<1> USE ControlAssumption
<1> DEFINE t == worker[w].test
<1>0. /\ TypeOK /\ EditsAreBased /\ ClaimsAreOpen
      /\ UNCHANGED <<conn, editor, used, slips, passed, straddled, called>>
  BY DEF ControlInv, ClaimSOARConnectorTest, history
<1>t. /\ conn \in Conn /\ conn.state \in States /\ conn.conf \in Valid
      /\ worker \in [Workers -> Worker] /\ worker[w] \in Worker
      /\ tests \in [Requests -> Test]
  BY <1>0 DEF TypeOK, Conn
<1>1. /\ worker[w].at = "selected"
      /\ tests' = [tests EXCEPT ![t] =
                     [status |-> "RUNNING", worker |-> w, leased |-> TRUE]]
      /\ worker' = [worker EXCEPT ![w] = [@ EXCEPT !.at = "probing",
                      !.state = conn.state, !.conf = conn.conf]]
  BY DEF ClaimSOARConnectorTest
<1>2. t \in Requests /\ tests[t].status \in {"QUEUED", "RUNNING"}
  BY <1>0, <1>1 DEF ClaimsAreOpen
<1>3. [status |-> "RUNNING", worker |-> w, leased |-> TRUE] \in Test
  BY DEF Test
<1>4. tests' \in [Requests -> Test]
  BY <1>1, <1>3, <1>t
<1>5. worker' \in [Workers -> Worker]
  BY <1>1, <1>t DEF Worker
<1>6. worker'[w].test = t /\ worker'[w].at = "probing"
  BY <1>1, <1>t DEF Worker
<1>7. \A v \in Workers : v # w => worker'[v] = worker[v]
  BY <1>1, <1>t
<1>8. \A r \in Requests : r # t => tests'[r] = tests[r]
  BY <1>1, <1>t
<1>9. tests'[t].status = "RUNNING"
  BY <1>1, <1>2, <1>t
<1> HIDE DEF t
<1>10. ClaimsAreOpen'
  BY <1>0, <1>2, <1>6, <1>7, <1>8, <1>9 DEF ClaimsAreOpen, Verdicts
<1>11. TypeOK' /\ EditsAreBased'
  BY <1>0, <1>4, <1>5 DEF TypeOK, EditsAreBased
<1> QED
  BY <1>2, <1>8, <1>10, <1>11 DEF ControlInv, Verdicts

\* A completion waits for the row's lock, so no claim has selected the test; a
\* refused one changes no row.
LEMMA FinishStep ==
  ASSUME ControlInv, NEW w \in Workers, FinishSOARConnectorTest(w)
  PROVE  /\ ControlInv'
         /\ \A r \in Requests : tests[r].status \in Verdicts => tests'[r] = tests[r]
         /\ conn'.conf = conn.conf
         /\ conn.state = "DISABLED" => conn'.state = "DISABLED"
<1> USE ControlAssumption
<1> DEFINE t == worker[w].test
           v == worker[w].verdict
<1>0. /\ TypeOK /\ EditsAreBased /\ ClaimsAreOpen
      /\ UNCHANGED <<editor, used, slips, passed, straddled, called>>
  BY DEF ControlInv, FinishSOARConnectorTest, history
<1>t. /\ conn \in Conn /\ conn.state \in States /\ conn.conf \in Valid
      /\ conn.version \in Nat
      /\ editor \in [Editors -> Editor]
      /\ worker \in [Workers -> Worker] /\ worker[w] \in Worker
      /\ tests \in [Requests -> Test] /\ v \in Verdicts
  BY <1>0 DEF TypeOK, Conn, Worker
<1>1. /\ worker[w].at = "probed" /\ Unlocked(t)
      /\ worker' = [worker EXCEPT ![w] = IdleWorker]
  BY DEF FinishSOARConnectorTest
<1>2. t \in Requests
  BY <1>0, <1>1 DEF ClaimsAreOpen
<1>3. worker' \in [Workers -> Worker] /\ worker'[w].at = "idle"
  BY <1>1, <1>t, RestingFacts
<1>4. \A u \in Workers : u # w => worker'[u] = worker[u]
  BY <1>1, <1>t
<1>5. CASE UNCHANGED <<tests, conn>>
  <2>1. ClaimsAreOpen'
    BY <1>0, <1>3, <1>4, <1>5 DEF ClaimsAreOpen
  <2>2. TypeOK' /\ EditsAreBased'
    BY <1>0, <1>3, <1>5 DEF TypeOK, EditsAreBased
  <2> QED
    BY <1>5, <2>1, <2>2 DEF ControlInv
<1>6. CASE /\ tests[t].status = "RUNNING"
           /\ tests' = [tests EXCEPT ![t] = [@ EXCEPT !.status = v, !.leased = FALSE]]
           /\ conn' = Tested(v)
  <2>1. tests[t] \in Test
    BY <1>2, <1>t
  <2>2. /\ tests' \in [Requests -> Test]
        /\ \A r \in Requests : r # t => tests'[r] = tests[r]
    BY <1>6, <1>t, <2>1 DEF Test
  <2>3. tests'[t].leased = FALSE
    BY <1>6, <1>2, <1>t, <2>1 DEF Test
  <2>4. StateAfter(v) \in States
    BY <1>t DEF StateAfter, Verdicts, States
  <2>5. /\ conn' \in Conn /\ conn'.version = conn.version + 1
        /\ conn'.conf = conn.conf
        /\ conn.state = "DISABLED" => conn'.state = "DISABLED"
    <3> DEFINE n == IF conn.state = "DISABLED" THEN "DISABLED" ELSE StateAfter(v)
    <3>1. n \in States /\ conn.version + 1 \in Nat \ {0}
      BY <2>4, <1>t DEF States
    <3>2. conn' = [conn EXCEPT !.state = n, !.version = conn.version + 1]
      BY <1>6 DEF Tested
    <3>3. conn.state = "DISABLED" => n = "DISABLED"
      OBVIOUS
    <3> HIDE DEF n
    <3> QED
      BY <3>1, <3>2, <3>3, <1>t DEF Conn
  <2>6. \A u \in Workers : u # w /\ worker[u].at = "selected" => worker[u].test # t
    BY <1>1 DEF Unlocked
  <2> HIDE DEF t
  <2>7. ClaimsAreOpen'
    BY <1>0, <1>3, <1>4, <2>2, <2>3, <2>6 DEF ClaimsAreOpen
  <2>8. EditsAreBased'
    BY <1>0, <1>t, <2>5 DEF EditsAreBased, Editor
  <2>9. TypeOK'
    BY <1>0, <1>3, <2>2, <2>5 DEF TypeOK
  <2> QED
    BY <1>6, <2>2, <2>5, <2>7, <2>8, <2>9 DEF ControlInv, Verdicts
<1> QED
  BY <1>5, <1>6 DEF FinishSOARConnectorTest

\* A queued test, a lease that runs out and a worker that stops.
LEMMA LeaseSteps ==
  ASSUME ControlInv,
         \/ \E r \in Requests : CreateSOARConnectorTest(r) \/ LeaseExpires(r)
         \/ \E w \in Workers : WorkerStops(w)
  PROVE  /\ ControlInv'
         /\ \A r \in Requests : tests[r].status \in Verdicts => tests'[r] = tests[r]
<1> USE ControlAssumption
<1>0. /\ TypeOK /\ EditsAreBased /\ ClaimsAreOpen
      /\ UNCHANGED <<conn, editor, used, passed, straddled, called>>
  BY DEF ControlInv, CreateSOARConnectorTest, LeaseExpires, WorkerStops, history
<1>t. /\ worker \in [Workers -> Worker] /\ tests \in [Requests -> Test]
      /\ slips \in 0..MaxSlips
  BY <1>0 DEF TypeOK
<1>1. EditsAreBased'
  BY <1>0 DEF EditsAreBased
<1>2. SUFFICES /\ tests' \in [Requests -> Test] /\ worker' \in [Workers -> Worker]
               /\ slips' \in 0..MaxSlips /\ ClaimsAreOpen'
               /\ \A r \in Requests : tests[r].status \in Verdicts => tests'[r] = tests[r]
  BY <1>0, <1>1 DEF TypeOK, ControlInv
<1>3. ASSUME NEW r \in Requests, CreateSOARConnectorTest(r)
      PROVE  /\ tests' \in [Requests -> Test] /\ worker' \in [Workers -> Worker]
             /\ slips' \in 0..MaxSlips /\ ClaimsAreOpen'
             /\ \A s \in Requests : tests[s].status \in Verdicts => tests'[s] = tests[s]
  <2>1. /\ tests' = [tests EXCEPT ![r].status = "QUEUED"]
        /\ tests[r].status = "NONE" /\ UNCHANGED <<worker, slips>>
    BY <1>3 DEF CreateSOARConnectorTest
  <2>2. tests' \in [Requests -> Test]
    BY <2>1, <1>t DEF Test
  <2>3. tests'[r].status = "QUEUED" /\ \A s \in Requests : s # r => tests'[s] = tests[s]
    BY <2>1, <1>t DEF Test
  <2>4. ClaimsAreOpen'
    BY <2>1, <2>3, <1>0 DEF ClaimsAreOpen, Verdicts
  <2> QED
    BY <2>1, <2>2, <2>3, <2>4, <1>t DEF Verdicts
<1>4. ASSUME NEW r \in Requests, LeaseExpires(r)
      PROVE  /\ tests' \in [Requests -> Test] /\ worker' \in [Workers -> Worker]
             /\ slips' \in 0..MaxSlips /\ ClaimsAreOpen'
             /\ \A s \in Requests : tests[s].status \in Verdicts => tests'[s] = tests[s]
  <2>1. /\ tests' = [tests EXCEPT ![r].leased = FALSE]
        /\ tests[r].leased /\ UNCHANGED worker /\ slips' = slips + 1 /\ slips < MaxSlips
    BY <1>4 DEF LeaseExpires
  <2>2. tests[r].status \notin Verdicts
    BY <2>1, <1>0 DEF ClaimsAreOpen
  <2>3. tests' \in [Requests -> Test]
    BY <2>1, <1>t DEF Test
  <2>4. /\ tests'[r].status = tests[r].status
        /\ \A s \in Requests : s # r => tests'[s] = tests[s]
    BY <2>1, <1>t DEF Test
  <2>5. ClaimsAreOpen'
    BY <2>1, <2>2, <2>4, <1>0 DEF ClaimsAreOpen
  <2>6. slips' \in 0..MaxSlips
    BY <2>1, <1>t
  <2> QED
    BY <2>1, <2>2, <2>3, <2>4, <2>5, <2>6, <1>t
<1>5. ASSUME NEW w \in Workers, WorkerStops(w)
      PROVE  /\ tests' \in [Requests -> Test] /\ worker' \in [Workers -> Worker]
             /\ slips' \in 0..MaxSlips /\ ClaimsAreOpen'
             /\ \A s \in Requests : tests[s].status \in Verdicts => tests'[s] = tests[s]
  <2>1. /\ worker' = [worker EXCEPT ![w] = IdleWorker]
        /\ tests' = [r \in Requests |->
                       IF tests[r].worker = w THEN [tests[r] EXCEPT !.leased = FALSE]
                                              ELSE tests[r]]
        /\ slips' = slips + 1 /\ slips < MaxSlips
    BY <1>5 DEF WorkerStops
  <2>2. worker' \in [Workers -> Worker] /\ worker'[w].at = "idle"
        /\ \A u \in Workers : u # w => worker'[u] = worker[u]
    BY <2>1, <1>t, RestingFacts
  <2>3. ASSUME NEW r \in Requests
        PROVE  /\ tests'[r] \in Test /\ tests'[r].status = tests[r].status
               /\ (~tests[r].leased => tests'[r] = tests[r])
               /\ (~tests[r].leased => ~tests'[r].leased)
    <3>1. tests[r] \in Test /\ tests[r].leased \in BOOLEAN
      BY <1>t DEF Test
    <3>2. CASE tests[r].worker = w
      <4>1. tests'[r] = [tests[r] EXCEPT !.leased = FALSE]
        BY <2>1, <3>2
      <4>2. tests'[r] \in Test /\ tests'[r].status = tests[r].status
        BY <3>1, <4>1 DEF Test
      <4>3. ASSUME ~tests[r].leased PROVE tests'[r] = tests[r]
        <5>1. tests[r].leased = FALSE
          BY <3>1, <4>3
        <5> QED
          BY <3>1, <4>1, <5>1 DEF Test
      <4> QED
        BY <4>2, <4>3
    <3>3. CASE tests[r].worker # w
      BY <2>1, <3>1, <3>3
    <3> QED
      BY <3>2, <3>3
  <2>4. tests' \in [Requests -> Test]
    BY <2>1, <2>3
  <2>5. ClaimsAreOpen'
    BY <2>2, <2>3, <1>0 DEF ClaimsAreOpen
  <2>6. slips' \in 0..MaxSlips
    BY <2>1, <1>t
  <2>7. \A s \in Requests : tests[s].status \in Verdicts => tests'[s] = tests[s]
    BY <2>3, <1>0 DEF ClaimsAreOpen
  <2> QED
    BY <2>2, <2>4, <2>5, <2>6, <2>7
<1> QED
  BY <1>3, <1>4, <1>5

\* Everything a step may do: it keeps the invariant, and it changes the
\* configuration, a disabled connector or a verdict only as the properties say.
LEMMA ControlStep ==
  ASSUME ControlInv, [Next]_vars
  PROVE  /\ ControlInv'
         /\ \A r \in Requests : tests[r].status \in Verdicts => tests'[r] = tests[r]
         /\ conn.state = "DISABLED" => conn'.state = "DISABLED"
         /\ conn'.conf # conn.conf =>
              \E e \in Editors :
                 /\ editor[e].at = "loaded"
                 /\ conn'.conf = Patched(conn.conf, editor[e].patch)
<1>1. CASE \E e \in Editors : Edit(e)
  <2>1. PICK e \in Editors : Edit(e)
    BY <1>1
  <2>2. CASE SendUpdate(e) \/ UpdateConnector(e)
    BY <2>2, EditSteps DEF SendUpdate, UpdateConnector
  <2>3. CASE UpdateSOARConnector(e) \/ DisableSOARConnector(e)
    <3>1. UNCHANGED tests
      BY <2>3 DEF UpdateSOARConnector, DisableSOARConnector
    <3>2. conn.state = "DISABLED" => UNCHANGED conn
      BY <2>3 DEF UpdateSOARConnector, DisableSOARConnector
    <3> QED
      BY <2>3, <3>1, <3>2, RowSteps
  <2> QED
    BY <2>1, <2>2, <2>3 DEF Edit
<1>2. CASE \E w \in Workers : RunTests(w) \/ RunAction(w)
  <2>1. PICK w \in Workers : RunTests(w) \/ RunAction(w)
    BY <1>2
  <2>2. CASE \/ \E r \in Requests : SelectTest(w, r)
             \/ TestConnector(w) \/ Execute(w)
             \/ ReserveSOARConnectorCall(w) \/ CallConnector(w)
    <3>1. UNCHANGED <<conn, tests>>
      BY <2>2 DEF SelectTest, TestConnector, Execute, ReserveSOARConnectorCall,
                  CallConnector
    <3>2. ControlInv'
      BY <2>2, ReadSteps
    <3> QED
      BY <3>1, <3>2
  <2>3. CASE ClaimSOARConnectorTest(w)
    <3>1. UNCHANGED conn
      BY <2>3 DEF ClaimSOARConnectorTest
    <3> QED
      BY <2>3, <3>1, ClaimStep
  <2>4. CASE FinishSOARConnectorTest(w)
    BY <2>4, FinishStep
  <2> QED
    BY <2>1, <2>2, <2>3, <2>4 DEF RunTests, RunAction
<1>3. CASE \/ \E r \in Requests : CreateSOARConnectorTest(r) \/ LeaseExpires(r)
           \/ \E w \in Workers : WorkerStops(w)
  <2>1. UNCHANGED conn
    BY <1>3 DEF CreateSOARConnectorTest, LeaseExpires, WorkerStops
  <2> QED
    BY <1>3, <2>1, LeaseSteps
<1>4. CASE NextMinute \/ UNCHANGED vars
  <2>1. UNCHANGED <<conn, tests, editor, worker, slips, passed, straddled, called>>
    BY <1>4 DEF NextMinute, vars, history
  <2>2. used' \in 0..RateLimit
    BY <1>4, ControlAssumption DEF NextMinute, vars, ControlInv, TypeOK
  <2>3. ControlInv'
    BY <2>1, <2>2 DEF ControlInv, TypeOK, EditsAreBased, ClaimsAreOpen
  <2> QED
    BY <2>1, <2>3
<1> QED
  BY <1>1, <1>2, <1>3, <1>4 DEF Next

\* The inductive invariant holds in every behaviour of the control plane.
THEOREM ControlInvHolds == Spec => []ControlInv
<1>1. ControlInv /\ [Next]_vars => ControlInv'
  BY ControlStep
<1> QED
  BY ControlInit, <1>1, PTL DEF Spec

\* No update of the connector's row is lost to another one: UpdateConnector's
\* load and its UPDATE are as good as one atomic step.
THEOREM UpdatesAreNotLost == Spec => NoLostUpdate
<1>1. ControlInv /\ [Next]_vars =>
        [conn'.conf # conn.conf =>
           \E e \in Editors :
              /\ editor[e].at = "loaded"
              /\ conn'.conf = Patched(conn.conf, editor[e].patch)]_vars
  BY ControlStep
<1> QED
  BY ControlInvHolds, <1>1, PTL DEF Spec, NoLostUpdate

\* A connector an operator disabled is never enabled again by a late edit or a
\* late test result.
THEOREM DisabledStaysDisabled == Spec => DisabledIsFinal
<1>1. ControlInv /\ [Next]_vars =>
        [conn.state = "DISABLED" => conn'.state = "DISABLED"]_vars
  BY ControlStep
<1> QED
  BY ControlInvHolds, <1>1, PTL DEF Spec, DisabledIsFinal

\* The recorded verdict of a connection test is never replaced, whoever still
\* runs it.
THEOREM VerdictsAreFinal == Spec => VerdictIsFinal
<1>1. ControlInv /\ [Next]_vars =>
        [\A r \in Requests : tests[r].status \in Verdicts => tests'[r] = tests[r]]_vars
  BY ControlStep
<1> QED
  BY ControlInvHolds, <1>1, PTL DEF Spec, VerdictIsFinal

-----------------------------------------------------------------------------
(* Transactions.  What carries the argument is that a row a transaction has  *)
(* written was active when it locked it and stays so, in the committed rows, *)
(* until it commits. So the execution of an open transaction has not ended,  *)
(* no node of it has failed, and the active rows of an execution only become *)
(* fewer under a transaction that is cancelling them.                        *)

Writings == UNION {[S -> NodeStatuses] : S \in SUBSET Nodes}

Transactions ==
    [pc : {"promote", "promoting", "cancel", "cancelling", "mark"}, exec : Executions,
     writes : Writings, todo : SUBSET Nodes, verdict : ExecutionStatuses]

\* The node rows r as a transaction x sees them.
Seen(r, x) == [n \in Nodes |-> IF n \in DOMAIN x.writes THEN x.writes[n] ELSE r[n]]

TxType ==
    /\ rows \in [Nodes -> NodeStatuses] /\ execRow \in [Executions -> ExecutionStatuses]
    /\ tx \in [Txns -> {NoTx} \cup Transactions]

\* The rows a transaction has written are active rows of its execution.
WritesActive(r, x) ==
    /\ DOMAIN x.writes # {} /\ DOMAIN x.writes \subseteq NodesOf(x.exec) /\ x.todo \subseteq NodesOf(x.exec)
    /\ \A n \in DOMAIN x.writes : r[n] \in ActiveStatuses

\* What it starts, or is about to start, has its dependencies done.
WritesOrdered(r, x) ==
    /\ \A n \in DOMAIN x.writes : x.writes[n] \notin {"PENDING", "CANCELLED"} => \A d \in Deps[n] : Seen(r, x)[d] = "SUCCEEDED"
    /\ x.pc = "promoting" => \A n \in x.todo : \A d \in Deps[n] : Seen(r, x)[d] = "SUCCEEDED"

\* Its verdict is the one its rows call for.
VerdictFits(r, x) ==
    /\ x.pc \in {"cancel", "cancelling"} => x.verdict = "FAILED" /\ \E n \in DOMAIN x.writes : x.writes[n] = "FAILED"
    /\ x.pc = "cancelling" => ActiveNodes(Seen(r, x), x.exec) \subseteq x.todo
    /\ x.pc = "mark" =>
          /\ x.verdict # "FAILED" /\ \A n \in DOMAIN x.writes : x.writes[n] # "FAILED"
          /\ x.verdict = "SUCCEEDED" => ActiveNodes(Seen(r, x), x.exec) = {}

Sound(r, x) == WritesActive(r, x) /\ WritesOrdered(r, x) /\ VerdictFits(r, x)

TxSound == \A t \in Txns : Open(t) => Sound(rows, tx[t])

WritesApart == \A t, u \in Txns : t # u /\ Open(t) /\ Open(u) => DOMAIN tx[t].writes \cap DOMAIN tx[u].writes = {}

IsolationInv == TxType /\ TxSound /\ WritesApart /\ CommittedRowsAgree

-----------------------------------------------------------------------------
\* The stages of a transaction are those of an open one, and what it has
\* written are statuses of nodes.
LEMMA OpenTransaction ==
  ASSUME TxType, NEW t \in Txns
  PROVE  /\ Open(t) <=> tx[t] \in Transactions
         /\ tx[t].pc \in {"promote", "promoting", "cancel", "cancelling", "mark"} => Open(t)
         /\ Open(t) => /\ DOMAIN tx[t].writes \subseteq Nodes
                       /\ \A n \in DOMAIN tx[t].writes : tx[t].writes[n] \in NodeStatuses
                       /\ tx[t].exec \in Executions /\ tx[t].todo \subseteq Nodes
                       /\ View(t) = Seen(rows, tx[t])
<1>1. Open(t) <=> tx[t] \in Transactions
  BY DEF TxType, Open, NoTx, Transactions
<1>2. tx[t].pc \in {"promote", "promoting", "cancel", "cancelling", "mark"} => Open(t)
  BY DEF Open, NoTx
<1>3. ASSUME Open(t)
      PROVE  /\ DOMAIN tx[t].writes \subseteq Nodes
             /\ \A n \in DOMAIN tx[t].writes : tx[t].writes[n] \in NodeStatuses
             /\ tx[t].exec \in Executions /\ tx[t].todo \subseteq Nodes
  BY <1>1, <1>3 DEF Transactions, Writings
<1>4. Open(t) => View(t) = Seen(rows, tx[t])
  BY DEF View, Seen, Wrote
<1> QED
  BY <1>1, <1>2, <1>3, <1>4

\* The execution of an open transaction has not ended.
LEMMA OpenExecution ==
  ASSUME IsolationInv, NEW t \in Txns, Open(t)
  PROVE  execRow[tx[t].exec] \notin TerminalExecution /\ ~HasFailed(rows, tx[t].exec)
<1>1. PICK n \in DOMAIN tx[t].writes : n \in NodesOf(tx[t].exec) /\ rows[n] \in ActiveStatuses
  BY DEF IsolationInv, TxSound, Sound, WritesActive
<1>2. tx[t].exec \in Executions
  BY OpenTransaction DEF IsolationInv
<1> QED
  BY <1>1, <1>2 DEF IsolationInv, CommittedRowsAgree, CommittedOutcome, ActiveNodes, TerminalExecution

\* No transaction is open at the start.
LEMMA IsolationInit == TxInit => IsolationInv
<1> SUFFICES ASSUME TxInit PROVE IsolationInv
  OBVIOUS
<1>1. TxType /\ TxSound /\ WritesApart
  BY DEF TxInit, TxType, TxSound, WritesApart, Open, NodeStatuses, ExecutionStatuses
<1>2. CommittedRowsAgree
  BY DagAssumption DEF TxInit, CommittedRowsAgree, CommittedOutcome, StartsAfterDependencies, HasFailed, NodesOf, TerminalExecution
<1> QED
  BY <1>1, <1>2 DEF IsolationInv

\* A statement changes only its own transaction.
LEMMA OwnStatement ==
  ASSUME IsolationInv, NEW t \in Txns, NEW new, tx' = [tx EXCEPT ![t] = new], UNCHANGED <<rows, execRow>>,
         \/ new = NoTx
         \/ /\ new \in Transactions /\ Sound(rows, new)
            /\ \A u \in Txns : u # t /\ Open(u) => DOMAIN new.writes \cap DOMAIN tx[u].writes = {}
  PROVE  IsolationInv'
<1>1. tx'[t] = new /\ \A u \in Txns : u # t => tx'[u] = tx[u]
  BY DEF IsolationInv, TxType
<1>2. TxType'
  BY DEF IsolationInv, TxType
<1>3. TxSound'
  BY <1>1 DEF IsolationInv, TxSound, Open
<1>4. WritesApart'
  BY <1>1 DEF IsolationInv, WritesApart, Open
<1>5. CommittedRowsAgree'
  BY DEF IsolationInv, CommittedRowsAgree, CommittedOutcome, StartsAfterDependencies
<1> QED
  BY <1>2, <1>3, <1>4, <1>5 DEF IsolationInv

\* The first UPDATE of a transaction writes its own node row
\* (CompleteSOARNode and the other settlements).
LEMMA SettleStep ==
  ASSUME IsolationInv, NEW t \in Txns, NEW n \in Nodes, NEW move \in Reconciling \cup Marking, SettleRow(t, n, move)
  PROVE  IsolationInv'
<1> DEFINE p == IF move \in Reconciling THEN "promote" ELSE "mark"
           w == [m \in {n} |-> move[2]]
           new == [pc |-> p, exec |-> Execution[n], writes |-> w, todo |-> {}, verdict |-> "RUNNING"]
<1>1. /\ move[1] \in ActiveStatuses \ {"PENDING"} /\ move[2] \in NodeStatuses
      /\ move \notin Reconciling => move[2] # "FAILED"
  BY DEF Reconciling, Marking, ActiveStatuses, NodeStatuses
<1>2. tx' = [tx EXCEPT ![t] = new] /\ UNCHANGED <<rows, execRow>> /\ rows[n] = move[1]
  BY DEF SettleRow
<1>3. /\ new.pc \in {"promote", "mark"} /\ (new.pc = "mark" => move \notin Reconciling)
      /\ new.exec = Execution[n] /\ new.todo = {} /\ new.verdict = "RUNNING"
      /\ DOMAIN new.writes = {n} /\ new.writes[n] = move[2]
  BY <1>1
<1>4. new \in Transactions
  <2>1. w \in Writings /\ Execution[n] \in Executions /\ p \in {"promote", "mark"}
    <3>1. w \in [{n} -> NodeStatuses] /\ {n} \in SUBSET Nodes
      BY <1>1
    <3>2. p \in {"promote", "mark"} /\ Execution[n] \in Executions
      BY DagAssumption
    <3> HIDE DEF w, p
    <3> QED
      BY <3>1, <3>2 DEF Writings
  <2> HIDE DEF w, p
  <2> QED
    BY <2>1 DEF Transactions, ExecutionStatuses
<1>5. \A u \in Txns : u # t /\ Open(u) => DOMAIN new.writes \cap DOMAIN tx[u].writes = {}
  BY <1>3 DEF SettleRow, Locked, Wrote
<1> HIDE DEF new, p, w
<1>6. WritesActive(rows, new)
  BY <1>1, <1>2, <1>3 DEF WritesActive, NodesOf
<1>7. WritesOrdered(rows, new)
  <2>1. \A d \in Deps[n] : d \in Nodes /\ rows[d] = "SUCCEEDED" /\ d # n
    BY <1>1, <1>2, DagAssumption DEF IsolationInv, CommittedRowsAgree, StartsAfterDependencies, ActiveStatuses
  <2> QED
    BY <1>3, <2>1 DEF WritesOrdered, Seen
<1>8. VerdictFits(rows, new)
  BY <1>1, <1>3 DEF VerdictFits
<1> QED
  BY <1>2, <1>4, <1>5, <1>6, <1>7, <1>8, OwnStatement DEF Sound

\* A later statement of a transaction: what it writes it may, and it stays sound.
LEMMA NextStatement ==
  ASSUME IsolationInv, NEW t \in Txns, Open(t), UNCHANGED <<rows, execRow>>,
         NEW pc \in {"promoting", "cancel", "cancelling", "mark"}, NEW ws, NEW todo \in SUBSET Nodes, NEW verdict \in ExecutionStatuses,
         Continue(t, pc, ws, todo, verdict),
         ws \in Writings,
         \A n \in DOMAIN ws : n \in DOMAIN tx[t].writes \/ ~Locked(t, n),
         \A x : /\ x.pc = pc /\ x.exec = tx[t].exec /\ x.writes = ws /\ x.todo = todo /\ x.verdict = verdict => Sound(rows, x)
  PROVE  IsolationInv'
<1> DEFINE new == [pc |-> pc, exec |-> tx[t].exec, writes |-> ws, todo |-> todo, verdict |-> verdict]
<1>1. tx' = [tx EXCEPT ![t] = new]
  BY DEF Continue
<1>2. tx[t].exec \in Executions
  BY OpenTransaction DEF IsolationInv
<1>3. new \in Transactions
  BY <1>2 DEF Transactions
<1>4. new.pc = pc /\ new.exec = tx[t].exec /\ new.writes = ws /\ new.todo = todo /\ new.verdict = verdict
  OBVIOUS
<1> HIDE DEF new
<1>5. Sound(rows, new)
  BY <1>4
<1>6. \A u \in Txns : u # t /\ Open(u) => DOMAIN new.writes \cap DOMAIN tx[u].writes = {}
  BY <1>4 DEF IsolationInv, WritesApart, Locked, Wrote
<1> QED
  BY <1>1, <1>3, <1>5, <1>6, OwnStatement

\* What a transaction has written stays statuses of nodes.
LEMMA WriteFacts ==
  ASSUME IsolationInv, NEW t \in Txns, Open(t), NEW n \in Nodes, NEW st \in NodeStatuses
  PROVE  Write(t, n, st) \in Writings
<1>1. DOMAIN tx[t].writes \subseteq Nodes /\ \A m \in DOMAIN tx[t].writes : tx[t].writes[m] \in NodeStatuses
  BY OpenTransaction DEF IsolationInv
<1>2. Write(t, n, st) \in [DOMAIN tx[t].writes \cup {n} -> NodeStatuses]
  BY <1>1 DEF Write
<1> QED
  BY <1>1, <1>2 DEF Writings

\* The promoting UPDATE takes its snapshot (promoteAndReconcileSOAR).
LEMMA PromoteSnapshotStep ==
  ASSUME IsolationInv, NEW t \in Txns, PromoteSnapshot(t)
  PROVE  IsolationInv'
<1>1. Open(t) /\ tx[t] \in Transactions /\ View(t) = Seen(rows, tx[t])
  BY OpenTransaction DEF IsolationInv, PromoteSnapshot
<1> DEFINE todo == Promotable(View(t), tx[t].exec)
<1>2. todo \in SUBSET Nodes /\ todo \subseteq NodesOf(tx[t].exec) /\ \A n \in todo : \A d \in Deps[n] : View(t)[d] = "SUCCEEDED"
  BY DEF Promotable, NodesOf
<1>3. tx[t].writes \in Writings /\ tx[t].verdict \in ExecutionStatuses
  BY <1>1 DEF Transactions
<1>4. Continue(t, "promoting", tx[t].writes, todo, tx[t].verdict) /\ UNCHANGED <<rows, execRow>>
  BY DEF PromoteSnapshot
<1> HIDE DEF todo
<1>5. ASSUME NEW x, x.pc = "promoting", x.exec = tx[t].exec, x.writes = tx[t].writes, x.todo = todo, x.verdict = tx[t].verdict
      PROVE  Sound(rows, x)
  <2>1. Sound(rows, tx[t]) /\ Seen(rows, x) = Seen(rows, tx[t])
    BY <1>1, <1>5 DEF IsolationInv, TxSound, Seen
  <2> QED
    BY <1>1, <1>2, <1>5, <2>1 DEF Sound, WritesActive, WritesOrdered, VerdictFits
<1> QED
  BY <1>1, <1>2, <1>3, <1>4, <1>5, NextStatement

\* One row of a statement that updates several: the row is free, and if the
\* statement's condition still holds for it, it is written.
LEMMA PromoteRowStep ==
  ASSUME IsolationInv, NEW t \in Txns, NEW n \in Nodes, PromoteRow(t, n)
  PROVE  IsolationInv'
<1> DEFINE w == IF View(t)[n] = "PENDING" THEN Write(t, n, "READY") ELSE tx[t].writes
           todo == tx[t].todo \ {n}
<1>1. /\ Open(t) /\ tx[t] \in Transactions /\ View(t) = Seen(rows, tx[t]) /\ tx[t].pc = "promoting" /\ n \in tx[t].todo
      /\ tx[t].todo \subseteq Nodes /\ DOMAIN tx[t].writes \subseteq Nodes
  BY OpenTransaction DEF IsolationInv, PromoteRow
<1>2. Sound(rows, tx[t]) /\ n \in NodesOf(tx[t].exec)
  BY <1>1 DEF IsolationInv, TxSound, Sound, WritesActive
<1>3. tx[t].writes \in Writings /\ tx[t].verdict \in ExecutionStatuses
  BY <1>1 DEF Transactions
<1>4. Continue(t, "promoting", w, todo, tx[t].verdict) /\ UNCHANGED <<rows, execRow>> /\ ~Locked(t, n)
  BY DEF PromoteRow
<1>5. todo \in SUBSET Nodes /\ todo \subseteq tx[t].todo
  BY <1>1
<1> HIDE DEF todo
<1>6. CASE View(t)[n] # "PENDING"
  <2>1. w = tx[t].writes
    BY <1>6
  <2> HIDE DEF w
  <2>2. ASSUME NEW x, x.pc = "promoting", x.exec = tx[t].exec, x.writes = w, x.todo = todo, x.verdict = tx[t].verdict
        PROVE  Sound(rows, x)
    <3>1. Seen(rows, x) = Seen(rows, tx[t])
      BY <2>1, <2>2 DEF Seen
    <3> QED
      BY <1>1, <1>2, <1>5, <2>1, <2>2, <3>1 DEF Sound, WritesActive, WritesOrdered, VerdictFits
  <2> QED
    BY <1>1, <1>3, <1>4, <1>5, <2>1, <2>2, NextStatement
<1>7. CASE View(t)[n] = "PENDING"
  <2>1. w = Write(t, n, "READY") /\ "READY" \in NodeStatuses
    BY <1>7 DEF NodeStatuses
  <2> HIDE DEF w
  <2>2. /\ w \in Writings /\ DOMAIN w = DOMAIN tx[t].writes \cup {n}
        /\ w[n] = "READY" /\ \A m \in DOMAIN tx[t].writes : m # n => w[m] = tx[t].writes[m]
    <3>1. Open(t) /\ "READY" \in NodeStatuses
      BY <1>1, <2>1
    <3>2. Write(t, n, "READY") \in Writings
      BY <3>1, WriteFacts
    <3>3. /\ DOMAIN w = DOMAIN tx[t].writes \cup {n}
          /\ w[n] = "READY" /\ \A m \in DOMAIN tx[t].writes : m # n => w[m] = tx[t].writes[m]
      BY <2>1 DEF Write
    <3> QED
      BY <3>2, <3>3, <2>1
  <2>3. rows[n] \in ActiveStatuses
    BY <1>1, <1>2, <1>7 DEF Seen, Sound, WritesActive, ActiveStatuses
  <2>4. ASSUME NEW x, x.pc = "promoting", x.exec = tx[t].exec, x.writes = w, x.todo = todo, x.verdict = tx[t].verdict
        PROVE  Sound(rows, x)
    <3>1. /\ Seen(rows, x)[n] = "READY" /\ Seen(rows, tx[t])[n] = "PENDING"
          /\ \A m \in Nodes : m # n => Seen(rows, x)[m] = Seen(rows, tx[t])[m]
      BY <1>1, <1>7, <2>2, <2>4 DEF Seen
    <3>2. WritesActive(rows, x)
      BY <1>2, <1>5, <2>2, <2>3, <2>4 DEF Sound, WritesActive
    <3>3. \A m \in Nodes : \A d \in Deps[m] : Seen(rows, tx[t])[d] = "SUCCEEDED" => Seen(rows, x)[d] = "SUCCEEDED"
      BY <3>1, DagAssumption
    <3>4. WritesOrdered(rows, x)
      BY <1>1, <1>2, <1>5, <2>2, <2>4, <3>3 DEF Sound, WritesOrdered
    <3>5. VerdictFits(rows, x)
      BY <2>4 DEF VerdictFits
    <3> QED
      BY <3>2, <3>4, <3>5 DEF Sound
  <2>5. \A m \in DOMAIN w : m \in DOMAIN tx[t].writes \/ ~Locked(t, m)
    BY <1>4, <2>2
  <2> QED
    BY <1>1, <1>3, <1>4, <1>5, <2>2, <2>4, <2>5, NextStatement
<1> QED
  BY <1>6, <1>7

\* The cancelling UPDATE reaches a row, which it checks again under its lock.
LEMMA CancelRowStep ==
  ASSUME IsolationInv, NEW t \in Txns, NEW n \in Nodes, CancelRow(t, n)
  PROVE  IsolationInv'
<1> DEFINE w == IF View(t)[n] \in ActiveStatuses THEN Write(t, n, "CANCELLED") ELSE tx[t].writes
           todo == tx[t].todo \ {n}
<1>1. /\ Open(t) /\ tx[t] \in Transactions /\ View(t) = Seen(rows, tx[t]) /\ tx[t].pc = "cancelling" /\ n \in tx[t].todo
      /\ tx[t].todo \subseteq Nodes /\ DOMAIN tx[t].writes \subseteq Nodes
  BY OpenTransaction DEF IsolationInv, CancelRow
<1>2. Sound(rows, tx[t]) /\ n \in NodesOf(tx[t].exec)
  BY <1>1 DEF IsolationInv, TxSound, Sound, WritesActive
<1>3. tx[t].writes \in Writings /\ tx[t].verdict \in ExecutionStatuses
  BY <1>1 DEF Transactions
<1>4. Continue(t, "cancelling", w, todo, tx[t].verdict) /\ UNCHANGED <<rows, execRow>> /\ ~Locked(t, n)
  BY DEF CancelRow
<1>5. todo \in SUBSET Nodes /\ todo \subseteq tx[t].todo /\ todo = tx[t].todo \ {n}
  BY <1>1
<1> HIDE DEF todo
<1>6. CASE View(t)[n] \notin ActiveStatuses
  <2>1. w = tx[t].writes
    BY <1>6
  <2> HIDE DEF w
  <2>2. ASSUME NEW x, x.pc = "cancelling", x.exec = tx[t].exec, x.writes = w, x.todo = todo, x.verdict = tx[t].verdict
        PROVE  Sound(rows, x)
    <3>1. Seen(rows, x) = Seen(rows, tx[t])
      BY <2>1, <2>2 DEF Seen
    <3>2. ActiveNodes(Seen(rows, x), x.exec) \subseteq x.todo
      BY <1>1, <1>2, <1>5, <1>6, <2>2, <3>1 DEF Sound, VerdictFits, ActiveNodes
    <3> QED
      BY <1>1, <1>2, <1>5, <2>1, <2>2, <3>1, <3>2 DEF Sound, WritesActive, WritesOrdered, VerdictFits
  <2> QED
    BY <1>1, <1>3, <1>4, <1>5, <2>1, <2>2, NextStatement
<1>7. CASE View(t)[n] \in ActiveStatuses
  <2>1. w = Write(t, n, "CANCELLED") /\ "CANCELLED" \in NodeStatuses
    BY <1>7 DEF NodeStatuses
  <2> HIDE DEF w
  <2>2. /\ w \in Writings /\ DOMAIN w = DOMAIN tx[t].writes \cup {n}
        /\ w[n] = "CANCELLED" /\ \A m \in DOMAIN tx[t].writes : m # n => w[m] = tx[t].writes[m]
    <3>1. Open(t) /\ "CANCELLED" \in NodeStatuses
      BY <1>1, <2>1
    <3>2. Write(t, n, "CANCELLED") \in Writings
      BY <3>1, WriteFacts
    <3>3. /\ DOMAIN w = DOMAIN tx[t].writes \cup {n}
          /\ w[n] = "CANCELLED" /\ \A m \in DOMAIN tx[t].writes : m # n => w[m] = tx[t].writes[m]
      BY <2>1 DEF Write
    <3> QED
      BY <3>2, <3>3, <2>1
  <2>3. rows[n] \in ActiveStatuses
    BY <1>1, <1>2, <1>7 DEF Seen, Sound, WritesActive
  <2>4. ASSUME NEW x, x.pc = "cancelling", x.exec = tx[t].exec, x.writes = w, x.todo = todo, x.verdict = tx[t].verdict
        PROVE  Sound(rows, x)
    <3>1. /\ Seen(rows, x)[n] = "CANCELLED" /\ Seen(rows, tx[t])[n] \in ActiveStatuses
          /\ \A m \in Nodes : m # n => Seen(rows, x)[m] = Seen(rows, tx[t])[m]
      BY <1>1, <1>7, <2>2, <2>4 DEF Seen
    <3>2. WritesActive(rows, x)
      BY <1>2, <1>5, <2>2, <2>3, <2>4 DEF Sound, WritesActive
    <3>3. \A m \in Nodes : \A d \in Deps[m] : Seen(rows, tx[t])[d] = "SUCCEEDED" => Seen(rows, x)[d] = "SUCCEEDED"
      BY <3>1, DagAssumption DEF ActiveStatuses
    <3>4. WritesOrdered(rows, x)
      BY <1>1, <1>2, <1>5, <2>2, <2>4, <3>3 DEF Sound, WritesOrdered
    <3>5. \E m \in DOMAIN x.writes : x.writes[m] = "FAILED"
      <4>1. PICK m \in DOMAIN tx[t].writes : tx[t].writes[m] = "FAILED"
        BY <1>1, <1>2 DEF Sound, VerdictFits
      <4>2. m # n
        BY <1>1, <1>7, <4>1 DEF Seen, ActiveStatuses
      <4> QED
        BY <2>2, <2>4, <4>1, <4>2
    <3>6. ActiveNodes(Seen(rows, x), x.exec) \subseteq x.todo
      BY <1>1, <1>2, <1>5, <2>4, <3>1 DEF Sound, VerdictFits, ActiveNodes, NodesOf, ActiveStatuses
    <3>7. VerdictFits(rows, x)
      BY <1>1, <1>2, <2>4, <3>5, <3>6 DEF Sound, VerdictFits
    <3> QED
      BY <3>2, <3>4, <3>7 DEF Sound
  <2>5. \A m \in DOMAIN w : m \in DOMAIN tx[t].writes \/ ~Locked(t, m)
    BY <1>4, <2>2
  <2> QED
    BY <1>1, <1>3, <1>4, <1>5, <2>2, <2>4, <2>5, NextStatement
<1> QED
  BY <1>6, <1>7

\* The counts: no row of the execution has failed unless this transaction's
\* own has, because its execution has not ended.
LEMMA SummarizeStep ==
  ASSUME IsolationInv, NEW t \in Txns, Summarize(t)
  PROVE  IsolationInv'
<1> DEFINE e == tx[t].exec
           pc == IF HasFailed(View(t), e) THEN "cancel" ELSE "mark"
           verdict == ExecutionVerdict(View(t), e)
<1>1. /\ Open(t) /\ tx[t] \in Transactions /\ View(t) = Seen(rows, tx[t]) /\ tx[t].pc = "promoting"
      /\ DOMAIN tx[t].writes \subseteq Nodes
  BY OpenTransaction DEF IsolationInv, Summarize
<1>2. Sound(rows, tx[t])
  BY <1>1 DEF IsolationInv, TxSound
<1>3. tx[t].writes \in Writings
  BY <1>1 DEF Transactions
<1>4. Continue(t, pc, tx[t].writes, {}, verdict) /\ UNCHANGED <<rows, execRow>>
  BY DEF Summarize
<1>5. /\ verdict \in ExecutionStatuses /\ (HasFailed(View(t), e) <=> verdict = "FAILED")
      /\ verdict = "SUCCEEDED" => ActiveNodes(View(t), e) = {}
  BY DEF ExecutionVerdict, ExecutionStatuses
<1>6. pc \in {"cancel", "mark"} /\ (pc = "cancel" <=> HasFailed(View(t), e))
  OBVIOUS
<1>7. HasFailed(View(t), e) <=> \E n \in DOMAIN tx[t].writes : tx[t].writes[n] = "FAILED"
  <2>1. ~HasFailed(rows, e)
    BY <1>1, OpenExecution
  <2>2. \A n \in DOMAIN tx[t].writes : n \in NodesOf(e) /\ View(t)[n] = tx[t].writes[n]
    BY <1>1, <1>2 DEF Sound, WritesActive, Seen
  <2>3. \A n \in Nodes : n \notin DOMAIN tx[t].writes => View(t)[n] = rows[n]
    BY <1>1 DEF Seen
  <2> QED
    BY <2>1, <2>2, <2>3 DEF HasFailed, NodesOf
<1> HIDE DEF pc, verdict
<1>8. ASSUME NEW x, x.pc = pc, x.exec = tx[t].exec, x.writes = tx[t].writes, x.todo = {}, x.verdict = verdict
      PROVE  Sound(rows, x)
  <2>1. Seen(rows, x) = Seen(rows, tx[t])
    BY <1>8 DEF Seen
  <2>2. VerdictFits(rows, x)
    BY <1>1, <1>5, <1>6, <1>7, <1>8, <2>1 DEF VerdictFits
  <2> QED
    BY <1>2, <1>6, <1>8, <2>1, <2>2 DEF Sound, WritesActive, WritesOrdered
<1> QED
  BY <1>1, <1>3, <1>4, <1>5, <1>6, <1>8, NextStatement

\* The cancelling UPDATE takes its snapshot.
LEMMA CancelSnapshotStep ==
  ASSUME IsolationInv, NEW t \in Txns, CancelSnapshot(t)
  PROVE  IsolationInv'
<1> DEFINE todo == ActiveNodes(View(t), tx[t].exec)
<1>1. Open(t) /\ tx[t] \in Transactions /\ View(t) = Seen(rows, tx[t]) /\ tx[t].pc = "cancel"
  BY OpenTransaction DEF IsolationInv, CancelSnapshot
<1>2. Sound(rows, tx[t])
  BY <1>1 DEF IsolationInv, TxSound
<1>3. tx[t].writes \in Writings /\ tx[t].verdict \in ExecutionStatuses
  BY <1>1 DEF Transactions
<1>4. Continue(t, "cancelling", tx[t].writes, todo, tx[t].verdict) /\ UNCHANGED <<rows, execRow>>
  BY DEF CancelSnapshot
<1>5. todo \in SUBSET Nodes /\ todo \subseteq NodesOf(tx[t].exec) /\ todo = ActiveNodes(Seen(rows, tx[t]), tx[t].exec)
  BY <1>1 DEF ActiveNodes, NodesOf
<1> HIDE DEF todo
<1>6. ASSUME NEW x, x.pc = "cancelling", x.exec = tx[t].exec, x.writes = tx[t].writes, x.todo = todo, x.verdict = tx[t].verdict
      PROVE  Sound(rows, x)
  <2>1. Seen(rows, x) = Seen(rows, tx[t])
    BY <1>6 DEF Seen
  <2> QED
    BY <1>1, <1>2, <1>5, <1>6, <2>1 DEF Sound, WritesActive, WritesOrdered, VerdictFits
<1> QED
  BY <1>1, <1>3, <1>4, <1>5, <1>6, NextStatement

\* A commit changes active rows of its execution only, which no other open
\* transaction has written.
LEMMA CommitChanges ==
  ASSUME IsolationInv, NEW t \in Txns, MarkAndCommit(t)
  PROVE  /\ Open(t) /\ Sound(rows, tx[t]) /\ tx[t].exec \in Executions
         /\ rows' = Seen(rows, tx[t]) /\ rows' \in [Nodes -> NodeStatuses]
         /\ \A n \in Nodes : rows'[n] # rows[n] =>
               n \in DOMAIN tx[t].writes /\ rows[n] \in ActiveStatuses /\ Execution[n] = tx[t].exec
         /\ tx'[t] = NoTx /\ \A u \in Txns : u # t => tx'[u] = tx[u]
<1>1. /\ Open(t) /\ View(t) = Seen(rows, tx[t]) /\ tx[t].exec \in Executions
      /\ DOMAIN tx[t].writes \subseteq Nodes /\ \A n \in DOMAIN tx[t].writes : tx[t].writes[n] \in NodeStatuses
  BY OpenTransaction DEF IsolationInv, MarkAndCommit
<1>2. Sound(rows, tx[t])
  BY <1>1 DEF IsolationInv, TxSound
<1>3. rows' = Seen(rows, tx[t])
  BY <1>1 DEF MarkAndCommit
<1>4. rows' \in [Nodes -> NodeStatuses]
  BY <1>1, <1>3 DEF Seen, IsolationInv, TxType
<1>5. \A n \in Nodes : rows'[n] # rows[n] => n \in DOMAIN tx[t].writes
  BY <1>3 DEF Seen
<1>6. \A n \in DOMAIN tx[t].writes : rows[n] \in ActiveStatuses /\ Execution[n] = tx[t].exec
  BY <1>2 DEF Sound, WritesActive, NodesOf
<1>7. tx'[t] = NoTx /\ \A u \in Txns : u # t => tx'[u] = tx[u]
  BY DEF MarkAndCommit, IsolationInv, TxType
<1> QED
  BY <1>1, <1>2, <1>3, <1>4, <1>5, <1>6, <1>7

\* So the other transactions stay sound: what they have written is still
\* active, what they saw SUCCEEDED still is, and active rows only became fewer.
LEMMA OthersStaySound ==
  ASSUME IsolationInv, NEW t \in Txns, MarkAndCommit(t), NEW u \in Txns, u # t, Open(u)
  PROVE  Sound(rows', tx[u])
<1> DEFINE x == tx[u]
<1>1. \A n \in Nodes : rows'[n] # rows[n] => n \in DOMAIN tx[t].writes /\ rows[n] \in ActiveStatuses
  BY CommitChanges
<1>2. Sound(rows, x) /\ DOMAIN x.writes \cap DOMAIN tx[t].writes = {} /\ DOMAIN x.writes \subseteq Nodes
  BY CommitChanges, OpenTransaction DEF IsolationInv, TxSound, WritesApart
<1>3. \A n \in DOMAIN x.writes : rows'[n] = rows[n]
  BY <1>1, <1>2
<1>4. WritesActive(rows', x)
  BY <1>2, <1>3 DEF Sound, WritesActive
<1>5. \A n \in Nodes : Seen(rows', x)[n] = Seen(rows, x)[n] \/ Seen(rows, x)[n] \in ActiveStatuses
  BY <1>1 DEF Seen
<1>6. \A n \in Nodes : \A d \in Deps[n] : Seen(rows, x)[d] = "SUCCEEDED" => Seen(rows', x)[d] = "SUCCEEDED"
  BY <1>5, DagAssumption DEF ActiveStatuses
<1>7. WritesOrdered(rows', x)
  <2>1. x.todo \subseteq Nodes
    BY OpenTransaction DEF IsolationInv
  <2> QED
    BY <1>2, <1>6, <2>1 DEF Sound, WritesOrdered
<1>8. ActiveNodes(Seen(rows', x), x.exec) \subseteq ActiveNodes(Seen(rows, x), x.exec)
  BY <1>5 DEF ActiveNodes, NodesOf
<1>9. VerdictFits(rows', x)
  BY <1>2, <1>8 DEF Sound, VerdictFits
<1> QED
  BY <1>4, <1>7, <1>9 DEF Sound

\* What a transaction commits agrees with what the others have committed.
LEMMA CommitAgrees ==
  ASSUME IsolationInv, NEW t \in Txns, MarkAndCommit(t)
  PROVE  CommittedRowsAgree'
<1> DEFINE x == tx[t]
           e == tx[t].exec
<1>1. /\ Open(t) /\ Sound(rows, x) /\ e \in Executions /\ rows' = Seen(rows, x)
      /\ \A n \in Nodes : rows'[n] # rows[n] =>
            n \in DOMAIN x.writes /\ rows[n] \in ActiveStatuses /\ Execution[n] = e
  BY CommitChanges
<1>2. execRow' = [execRow EXCEPT ![e] = x.verdict]
  BY DEF MarkAndCommit
<1>3. DOMAIN x.writes \subseteq NodesOf(e) /\ NodesOf(e) \subseteq Nodes
  BY <1>1 DEF Sound, WritesActive, NodesOf
<1>4. (HasFailed(rows', e) <=> x.verdict = "FAILED") /\ (x.verdict \in TerminalExecution => ActiveNodes(rows', e) = {})
  <2>1. CASE x.pc = "mark"
    <3>1. ~HasFailed(rows, e)
      BY <1>1, OpenExecution
    <3>2. \A n \in NodesOf(e) : rows'[n] # "FAILED"
      BY <1>1, <1>3, <2>1, <3>1 DEF Sound, VerdictFits, HasFailed, Seen
    <3> QED
      BY <1>1, <2>1, <3>2 DEF HasFailed, Sound, VerdictFits, TerminalExecution
  <2>2. CASE x.pc = "cancelling" /\ x.todo = {}
    <3>1. PICK n \in DOMAIN x.writes : x.writes[n] = "FAILED"
      BY <1>1, <2>2 DEF Sound, VerdictFits
    <3>2. n \in NodesOf(e) /\ rows'[n] = "FAILED"
      BY <1>1, <1>3, <3>1 DEF Seen
    <3>3. ActiveNodes(rows', e) = {} /\ x.verdict = "FAILED"
      BY <1>1, <2>2 DEF Sound, VerdictFits
    <3> QED
      BY <3>2, <3>3 DEF HasFailed
  <2> QED
    BY <2>1, <2>2 DEF MarkAndCommit
<1>5. CommittedOutcome'
  <2> SUFFICES ASSUME NEW f \in Executions
               PROVE  /\ HasFailed(rows', f) <=> execRow'[f] = "FAILED"
                      /\ execRow'[f] \in TerminalExecution => ActiveNodes(rows', f) = {}
    BY DEF CommittedOutcome
  <2>1. CASE f = e
    BY <1>2, <1>4, <2>1, <1>1 DEF IsolationInv, TxType
  <2>2. CASE f # e
    <3>1. execRow'[f] = execRow[f]
      BY <1>2, <2>2 DEF IsolationInv, TxType
    <3>2. \A n \in NodesOf(f) : rows'[n] = rows[n]
      BY <1>1, <2>2 DEF NodesOf
    <3> QED
      BY <3>1, <3>2 DEF IsolationInv, CommittedRowsAgree, CommittedOutcome, HasFailed, ActiveNodes
  <2> QED
    BY <2>1, <2>2
<1>6. StartsAfterDependencies'
  <2> SUFFICES ASSUME NEW n \in Nodes, rows'[n] \notin {"PENDING", "CANCELLED"}, NEW d \in Deps[n]
               PROVE  rows'[d] = "SUCCEEDED"
    BY DEF StartsAfterDependencies
  <2>1. d \in Nodes
    BY DagAssumption
  <2>2. CASE n \in DOMAIN x.writes
    BY <1>1, <2>2 DEF Sound, WritesOrdered, Seen
  <2>3. CASE n \notin DOMAIN x.writes
    <3>1. rows[d] = "SUCCEEDED"
      BY <1>1, <2>3 DEF IsolationInv, CommittedRowsAgree, StartsAfterDependencies
    <3> QED
      BY <1>1, <2>1, <3>1 DEF ActiveStatuses
  <2> QED
    BY <2>2, <2>3
<1> QED
  BY <1>5, <1>6 DEF CommittedRowsAgree

\* The mark of the execution and the commit keep the invariant.
LEMMA CommitStep ==
  ASSUME IsolationInv, NEW t \in Txns, MarkAndCommit(t)
  PROVE  IsolationInv'
<1>1. /\ Open(t) /\ tx[t].exec \in Executions /\ rows' \in [Nodes -> NodeStatuses]
      /\ tx'[t] = NoTx /\ \A u \in Txns : u # t => tx'[u] = tx[u]
  BY CommitChanges
<1>2. tx[t].verdict \in ExecutionStatuses
  BY <1>1, OpenTransaction DEF IsolationInv, Transactions
<1>3. TxType'
  BY <1>1, <1>2 DEF IsolationInv, TxType, MarkAndCommit
<1>4. TxSound'
  <2> SUFFICES ASSUME NEW u \in Txns, Open(u)' PROVE Sound(rows', tx'[u])
    BY DEF TxSound
  <2>1. u # t /\ tx'[u] = tx[u] /\ Open(u)
    BY <1>1 DEF Open
  <2> QED
    BY <2>1, OthersStaySound
<1>5. WritesApart'
  BY <1>1 DEF IsolationInv, WritesApart, Open
<1> QED
  BY <1>3, <1>4, <1>5, CommitAgrees DEF IsolationInv

\* A transaction that is rolled back leaves no trace.
LEMMA RollbackStep ==
  ASSUME IsolationInv, NEW t \in Txns, Rollback(t)
  PROVE  IsolationInv'
  BY OwnStatement DEF Rollback

\* Whichever statements of concurrent settlements interleave (promoteAnd-
\* ReconcileSOAR at READ COMMITTED), what is committed agrees: a failed node
\* means a FAILED execution, an ended execution has no active row, and no node
\* starts before the nodes it depends on have succeeded.
THEOREM InterleavedCommitsAgree == TxSpec => []CommittedRowsAgree
<1>1. TxInit => IsolationInv
  BY IsolationInit
<1>2. IsolationInv /\ [TxNext]_txVars => IsolationInv'
  <2> SUFFICES ASSUME IsolationInv, [TxNext]_txVars PROVE IsolationInv'
    OBVIOUS
  <2>1. CASE UNCHANGED txVars
    BY <2>1 DEF txVars, IsolationInv, TxType, TxSound, WritesApart, CommittedRowsAgree, CommittedOutcome,
       StartsAfterDependencies, Open
  <2>2. ASSUME NEW t \in Txns, NEW n \in Nodes, NEW move \in Reconciling \cup Marking, SettleRow(t, n, move)
        PROVE  IsolationInv'
    BY <2>2, SettleStep
  <2>3. ASSUME NEW t \in Txns, NEW n \in Nodes, PromoteRow(t, n) \/ CancelRow(t, n)
        PROVE  IsolationInv'
    BY <2>3, PromoteRowStep, CancelRowStep
  <2>4. ASSUME NEW t \in Txns,
               PromoteSnapshot(t) \/ Summarize(t) \/ CancelSnapshot(t) \/ MarkAndCommit(t) \/ Rollback(t)
        PROVE  IsolationInv'
    BY <2>4, PromoteSnapshotStep, SummarizeStep, CancelSnapshotStep, CommitStep, RollbackStep
  <2> QED
    BY <2>1, <2>2, <2>3, <2>4 DEF TxNext
<1>3. IsolationInv => CommittedRowsAgree
  BY DEF IsolationInv
<1> QED
  BY <1>1, <1>2, <1>3, PTL DEF TxSpec
-----------------------------------------------------------------------------
(* LIVE calls.  That a call uses a tested configuration is not inductive:    *)
(* it rests on the row, whose READY comes from a verdict on a configuration  *)
(* that may have been replaced since.  VerdictsFit says what a worker that   *)
(* still owns its test has for the row: the configuration it probes, or one  *)
(* that passed, or one an edit installed under the test.                     *)

\* A configuration a LIVE call may use.
Cleared(conf) == conf \in passed \union straddled

\* A row that is READY, and what a worker took from one, is cleared.
ReadyIsCleared ==
    /\ called \subseteq passed \union straddled
    /\ conn.state = "READY" => Cleared(conn.conf)
    /\ \A w \in Workers :
          worker[w].at \in {"action", "reserved"} => Cleared(worker[w].conf)

\* The worker's test is still its own, so that its verdict will count.
Owns(w) ==
    tests[worker[w].test].status = "RUNNING" /\ tests[worker[w].test].worker = w

VerdictsFit ==
    \A w \in Workers :
       /\ worker[w].at = "probing" /\ Owns(w) =>
             worker[w].conf = conn.conf \/ Cleared(conn.conf)
       /\ worker[w].at = "probed" /\ worker[w].verdict = "SUCCEEDED" /\ Owns(w) =>
             Cleared(conn.conf)

\* The stages of a call before its write, and after it was acknowledged.
Unsent == {"begin", "preflight", "session", "token", "plan", "write"}
Acked == {"verify", "quit", "complete"} \union Successes
CallStages == {"idle", "retry", "fail"} \union Unsent \union Acked \union Errors

CallType ==
    /\ kind \in AllKinds
    /\ attempt \in Nat /\ reclaims \in Nat
    /\ call \in [Callers -> [at : CallStages, attempt : Nat]]
    /\ writes \in Seq([attempt : Nat, outcome : WriteOutcomes])

\* The stages the adapter has.
CallOnPath ==
    \A w \in Callers :
       /\ call[w].at = "session" => kind \in {"SMTP", "LDAP"}
       /\ call[w].at = "token" => kind = "EDR"
       /\ call[w].at = "verify" => kind \notin {"GENERIC", "SMTP"}
       /\ call[w].at = "quit" => kind = "SMTP"

Holds(w) == status = "RUNNING" /\ owner = {w}
Busy(w) == call[w].at # "idle"

\* Every claim has a number of its own, the holder of the lease the last one;
\* only reclaims go beyond the policy, and put a second worker on the node.
ClaimsAreNumbered ==
    /\ \A w \in Callers : Busy(w) => call[w].attempt \in 1..attempt
    /\ \A u, w \in Callers : Busy(u) /\ Busy(w) /\ call[u].attempt = call[w].attempt => u = w
    /\ \A w \in Callers : Busy(w) /\ Holds(w) => call[w].attempt = attempt
    /\ \A w \in Callers : call[w].at = "retry" => call[w].attempt < MaximumAttempts
    /\ reclaims = 0 => \A w \in Callers : Busy(w) => Holds(w)
    /\ attempt <= MaximumAttempts + reclaims
    /\ status = "READY" => attempt < MaximumAttempts

\* A write carries the number of its claim, and a claim writes once.
WritesAreNumbered ==
    /\ \A i, j \in Sent : writes[i].attempt = writes[j].attempt => i = j
    /\ \A i \in Sent : writes[i].attempt \in 1..attempt
    /\ \A w \in Callers : call[w].at \in Unsent =>
          \A i \in Sent : writes[i].attempt # call[w].attempt

\* The external system has acknowledged a write.
Known == \E i \in Sent : writes[i].outcome = "acked"

\* What an acknowledgement leaves behind: without a reclaim, tickets, messages
\* and generic calls never come back to their write.
AcksAreKnown ==
    /\ \A w \in Callers : call[w].at \in Acked => Known
    /\ ledger \in Successes => Known
    /\ status = "SUCCEEDED" => Known
    /\ kind \in WrittenOnce /\ reclaims = 0 /\ Known =>
          /\ status # "READY"
          /\ \A w \in Callers : call[w].at \notin Unsent \union {"transient", "retry"}
    /\ AcknowledgedNotRepeated

\* The invariant of one call.
CallInv == CallType /\ CallOnPath /\ ClaimsAreNumbered /\ WritesAreNumbered /\ AcksAreKnown

\* The inductive invariant of the two parts a LIVE call has.
LiveInv == ControlInv /\ ReadyIsCleared /\ VerdictsFit /\ CallInv

\* A connector is created neither READY nor under a test.
LEMMA ClearedInit == Init => ReadyIsCleared /\ VerdictsFit
BY RestingFacts DEF Init, ReadyIsCleared, VerdictsFit, InitialState

\* An UPDATE installs a row that is not READY; while a test is running its
\* configuration counts as straddled.
LEMMA EditsClear ==
  ASSUME ControlInv, ReadyIsCleared, VerdictsFit, NEW e \in Editors, Edit(e)
  PROVE  ReadyIsCleared' /\ VerdictsFit'
<1>0. UNCHANGED <<tests, worker, passed, called>>
  BY DEF Edit, SendUpdate, UpdateConnector, UpdateSOARConnector, DisableSOARConnector, history
<1>t. conn \in Conn
  BY DEF ControlInv, TypeOK
<1>1. CASE UNCHANGED <<conn, straddled>>
  BY <1>0, <1>1 DEF ReadyIsCleared, VerdictsFit, Cleared, Owns
<1>2. CASE /\ conn' = Installed(e)
           /\ straddled' = IF Testing THEN straddled \union {editor[e].conf} ELSE straddled
  <2>1. conn'.state # "READY" /\ conn'.conf = editor[e].conf
    BY <1>2 DEF Installed, InitialState
  <2>2. straddled \subseteq straddled' /\ (Testing => Cleared(conn.conf)')
    BY <1>2, <2>1 DEF Cleared
  <2>3. ReadyIsCleared'
    BY <1>0, <2>1, <2>2 DEF ReadyIsCleared, Cleared
  <2>4. \A w \in Workers : worker[w].at \in {"probing", "probed"} /\ Owns(w)' => Testing
    BY <1>0 DEF Owns, Testing, ControlInv, ClaimsAreOpen
  <2>5. VerdictsFit'
    BY <1>0, <2>2, <2>4 DEF VerdictsFit
  <2> QED
    BY <2>3, <2>5
<1>3. CASE /\ conn' = [conn EXCEPT !.state = "DISABLED", !.version = conn.version + 1]
           /\ UNCHANGED straddled
  <2>1. conn'.state = "DISABLED" /\ conn'.conf = conn.conf
    BY <1>3, <1>t DEF Conn
  <2> QED
    BY <1>0, <1>3, <2>1 DEF ReadyIsCleared, VerdictsFit, Cleared, Owns
<1> QED
  BY <1>1, <1>2, <1>3 DEF Edit, SendUpdate, UpdateConnector, UpdateSOARConnector,
     DisableSOARConnector, history

\* A claim hands the worker the row as it is; a probe that succeeds clears the
\* configuration it used, and a completion applies to a cleared row.
LEMMA TestsClear ==
  ASSUME ControlInv, ReadyIsCleared, VerdictsFit, NEW w \in Workers, RunTests(w)
  PROVE  ReadyIsCleared' /\ VerdictsFit'
<1>0. UNCHANGED <<straddled, called>>
  BY DEF RunTests, SelectTest, ClaimSOARConnectorTest, TestConnector, FinishSOARConnectorTest, history
<1>t. /\ conn \in Conn /\ worker \in [Workers -> Worker] /\ worker[w] \in Worker
      /\ tests \in [Requests -> Test]
      /\ worker[w].at \in {"selected", "probing", "probed"} => worker[w].test \in Requests
  BY DEF ControlInv, TypeOK, ClaimsAreOpen
<1>1. ASSUME NEW r \in Requests, SelectTest(w, r)
      PROVE  ReadyIsCleared' /\ VerdictsFit'
  <2>1. /\ worker' = [worker EXCEPT ![w] = [@ EXCEPT !.at = "selected", !.test = r]]
        /\ UNCHANGED <<conn, tests, passed>>
    BY <1>1 DEF SelectTest, history
  <2>2. worker'[w].at = "selected" /\ \A u \in Workers : u # w => worker'[u] = worker[u]
    BY <2>1, <1>t DEF Worker
  <2> QED
    BY <1>0, <2>1, <2>2 DEF ReadyIsCleared, VerdictsFit, Cleared, Owns
<1>2. CASE ClaimSOARConnectorTest(w)
  <2> DEFINE t == worker[w].test
  <2>1. /\ worker[w].at = "selected" /\ UNCHANGED <<conn, passed>>
        /\ tests' = [tests EXCEPT ![t] = [status |-> "RUNNING", worker |-> w, leased |-> TRUE]]
        /\ worker' = [worker EXCEPT ![w] = [@ EXCEPT !.at = "probing",
                        !.state = conn.state, !.conf = conn.conf]]
    BY <1>2 DEF ClaimSOARConnectorTest, history
  <2>2. /\ worker'[w].at = "probing" /\ worker'[w].conf = conn.conf
        /\ \A u \in Workers : u # w => worker'[u] = worker[u]
    BY <2>1, <1>t DEF Worker
  <2>3. t \in Requests /\ tests'[t].worker = w
        /\ \A r \in Requests : r # t => tests'[r] = tests[r]
    BY <2>1, <1>t
  <2>4. ReadyIsCleared'
    BY <1>0, <2>1, <2>2 DEF ReadyIsCleared, Cleared
  <2>5. ASSUME NEW u \in Workers, u # w, worker[u].at \in {"probing", "probed"}, Owns(u)'
        PROVE  Owns(u)
    <3>1. worker[u].test \in Requests /\ worker'[u] = worker[u]
      BY <2>2, <2>5 DEF ControlInv, ClaimsAreOpen
    <3>2. worker[u].test # t
      BY <2>3, <2>5, <3>1 DEF Owns
    <3> QED
      BY <2>3, <2>5, <3>1, <3>2 DEF Owns
  <2>6. VerdictsFit'
    BY <1>0, <2>1, <2>2, <2>5 DEF VerdictsFit, Cleared
  <2> QED
    BY <2>4, <2>6
<1>3. CASE TestConnector(w)
  <2>1. PICK v \in Verdicts :
          /\ worker' = [worker EXCEPT ![w] = [@ EXCEPT !.at = "probed", !.verdict = v]]
          /\ passed' = IF v = "SUCCEEDED" THEN passed \union {worker[w].conf} ELSE passed
    BY <1>3 DEF TestConnector, TestVerdicts, Verdicts
  <2>2. worker[w].at = "probing" /\ UNCHANGED <<conn, tests>>
    BY <1>3 DEF TestConnector
  <2>3. /\ worker'[w].at = "probed" /\ worker'[w].verdict = v
        /\ worker'[w].test = worker[w].test
        /\ \A u \in Workers : u # w => worker'[u] = worker[u]
    BY <2>1, <1>t DEF Worker
  <2>4. passed \subseteq passed' /\ (v = "SUCCEEDED" => worker[w].conf \in passed')
    BY <2>1
  <2>5. ReadyIsCleared'
    BY <1>0, <2>2, <2>3, <2>4 DEF ReadyIsCleared, Cleared
  <2>6. VerdictsFit'
    BY <1>0, <2>2, <2>3, <2>4 DEF VerdictsFit, Cleared, Owns
  <2> QED
    BY <2>5, <2>6
<1>4. CASE FinishSOARConnectorTest(w)
  <2> DEFINE t == worker[w].test
             v == worker[w].verdict
  <2>1. /\ worker[w].at = "probed" /\ UNCHANGED passed
        /\ worker' = [worker EXCEPT ![w] = IdleWorker]
    BY <1>4 DEF FinishSOARConnectorTest, history
  <2>2. worker'[w].at = "idle" /\ \A u \in Workers : u # w => worker'[u] = worker[u]
    BY <2>1, <1>t, RestingFacts
  <2>3. CASE UNCHANGED <<tests, conn>>
    BY <1>0, <2>1, <2>2, <2>3 DEF ReadyIsCleared, VerdictsFit, Cleared, Owns
  <2>4. CASE /\ Owns(w) /\ conn' = Tested(v)
             /\ tests' = [tests EXCEPT ![t] = [@ EXCEPT !.status = v, !.leased = FALSE]]
    <3>1. conn'.conf = conn.conf
      BY <2>4, <1>t DEF Tested, Conn
    <3>2. conn'.state = "READY" => v = "SUCCEEDED"
      BY <2>4, <1>t DEF Tested, Conn, StateAfter
    <3>3. conn'.state = "READY" => Cleared(conn.conf)
      BY <2>1, <2>4, <3>2 DEF VerdictsFit
    <3>4. ReadyIsCleared'
      BY <1>0, <2>1, <2>2, <3>1, <3>3 DEF ReadyIsCleared, Cleared
    <3>5. t \in Requests /\ v \in Verdicts /\ tests[t] \in Test
      BY <2>1, <1>t DEF Worker
    <3>6. tests'[t].status = v /\ \A r \in Requests : r # t => tests'[r] = tests[r]
      BY <2>4, <3>5, <1>t DEF Test
    <3>7. v # "RUNNING"
      BY <3>5 DEF Verdicts
    <3> HIDE DEF t, v
    <3>8. ASSUME NEW u \in Workers, u # w, worker[u].at \in {"probing", "probed"}, Owns(u)'
          PROVE  Owns(u)
      <4>1. worker[u].test \in Requests /\ worker'[u] = worker[u]
        BY <2>2, <3>8 DEF ControlInv, ClaimsAreOpen
      <4>2. worker[u].test # t
        BY <3>6, <3>7, <3>8, <4>1 DEF Owns
      <4> QED
        BY <3>6, <3>8, <4>1, <4>2 DEF Owns
    <3>9. VerdictsFit'
      BY <1>0, <2>1, <2>2, <3>1, <3>8 DEF VerdictsFit, Cleared
    <3> QED
      BY <3>4, <3>9
  <2> QED
    BY <1>4, <2>3, <2>4 DEF FinishSOARConnectorTest, Owns
<1> QED
  BY <1>1, <1>2, <1>3, <1>4 DEF RunTests

\* The other steps leave the row and the owners of the tests alone; Execute takes
\* the row only while it is READY.
LEMMA CallsClear ==
  ASSUME ControlInv, ReadyIsCleared, VerdictsFit,
         \/ \E w \in Workers : RunAction(w) \/ WorkerStops(w)
         \/ \E r \in Requests : CreateSOARConnectorTest(r) \/ LeaseExpires(r)
         \/ NextMinute \/ UNCHANGED vars
  PROVE  ReadyIsCleared' /\ VerdictsFit'
<1>t. /\ conn \in Conn /\ worker \in [Workers -> Worker] /\ tests \in [Requests -> Test]
      /\ \A u \in Workers : worker[u].at \in {"probing", "probed"} => worker[u].test \in Requests
  BY DEF ControlInv, TypeOK, ClaimsAreOpen
<1>0. UNCHANGED <<conn, passed, straddled>>
  BY DEF RunAction, Execute, ReserveSOARConnectorCall, CallConnector, WorkerStops,
         CreateSOARConnectorTest, LeaseExpires, NextMinute, vars, history
<1>1. ASSUME NEW w \in Workers, RunAction(w)
      PROVE  ReadyIsCleared' /\ VerdictsFit'
  <2>1. UNCHANGED tests
    BY <1>1 DEF RunAction, Execute, ReserveSOARConnectorCall, CallConnector
  <2>2. \A u \in Workers : u # w => worker'[u] = worker[u]
    BY <1>1, <1>t DEF RunAction, Execute, ReserveSOARConnectorCall, CallConnector
  <2>3. worker'[w].at \in {"idle", "action", "reserved"}
    <3>1. CASE Execute(w)
      BY <3>1, <1>t DEF Execute, Worker
    <3>2. CASE ReserveSOARConnectorCall(w)
      BY <3>2, <1>t, RestingFacts DEF ReserveSOARConnectorCall, Worker
    <3>3. CASE CallConnector(w)
      BY <3>3, <1>t, RestingFacts DEF CallConnector
    <3> QED
      BY <1>1, <3>1, <3>2, <3>3 DEF RunAction
  <2>4. VerdictsFit'
    BY <1>0, <2>1, <2>2, <2>3 DEF VerdictsFit, Cleared, Owns
  <2>5. CASE Execute(w)
    <3>1. worker'[w].conf = conn.conf /\ conn.state = "READY" /\ UNCHANGED called
      BY <2>5, <1>t DEF Execute, Worker, history
    <3> QED
      BY <1>0, <2>2, <2>4, <3>1 DEF ReadyIsCleared, Cleared
  <2>6. CASE ReserveSOARConnectorCall(w)
    <3>1. worker[w].at = "action" /\ UNCHANGED called
      BY <2>6 DEF ReserveSOARConnectorCall, history
    <3>2. worker'[w].at = "idle" \/ worker'[w].conf = worker[w].conf
      BY <2>6, <1>t, RestingFacts DEF ReserveSOARConnectorCall, Worker
    <3> QED
      BY <1>0, <2>2, <2>4, <3>1, <3>2 DEF ReadyIsCleared, Cleared
  <2>7. CASE CallConnector(w)
    <3>1. /\ worker[w].at = "reserved" /\ worker'[w].at = "idle"
          /\ called' = called \union {worker[w].conf}
      BY <2>7, <1>t, RestingFacts DEF CallConnector
    <3> QED
      BY <1>0, <2>2, <2>4, <3>1 DEF ReadyIsCleared, Cleared
  <2> QED
    BY <1>1, <2>5, <2>6, <2>7 DEF RunAction
<1>2. ASSUME NEW w \in Workers, WorkerStops(w)
      PROVE  ReadyIsCleared' /\ VerdictsFit'
  <2>1. worker'[w].at = "idle" /\ \A u \in Workers : u # w => worker'[u] = worker[u]
    BY <1>2, <1>t, RestingFacts DEF WorkerStops
  <2>2. \A r \in Requests : tests'[r].status = tests[r].status /\ tests'[r].worker = tests[r].worker
    BY <1>2, <1>t DEF WorkerStops, Test
  <2>3. UNCHANGED called
    BY <1>2 DEF WorkerStops, history
  <2> QED
    BY <1>0, <1>t, <2>1, <2>2, <2>3 DEF ReadyIsCleared, VerdictsFit, Cleared, Owns
<1>3. ASSUME NEW r \in Requests, CreateSOARConnectorTest(r) \/ LeaseExpires(r)
      PROVE  ReadyIsCleared' /\ VerdictsFit'
  <2>1. UNCHANGED <<worker, called>>
    BY <1>3 DEF CreateSOARConnectorTest, LeaseExpires, history
  <2>2. \A s \in Requests : /\ tests'[s].status = "RUNNING" => tests[s].status = "RUNNING"
                            /\ tests'[s].worker = tests[s].worker
    BY <1>3, <1>t DEF CreateSOARConnectorTest, LeaseExpires, Test
  <2> QED
    BY <1>0, <1>t, <2>1, <2>2 DEF ReadyIsCleared, VerdictsFit, Cleared, Owns
<1>4. CASE NextMinute \/ UNCHANGED vars
  <2>1. UNCHANGED <<conn, tests, worker, passed, straddled, called>>
    BY <1>4 DEF NextMinute, vars, history
  <2> QED
    BY <2>1 DEF ReadyIsCleared, VerdictsFit, Cleared, Owns
<1> QED
  BY <1>1, <1>2, <1>3, <1>4

\* The call after a stage is the one behind the stage's only place.
LEMMA FollowingAt ==
  ASSUME NEW k, NEW stage, NEW p \in 1..Len(Stages(k)),
         \A i \in 1..Len(Stages(k)) : Stages(k)[i] = stage <=> i = p
  PROVE  Following(k, stage) = Stages(k)[1 + p]
<1>1. (CHOOSE i \in 1..Len(Stages(k)) : Stages(k)[i] = stage) = p
  OBVIOUS
<1> QED
  BY <1>1 DEF Following

\* The calls of each adapter in order.
LEMMA StageFacts ==
  ASSUME NEW k \in AllKinds
  PROVE  /\ Stages(k)[1] \in {"plan", "session", "token"}
         /\ Stages(k)[1] = "session" => k = "LDAP"
         /\ Stages(k)[1] = "token" => k = "EDR"
         /\ Following(k, "plan") \in {"session", "write"}
         /\ Following(k, "plan") = "session" => k = "SMTP"
         /\ k = "EDR" => Following(k, "token") = "plan"
         /\ k \in {"SMTP", "LDAP"} => Following(k, "session") \in {"plan", "write"}
         /\ k # "GENERIC" => Following(k, "write") \in {"verify", "quit"}
         /\ k # "GENERIC" => (Following(k, "write") = "quit" <=> k = "SMTP")
<1>1. CASE k = "GENERIC"
  <2>1. Stages(k) = <<"plan", "write">>
    BY <1>1 DEF Stages
  <2>2. Len(Stages(k)) = 2
    BY <2>1
  <2>3. Following(k, "plan") = "write"
    <3>1. 1 \in 1..Len(Stages(k)) /\ \A i \in 1..Len(Stages(k)) : Stages(k)[i] = "plan" <=> i = 1
      BY <2>1, <2>2
    <3>2. Following(k, "plan") = Stages(k)[1 + 1]
      BY <3>1, FollowingAt
    <3> QED
      BY <2>1, <3>2
  <2> QED
    BY <1>1, <2>1, <2>3
<1>2. CASE k = "SMTP"
  <2>1. Stages(k) = <<"plan", "session", "write", "quit">>
    BY <1>2 DEF Stages
  <2>2. Len(Stages(k)) = 4
    BY <2>1
  <2>3. Following(k, "plan") = "session"
    <3>1. 1 \in 1..Len(Stages(k)) /\ \A i \in 1..Len(Stages(k)) : Stages(k)[i] = "plan" <=> i = 1
      BY <2>1, <2>2
    <3>2. Following(k, "plan") = Stages(k)[1 + 1]
      BY <3>1, FollowingAt
    <3> QED
      BY <2>1, <3>2
  <2>4. Following(k, "session") = "write"
    <3>1. 2 \in 1..Len(Stages(k)) /\ \A i \in 1..Len(Stages(k)) : Stages(k)[i] = "session" <=> i = 2
      BY <2>1, <2>2
    <3>2. Following(k, "session") = Stages(k)[1 + 2]
      BY <3>1, FollowingAt
    <3> QED
      BY <2>1, <3>2
  <2>5. Following(k, "write") = "quit"
    <3>1. 3 \in 1..Len(Stages(k)) /\ \A i \in 1..Len(Stages(k)) : Stages(k)[i] = "write" <=> i = 3
      BY <2>1, <2>2
    <3>2. Following(k, "write") = Stages(k)[1 + 3]
      BY <3>1, FollowingAt
    <3> QED
      BY <2>1, <3>2
  <2> QED
    BY <1>2, <2>1, <2>3, <2>4, <2>5
<1>3. CASE k = "LDAP"
  <2>1. Stages(k) = <<"session", "plan", "write", "verify">>
    BY <1>3 DEF Stages
  <2>2. Len(Stages(k)) = 4
    BY <2>1
  <2>3. Following(k, "session") = "plan"
    <3>1. 1 \in 1..Len(Stages(k)) /\ \A i \in 1..Len(Stages(k)) : Stages(k)[i] = "session" <=> i = 1
      BY <2>1, <2>2
    <3>2. Following(k, "session") = Stages(k)[1 + 1]
      BY <3>1, FollowingAt
    <3> QED
      BY <2>1, <3>2
  <2>4. Following(k, "plan") = "write"
    <3>1. 2 \in 1..Len(Stages(k)) /\ \A i \in 1..Len(Stages(k)) : Stages(k)[i] = "plan" <=> i = 2
      BY <2>1, <2>2
    <3>2. Following(k, "plan") = Stages(k)[1 + 2]
      BY <3>1, FollowingAt
    <3> QED
      BY <2>1, <3>2
  <2>5. Following(k, "write") = "verify"
    <3>1. 3 \in 1..Len(Stages(k)) /\ \A i \in 1..Len(Stages(k)) : Stages(k)[i] = "write" <=> i = 3
      BY <2>1, <2>2
    <3>2. Following(k, "write") = Stages(k)[1 + 3]
      BY <3>1, FollowingAt
    <3> QED
      BY <2>1, <3>2
  <2> QED
    BY <1>3, <2>1, <2>3, <2>4, <2>5
<1>4. CASE k = "EDR"
  <2>1. Stages(k) = <<"token", "plan", "write", "verify">>
    BY <1>4 DEF Stages
  <2>2. Len(Stages(k)) = 4
    BY <2>1
  <2>3. Following(k, "token") = "plan"
    <3>1. 1 \in 1..Len(Stages(k)) /\ \A i \in 1..Len(Stages(k)) : Stages(k)[i] = "token" <=> i = 1
      BY <2>1, <2>2
    <3>2. Following(k, "token") = Stages(k)[1 + 1]
      BY <3>1, FollowingAt
    <3> QED
      BY <2>1, <3>2
  <2>4. Following(k, "plan") = "write"
    <3>1. 2 \in 1..Len(Stages(k)) /\ \A i \in 1..Len(Stages(k)) : Stages(k)[i] = "plan" <=> i = 2
      BY <2>1, <2>2
    <3>2. Following(k, "plan") = Stages(k)[1 + 2]
      BY <3>1, FollowingAt
    <3> QED
      BY <2>1, <3>2
  <2>5. Following(k, "write") = "verify"
    <3>1. 3 \in 1..Len(Stages(k)) /\ \A i \in 1..Len(Stages(k)) : Stages(k)[i] = "write" <=> i = 3
      BY <2>1, <2>2
    <3>2. Following(k, "write") = Stages(k)[1 + 3]
      BY <3>1, FollowingAt
    <3> QED
      BY <2>1, <3>2
  <2> QED
    BY <1>4, <2>1, <2>3, <2>4, <2>5
<1>5. CASE k \in {"ITSM", "NOTIFICATION"}
  <2>1. Stages(k) = <<"plan", "write", "verify">>
    BY <1>5 DEF Stages
  <2>2. Len(Stages(k)) = 3
    BY <2>1
  <2>3. Following(k, "plan") = "write"
    <3>1. 1 \in 1..Len(Stages(k)) /\ \A i \in 1..Len(Stages(k)) : Stages(k)[i] = "plan" <=> i = 1
      BY <2>1, <2>2
    <3>2. Following(k, "plan") = Stages(k)[1 + 1]
      BY <3>1, FollowingAt
    <3> QED
      BY <2>1, <3>2
  <2>4. Following(k, "write") = "verify"
    <3>1. 2 \in 1..Len(Stages(k)) /\ \A i \in 1..Len(Stages(k)) : Stages(k)[i] = "write" <=> i = 2
      BY <2>1, <2>2
    <3>2. Following(k, "write") = Stages(k)[1 + 2]
      BY <3>1, FollowingAt
    <3> QED
      BY <2>1, <3>2
  <2> QED
    BY <1>5, <2>1, <2>3, <2>4
<1> QED
  BY <1>1, <1>2, <1>3, <1>4, <1>5 DEF AllKinds

\* A worker that goes from one call to the next, or gives up.
LEMMA ProceedKeeps ==
  ASSUME CallInv, NEW w \in Callers, NEW s \in CallStages,
         Busy(w), Go(w, s), UNCHANGED <<kind, nodeRow, writes>>,
         s \in Unsent => call[w].at \in Unsent,
         s \in Acked => Known,
         s = "retry" => call[w].attempt < MaximumAttempts,
         s \in {"transient", "retry"} /\ kind \in WrittenOnce =>
            call[w].at \in Unsent \union {"transient", "retry"},
         s = "session" => kind \in {"SMTP", "LDAP"},
         s = "token" => kind = "EDR",
         s = "verify" => kind \notin {"GENERIC", "SMTP"},
         s = "quit" => kind = "SMTP",
         ledger' \in Successes => Known
  PROVE  CallInv'
<1>0. CallType /\ CallOnPath /\ ClaimsAreNumbered /\ WritesAreNumbered /\ AcksAreKnown
  BY DEF CallInv
<1>1. UNCHANGED <<kind, status, attempt, owner, reclaims, writes>>
  BY DEF nodeRow
<1>2. /\ call' \in [Callers -> [at : CallStages, attempt : Nat]]
      /\ call'[w].at = s /\ \A u \in Callers : u # w => call'[u].at = call[u].at
      /\ \A u \in Callers : call'[u].attempt = call[u].attempt
  BY <1>0 DEF Go, CallType
<1>3. CallType'
  BY <1>0, <1>1, <1>2 DEF CallType
<1>4. CallOnPath'
  BY <1>0, <1>1, <1>2 DEF CallOnPath
<1>5. \A u \in Callers : Busy(u)' => Busy(u)
  BY <1>2 DEF Busy
<1>6. ClaimsAreNumbered'
  BY <1>0, <1>1, <1>2, <1>5 DEF ClaimsAreNumbered, Holds
<1>7. WritesAreNumbered'
  BY <1>0, <1>1, <1>2 DEF WritesAreNumbered, Sent
<1>8. (Known' <=> Known) /\ (AcknowledgedNotRepeated' <=> AcknowledgedNotRepeated)
  BY <1>1 DEF Known, AcknowledgedNotRepeated, Sent
<1>9. AcksAreKnown'
  BY <1>0, <1>1, <1>2, <1>8 DEF AcksAreKnown
<1> QED
  BY <1>3, <1>4, <1>6, <1>7, <1>9 DEF CallInv

\* A claim has a number no claim and no write had before.
LEMMA ClaimKeeps ==
  ASSUME CallInv, NEW w \in Callers, ClaimNode(w)
  PROVE  CallInv'
<1> USE CallAssumption
<1>0. CallType /\ CallOnPath /\ ClaimsAreNumbered /\ WritesAreNumbered /\ AcksAreKnown
  BY DEF CallInv
<1>1. /\ UNCHANGED <<kind, ledger, writes>>
      /\ status' = "RUNNING" /\ attempt' = attempt + 1 /\ owner' = {w} /\ ~Busy(w)
      /\ call' = [call EXCEPT ![w] = [at |-> "begin", attempt |-> attempt + 1]]
  BY DEF ClaimNode, At, Busy
<1>2. /\ call' \in [Callers -> [at : CallStages, attempt : Nat]]
      /\ call'[w].at = "begin" /\ call'[w].attempt = attempt + 1
      /\ \A u \in Callers : u # w => call'[u] = call[u]
  BY <1>0, <1>1 DEF CallType, CallStages, Unsent
<1>3. \/ status = "READY" /\ reclaims' = reclaims
      \/ status = "RUNNING" /\ reclaims' = reclaims + 1
  BY DEF ClaimNode
<1>4. CallType'
  BY <1>0, <1>1, <1>2, <1>3 DEF CallType
<1>5. CallOnPath'
  BY <1>0, <1>1, <1>2 DEF CallOnPath
<1>6. reclaims' = 0 => \A u \in Callers : ~Busy(u)
  BY <1>0, <1>3 DEF ClaimsAreNumbered, Holds, CallType
<1>7. ClaimsAreNumbered'
  <2>1. \A u \in Callers : u # w => (Busy(u)' <=> Busy(u))
    BY <1>2 DEF Busy
  <2>2. \A u \in Callers : u # w => ~Holds(u)'
    BY <1>1 DEF Holds
  <2>3. Busy(w)' /\ Holds(w)'
    BY <1>1, <1>2 DEF Busy, Holds
  <2>4. \A u \in Callers : Busy(u) => call[u].attempt \in 1..attempt
    BY <1>0 DEF ClaimsAreNumbered
  <2>5. /\ \A u \in Callers : Busy(u)' => call'[u].attempt \in 1..attempt'
        /\ \A u, v \in Callers :
              Busy(u)' /\ Busy(v)' /\ call'[u].attempt = call'[v].attempt => u = v
    BY <1>0, <1>1, <1>2, <2>1, <2>3, <2>4 DEF ClaimsAreNumbered, CallType
  <2>6. /\ \A u \in Callers : Busy(u)' /\ Holds(u)' => call'[u].attempt = attempt'
        /\ \A u \in Callers : call'[u].at = "retry" => call'[u].attempt < MaximumAttempts
        /\ reclaims' = 0 => \A u \in Callers : Busy(u)' => Holds(u)'
    BY <1>0, <1>1, <1>2, <1>6, <2>1, <2>2, <2>3 DEF ClaimsAreNumbered
  <2>7. attempt' <= MaximumAttempts + reclaims' /\ status' # "READY"
    BY <1>0, <1>1, <1>3 DEF ClaimsAreNumbered, CallType
  <2> QED
    BY <2>5, <2>6, <2>7 DEF ClaimsAreNumbered
<1>8. WritesAreNumbered'
  <2>1. Sent' = Sent /\ \A i \in Sent : writes'[i] = writes[i] /\ writes[i].attempt \in 1..attempt
    BY <1>0, <1>1 DEF WritesAreNumbered, Sent
  <2>2. \A i \in Sent : writes[i].attempt \in 1..attempt' /\ writes[i].attempt # attempt + 1
    BY <1>0, <1>1, <2>1 DEF CallType
  <2>3. ASSUME NEW u \in Callers, call'[u].at \in Unsent
        PROVE  \A i \in Sent : writes[i].attempt # call'[u].attempt
    <3>1. CASE u = w
      BY <1>2, <2>2, <3>1
    <3>2. CASE u # w
      BY <1>0, <1>2, <2>3, <3>2 DEF WritesAreNumbered
    <3> QED
      BY <3>1, <3>2
  <2>4. \A i, j \in Sent : writes[i].attempt = writes[j].attempt => i = j
    BY <1>0 DEF WritesAreNumbered
  <2> QED
    BY <2>1, <2>2, <2>3, <2>4 DEF WritesAreNumbered
<1>9. (Known' <=> Known) /\ AcknowledgedNotRepeated'
  BY <1>0, <1>1, <1>3 DEF Known, AcknowledgedNotRepeated, Sent, AcksAreKnown, CallType
<1>10. AcksAreKnown'
  <2>1. kind \in WrittenOnce /\ reclaims' = 0 => ~Known
    BY <1>0, <1>3 DEF AcksAreKnown, CallType
  <2> QED
    BY <1>0, <1>1, <1>2, <1>9, <2>1 DEF AcksAreKnown, Acked, Successes
<1> QED
  BY <1>4, <1>5, <1>7, <1>8, <1>10 DEF CallInv

\* A settlement changes the node for the holder of its lease only.
LEMMA SettleKeeps ==
  ASSUME CallInv, NEW w \in Callers, Settlement(w)
  PROVE  CallInv'
<1>0. CallType /\ CallOnPath /\ ClaimsAreNumbered /\ WritesAreNumbered /\ AcksAreKnown
  BY DEF CallInv
<1>1. PICK outcome \in {"SUCCEEDED", "READY", "FAILED"}, stage \in {"complete", "retry", "fail"} :
        /\ call[w].at = stage /\ Settle(w, stage, outcome)
        /\ outcome = "SUCCEEDED" <=> stage = "complete"
        /\ outcome = "READY" <=> stage = "retry"
  BY DEF Settlement, CompleteSOARNode, RetrySOARNode, FailSOARNode, Settle, At
<1>2. UNCHANGED <<kind, attempt, ledger, writes, reclaims>> /\ Go(w, "idle") /\ Busy(w)
  BY <1>1 DEF Settle, Busy
<1>3. CASE UNCHANGED <<status, owner>>
  <2>1. "idle" \in CallStages /\ "idle" \notin Unsent \union Acked
    BY DEF CallStages, Unsent, Acked, Successes
  <2>2. ledger' \in Successes => Known
    BY <1>0, <1>2 DEF AcksAreKnown
  <2>3. UNCHANGED <<kind, nodeRow, writes>>
    BY <1>2, <1>3 DEF nodeRow
  <2> QED
    BY <1>2, <2>1, <2>2, <2>3, ProceedKeeps
<1>4. CASE Holds(w) /\ status' = outcome /\ owner' = {}
  <2>1. /\ call' \in [Callers -> [at : CallStages, attempt : Nat]]
        /\ call'[w].at = "idle" /\ \A u \in Callers : u # w => call'[u] = call[u]
    BY <1>0, <1>2 DEF Go, CallType, CallStages
  <2>2. CallType'
    BY <1>0, <1>2, <2>1 DEF CallType
  <2>3. CallOnPath'
    BY <1>0, <1>2, <2>1 DEF CallOnPath
  <2>4. outcome = "READY" => attempt < MaximumAttempts
    BY <1>0, <1>1, <1>2, <1>4 DEF ClaimsAreNumbered
  <2>5. \A u \in Callers : /\ ~Holds(u)'
                           /\ Busy(u)' <=> (Busy(u) /\ u # w)
    BY <1>1, <1>4, <2>1 DEF Holds, Busy
  <2>6. reclaims = 0 => \A u \in Callers : ~Busy(u)'
    BY <1>0, <1>4, <2>5 DEF ClaimsAreNumbered, Holds
  <2>7. ClaimsAreNumbered'
    BY <1>0, <1>2, <1>4, <2>1, <2>4, <2>5, <2>6 DEF ClaimsAreNumbered
  <2>8. WritesAreNumbered'
    BY <1>0, <1>2, <2>1 DEF WritesAreNumbered, Sent, Unsent
  <2>9. (Known' <=> Known) /\ (AcknowledgedNotRepeated' <=> AcknowledgedNotRepeated)
    BY <1>2 DEF Known, AcknowledgedNotRepeated, Sent
  <2>10. outcome = "SUCCEEDED" => Known
    BY <1>0, <1>1 DEF AcksAreKnown, Acked
  <2>11. outcome = "READY" => ~(kind \in WrittenOnce /\ reclaims = 0 /\ Known)
    BY <1>0, <1>1 DEF AcksAreKnown
  <2>12. AcksAreKnown'
    BY <1>0, <1>2, <1>4, <2>1, <2>9, <2>10, <2>11 DEF AcksAreKnown, Acked, Unsent, Successes
  <2> QED
    BY <2>2, <2>3, <2>7, <2>8, <2>12 DEF CallInv
<1> QED
  BY <1>1, <1>3, <1>4 DEF Settle, Holds

\* A write carries the number of a claim that has not written yet.
LEMMA SendKeeps ==
  ASSUME CallInv, NEW w \in Callers, NEW outcome \in WriteOutcomes, NEW s \in CallStages,
         Send(w, outcome), Go(w, s),
         s \in Errors \/ (s \in Acked /\ outcome = "acked"),
         outcome = "acked" => s # "transient",
         s = "verify" => kind \notin {"GENERIC", "SMTP"},
         s = "quit" => kind = "SMTP"
  PROVE  CallInv'
<1>0. CallType /\ CallOnPath /\ ClaimsAreNumbered /\ WritesAreNumbered /\ AcksAreKnown
  BY DEF CallInv
<1> DEFINE r == [attempt |-> call[w].attempt, outcome |-> outcome]
<1>1. /\ UNCHANGED <<kind, status, attempt, owner, reclaims, ledger>>
      /\ call[w].at = "write" /\ writes' = Append(writes, r)
  BY DEF Send, nodeRow, At
<1>2. /\ call' \in [Callers -> [at : CallStages, attempt : Nat]]
      /\ call'[w].at = s /\ \A u \in Callers : u # w => call'[u].at = call[u].at
      /\ \A u \in Callers : call'[u].attempt = call[u].attempt
  BY <1>0 DEF Go, CallType
<1>3. r \in [attempt : Nat, outcome : WriteOutcomes]
  BY <1>0 DEF CallType
<1>4. PICK a \in Nat : a = call[w].attempt
  BY <1>0 DEF CallType
<1>5. PICK n \in Nat : n = Len(writes)
  BY <1>0 DEF CallType
<1>6. /\ writes' \in Seq([attempt : Nat, outcome : WriteOutcomes])
      /\ Len(writes') = n + 1 /\ writes'[n + 1].attempt = a /\ writes'[n + 1].outcome = outcome
      /\ \A i \in 1..n : writes'[i] = writes[i]
  BY <1>0, <1>1, <1>3, <1>4, <1>5 DEF CallType
<1>7. Sent = 1..n /\ Sent' = 1..(n + 1)
  BY <1>5, <1>6 DEF Sent
<1>8. CallType'
  BY <1>0, <1>1, <1>2, <1>6 DEF CallType
<1>9. s \notin Unsent /\ s \notin {"idle", "retry", "session", "token"}
  BY DEF Unsent, Errors, Acked, Successes
<1>10. CallOnPath'
  BY <1>0, <1>1, <1>2, <1>9 DEF CallOnPath
<1>11. \A u \in Callers : Busy(u)' <=> Busy(u)
  BY <1>1, <1>2, <1>9 DEF Busy
<1>12. ClaimsAreNumbered'
  BY <1>0, <1>1, <1>2, <1>9, <1>11 DEF ClaimsAreNumbered, Holds
<1>13. WritesAreNumbered'
  <2>1. Busy(w) /\ call[w].at \in Unsent
    BY <1>1 DEF Busy, Unsent
  <2>2. a \in 1..attempt
    BY <1>0, <1>4, <2>1 DEF ClaimsAreNumbered
  <2>3. \A i \in 1..n : writes[i].attempt # a
    BY <1>0, <1>4, <1>7, <2>1 DEF WritesAreNumbered
  <2>4. /\ \A i, j \in Sent' : writes'[i].attempt = writes'[j].attempt => i = j
        /\ \A i \in Sent' : writes'[i].attempt \in 1..attempt'
    BY <1>0, <1>1, <1>6, <1>7, <2>2, <2>3 DEF WritesAreNumbered
  <2>5. ASSUME NEW u \in Callers, call'[u].at \in Unsent
        PROVE  \A i \in Sent' : writes'[i].attempt # call'[u].attempt
    <3>1. u # w /\ call[u].at \in Unsent
      BY <1>2, <1>9, <2>5
    <3>2. call[u].attempt # a
      BY <1>0, <1>4, <2>1, <3>1 DEF ClaimsAreNumbered, Busy, Unsent
    <3> QED
      BY <1>0, <1>2, <1>6, <1>7, <3>1, <3>2 DEF WritesAreNumbered
  <2> QED
    BY <2>4, <2>5 DEF WritesAreNumbered
<1>14. Known' <=> (Known \/ outcome = "acked")
  BY <1>6, <1>7 DEF Known
<1>15. kind \in WrittenOnce /\ reclaims = 0 => ~Known
  BY <1>0, <1>1 DEF AcksAreKnown, Unsent
<1>16. kind \in WrittenOnce /\ reclaims = 0 =>
          /\ status # "READY" /\ \A u \in Callers : u # w => call[u].at = "idle"
  BY <1>0, <1>1 DEF ClaimsAreNumbered, Busy, Holds
<1>17. AcknowledgedNotRepeated'
  BY <1>1, <1>6, <1>7, <1>15 DEF AcknowledgedNotRepeated, Known
<1>18. AcksAreKnown'
  <2>1. /\ \A u \in Callers : call'[u].at \in Acked => Known'
        /\ (ledger \in Successes => Known)' /\ (status = "SUCCEEDED" => Known)'
    BY <1>0, <1>1, <1>2, <1>14 DEF AcksAreKnown, Acked, Errors, Successes
  <2>2. ASSUME kind' \in WrittenOnce, reclaims' = 0, Known'
        PROVE  /\ status' # "READY"
               /\ \A u \in Callers : call'[u].at \notin Unsent \union {"transient", "retry"}
    <3>1. outcome = "acked"
      BY <1>1, <1>14, <1>15, <2>2
    <3>2. "idle" \notin Unsent
      BY DEF Unsent
    <3> QED
      BY <1>1, <1>2, <1>9, <1>16, <2>2, <3>1, <3>2
  <2> QED
    BY <1>17, <2>1, <2>2 DEF AcksAreKnown
<1> QED
  BY <1>8, <1>10, <1>12, <1>13, <1>18 DEF CallInv

\* A step of the calls keeps the invariant: each request is one case.
LEMMA CallStep ==
  ASSUME CallInv, [CallNext]_callVars
  PROVE  CallInv'
<1>0. CallType /\ CallOnPath /\ ClaimsAreNumbered /\ WritesAreNumbered /\ AcksAreKnown
  BY DEF CallInv
<1>k. kind \in AllKinds
  BY <1>0 DEF CallType
<1>l. ledger \in Successes => Known
  BY <1>0 DEF AcksAreKnown
<1>s. UNCHANGED callVars => CallInv'
  BY <1>0 DEF callVars, nodeRow, CallInv, CallType, CallOnPath, ClaimsAreNumbered,
     WritesAreNumbered, AcksAreKnown, AcknowledgedNotRepeated, Known, Sent, Busy, Holds
<1> SUFFICES ASSUME NEW w \in Callers,
                    \/ ClaimNode(w) \/ BeginSOARAction(w)
                    \/ Prepare(w) \/ SendWrite(w) \/ VerifySucceeds(w) \/ VerifyFails(w) \/ Quit(w)
                    \/ FinishSOARAction(w) \/ Settlement(w)
                    \/ TokenExpires(w) \/ StoreFails(w) \/ CallerStops(w)
             PROVE  CallInv'
  BY <1>s DEF CallNext
<1>a. call[w].at \in Acked => Known
  BY <1>0 DEF AcksAreKnown
<1>e. /\ Errors \subseteq CallStages /\ Successes \subseteq CallStages
      /\ Errors \intersect (Unsent \union Acked) = {} /\ Successes \intersect Unsent = {}
      /\ Successes \subseteq Acked
      /\ \A x \in Errors \union Successes :
            x \notin {"idle", "retry", "session", "token", "verify", "quit"}
      /\ "transient" \notin Successes
  BY DEF Errors, Successes, CallStages, Unsent, Acked
<1>1. CASE ClaimNode(w)
  BY <1>1, ClaimKeeps
<1>2. CASE BeginSOARAction(w)
  <2>1. PICK s \in {"complete", "preflight"} :
           Go(w, s) /\ s = IF ledger \in Successes THEN "complete" ELSE "preflight"
    BY <1>2 DEF BeginSOARAction
  <2>2. /\ Busy(w) /\ call[w].at \in Unsent /\ UNCHANGED <<kind, nodeRow, writes>>
        /\ ledger' \in Successes => ledger \in Successes
    BY <1>2 DEF BeginSOARAction, At, Busy, Unsent, Successes
  <2>3. s \in CallStages /\ (s \in Acked => ledger \in Successes)
    BY <2>1 DEF CallStages, Acked, Unsent, Successes
  <2> QED
    BY <1>l, <2>1, <2>2, <2>3, ProceedKeeps
<1>3. ASSUME NEW s \in {"preflight", "session", "token", "plan", "write"} \union Errors,
             call[w].at \in Unsent, Go(w, s), UNCHANGED <<kind, nodeRow, ledger, writes>>,
             s = "session" => kind \in {"SMTP", "LDAP"}, s = "token" => kind = "EDR"
      PROVE  CallInv'
  <2>1. Busy(w) /\ s \in CallStages /\ s \notin Acked /\ s \notin {"retry", "verify", "quit"}
    BY <1>3 DEF Busy, Unsent, CallStages, Acked, Errors, Successes
  <2> QED
    BY <1>3, <1>l, <2>1, ProceedKeeps
<1>4. CASE Prepare(w)
  <2>1. /\ call[w].at \in Unsent /\ UNCHANGED <<kind, nodeRow, ledger, writes>>
    BY <1>4 DEF Prepare, PreflightRefused, RateLimited, Dispatch, OpenSession,
       NativeEDRAccessToken, BuildRequest, Proceed, At, Unsent
  <2>2. CASE PreflightRefused(w) \/ RateLimited(w)
    <3>1. Go(w, "permanent") \/ Go(w, "transient")
      BY <2>2 DEF PreflightRefused, RateLimited, Proceed
    <3> QED
      BY <1>3, <2>1, <3>1 DEF Errors
  <2>3. CASE Dispatch(w)
    <3>1. Go(w, Stages(kind)[1])
      BY <2>3 DEF Dispatch, Proceed
    <3> QED
      BY <1>3, <1>k, <2>1, <3>1, StageFacts
  <2>4. CASE OpenSession(w)
    <3>1. kind \in {"SMTP", "LDAP"}
      BY <1>0, <2>4 DEF OpenSession, Proceed, At, CallOnPath
    <3>2. PICK s \in {Following(kind, "session")} \union Errors : Go(w, s)
      BY <2>4 DEF OpenSession, Proceed
    <3>3. s \in {"plan", "write"} \union Errors
      BY <1>k, <3>1, <3>2, StageFacts
    <3> QED
      BY <1>3, <2>1, <3>1, <3>2, <3>3 DEF Errors
  <2>5. CASE NativeEDRAccessToken(w)
    <3>1. kind = "EDR"
      BY <1>0, <2>5 DEF NativeEDRAccessToken, At, CallOnPath
    <3>2. PICK s \in {Following(kind, "token")} \union Errors : Go(w, s)
      BY <2>5 DEF NativeEDRAccessToken
    <3>3. s \in {"plan"} \union Errors
      BY <1>k, <3>1, <3>2, StageFacts
    <3> QED
      BY <1>3, <2>1, <3>1, <3>2, <3>3 DEF Errors
  <2>6. CASE BuildRequest(w)
    <3>1. PICK s \in {Following(kind, "plan"), "permanent"} : Go(w, s)
      BY <2>6 DEF BuildRequest, Proceed
    <3>2. s \in {"session", "write"} \union Errors /\ (s = "session" => kind = "SMTP")
      BY <1>k, <3>1, StageFacts DEF Errors
    <3> QED
      BY <1>3, <2>1, <3>1, <3>2 DEF Errors
  <2> QED
    BY <1>4, <2>2, <2>3, <2>4, <2>5, <2>6 DEF Prepare
<1>5. CASE SendWrite(w)
  <2>1. CASE WriteFails(w) \/ WriteUncertain(w)
    <3>1. PICK o \in {"refused", "doubt"}, s \in Errors : Send(w, o) /\ Go(w, s)
      BY <2>1 DEF WriteFails, WriteUncertain
    <3>2. o \in WriteOutcomes /\ o # "acked" /\ s \in CallStages /\ s \notin {"verify", "quit"}
      BY <1>e, <3>1 DEF WriteOutcomes
    <3> QED
      BY <3>1, <3>2, SendKeeps
  <2>2. CASE WriteAcknowledged(w) \/ WriteUnusable(w)
    <3>1. Send(w, "acked") /\ "acked" \in WriteOutcomes
      BY <2>2 DEF WriteAcknowledged, WriteUnusable, WriteOutcomes
    <3>2. PICK s \in CallStages :
             /\ Go(w, s) /\ (s = "permanent" \/ s \in Acked) /\ s # "transient"
             /\ s = "verify" => kind \notin {"GENERIC", "SMTP"}
             /\ s = "quit" => kind = "SMTP"
      <4>1. CASE WriteUnusable(w)
        BY <4>1 DEF WriteUnusable, CallStages, Errors
      <4>2. CASE WriteAcknowledged(w) /\ kind = "GENERIC"
        BY <1>e, <4>2 DEF WriteAcknowledged
      <4>3. CASE WriteAcknowledged(w) /\ kind # "GENERIC"
        <5>1. Go(w, Following(kind, "write")) /\ Following(kind, "write") \in {"verify", "quit"}
              /\ (Following(kind, "write") = "quit" <=> kind = "SMTP")
          BY <1>k, <4>3, StageFacts DEF WriteAcknowledged
        <5> QED
          BY <4>3, <5>1 DEF CallStages, Acked
      <4> QED
        BY <2>2, <4>1, <4>2, <4>3
    <3>3. s \in Errors \/ (s \in Acked)
      BY <3>2 DEF Errors
    <3> QED
      BY <3>1, <3>2, <3>3, SendKeeps
  <2> QED
    BY <1>5, <2>1, <2>2 DEF SendWrite
<1>6. CASE VerifySucceeds(w) \/ VerifyFails(w) \/ Quit(w)
  <2>1. /\ Busy(w) /\ call[w].at \in Acked /\ UNCHANGED <<kind, nodeRow, ledger, writes>>
    BY <1>6 DEF VerifySucceeds, VerifyFails, Quit, Proceed, At, Acked, Busy
  <2>2. PICK s \in Errors \union Successes :
           Go(w, s) /\ (s = "transient" => kind \notin WrittenOnce)
    <3>1. CASE VerifySucceeds(w)
      BY <3>1 DEF VerifySucceeds, Proceed, Verified, Successes
    <3>2. CASE VerifyFails(w)
      <4>1. kind \notin {"GENERIC", "SMTP"}
        BY <1>0, <3>2 DEF VerifyFails, At, CallOnPath
      <4>2. PICK s \in VerifyVerdicts(kind) : Go(w, s)
        BY <3>2 DEF VerifyFails
      <4>3. s \in Errors /\ (s = "transient" => kind \notin WrittenOnce)
        BY <4>1, <4>2 DEF VerifyVerdicts, Errors, WrittenOnce
      <4> QED
        BY <4>2, <4>3
    <3>3. CASE Quit(w)
      <4>1. kind = "SMTP"
        BY <1>0, <3>3 DEF Quit, Proceed, At, CallOnPath
      <4> QED
        BY <3>3, <4>1 DEF Quit, Proceed, Successes, WrittenOnce
    <3> QED
      BY <1>6, <3>1, <3>2, <3>3
  <2>3. Known /\ s \in CallStages /\ s \notin Unsent
        /\ s \notin {"idle", "retry", "session", "token", "verify", "quit"}
    BY <1>a, <1>e, <2>1, <2>2
  <2> QED
    BY <2>1, <2>2, <2>3, ProceedKeeps
<1>7. CASE FinishSOARAction(w)
  <2>0. UNCHANGED <<kind, nodeRow, writes>>
    BY <1>7 DEF FinishSOARAction
  <2>1. CASE call[w].at \in Successes /\ Go(w, "complete")
    <3>1. Known /\ Busy(w) /\ "complete" \in CallStages /\ "complete" \notin Unsent
      BY <1>a, <1>e, <2>1 DEF Busy, CallStages, Acked, Unsent
    <3> QED
      BY <2>0, <2>1, <3>1, ProceedKeeps
  <2>2. CASE call[w].at \in Errors /\ ledger' = "FAILED" /\ Go(w, AfterError(w))
    <3>1. PICK s \in {"retry", "fail"} :
             /\ s = AfterError(w) /\ Go(w, s)
             /\ s = "retry" => call[w].at = "transient" /\ call[w].attempt < MaximumAttempts
      BY <2>2 DEF AfterError, At
    <3>2. /\ Busy(w) /\ s \in CallStages /\ s \notin Unsent /\ s \notin Acked
          /\ ledger' \notin Successes
          /\ s \notin {"session", "token", "verify", "quit", "transient"}
      BY <1>e, <2>2, <3>1 DEF Busy, CallStages, Acked, Unsent, Successes
    <3>3. s \in {"transient", "retry"} => call[w].at \in Unsent \union {"transient", "retry"}
      BY <3>1, <3>2
    <3> QED
      BY <2>0, <3>1, <3>2, <3>3, ProceedKeeps
  <2> QED
    BY <1>7, <2>1, <2>2 DEF FinishSOARAction
<1>8. CASE Settlement(w)
  BY <1>8, SettleKeeps
<1>9. CASE StoreFails(w) \/ CallerStops(w)
  <2>1. Busy(w) /\ Go(w, "idle") /\ UNCHANGED <<kind, nodeRow, ledger, writes>>
    BY <1>9 DEF StoreFails, CallerStops, At, Busy, Errors, Successes
  <2>2. "idle" \in CallStages /\ "idle" \notin Unsent /\ "idle" \notin Acked
    BY DEF CallStages, Unsent, Acked, Successes
  <2>3. UNCHANGED <<kind, nodeRow, writes>> /\ (ledger' \in Successes => Known)
    BY <1>l, <2>1
  <2> QED
    BY <2>1, <2>2, <2>3, ProceedKeeps
<1>10. CASE TokenExpires(w)
  <2>1. UNCHANGED <<kind, nodeRow, ledger, call, writes>>
    BY <1>10 DEF TokenExpires
  <2> QED
    BY <1>0, <2>1 DEF nodeRow, CallInv, CallType, CallOnPath, ClaimsAreNumbered,
       WritesAreNumbered, AcksAreKnown, AcknowledgedNotRepeated, Known, Sent, Busy, Holds
<1> QED
  BY <1>1, <1>2, <1>4, <1>5, <1>6, <1>7, <1>8, <1>9, <1>10

\* LIVE calls are sound (Execute, the adapters, the worker's retries, ClaimSOARNode
\* and the action ledger): they use a configuration that passed its test or that
\* an edit slipped in under a running one, write once in each attempt, go beyond
\* their attempts by reclaims only, succeed only when the external system did,
\* and repeat nothing but what was in doubt, reclaimed or may be repeated; for
\* every number of workers, editors, tests, attempts and reclaims.
THEOREM LiveCallsStaySound == MCSpec => []LiveCallsAreSound
<1>1. MCInit => LiveInv
  <2> SUFFICES ASSUME MCInit PROVE LiveInv
    OBVIOUS
  <2>1. ControlInv /\ ReadyIsCleared /\ VerdictsFit
    BY ControlInit, ClearedInit DEF MCInit
  <2>2. /\ kind \in AllKinds /\ status = "READY" /\ attempt = 0 /\ ledger = "none"
        /\ call = [w \in Callers |-> [at |-> "idle", attempt |-> 0]]
        /\ writes = <<>> /\ reclaims = 0 /\ MaximumAttempts \in Nat \ {0}
    BY CallAssumption, Zenon DEF MCInit, CallInit
  <2>3. CallType
    BY <2>2 DEF CallType, CallStages
  <2>4. Sent = {} /\ ~Known /\ AcknowledgedNotRepeated
    BY <2>2 DEF Sent, Known, AcknowledgedNotRepeated
  <2>5. \A w \in Callers : call[w].at = "idle"
    BY <2>2
  <2>6. CallOnPath /\ ClaimsAreNumbered
    BY <2>2, <2>5 DEF CallOnPath, ClaimsAreNumbered, Busy
  <2>7. WritesAreNumbered /\ AcksAreKnown
    BY <2>2, <2>4, <2>5 DEF WritesAreNumbered, AcksAreKnown, Acked, Successes
  <2> QED
    BY <2>1, <2>3, <2>6, <2>7 DEF LiveInv, CallInv
<1>2. LiveInv /\ [MCNext]_<<part, vars, callVars, txVars>> => LiveInv'
  <2> SUFFICES ASSUME LiveInv, [MCNext]_<<part, vars, callVars, txVars>> PROVE LiveInv'
    OBVIOUS
  <2>1. /\ [Next]_vars /\ [CallNext]_callVars
    BY DEF MCNext
  <2>2. ControlInv /\ ReadyIsCleared /\ VerdictsFit /\ CallInv
    BY DEF LiveInv
  <2>3. ControlInv'
    BY <2>1, <2>2, ControlStep
  <2>4. CallInv'
    BY <2>1, <2>2, CallStep
  <2>5. ReadyIsCleared' /\ VerdictsFit'
    BY <2>1, <2>2, EditsClear, TestsClear, CallsClear DEF Next
  <2> QED
    BY <2>3, <2>4, <2>5 DEF LiveInv
<1>3. LiveInv => LiveCallsAreSound
  <2> SUFFICES ASSUME LiveInv PROVE LiveCallsAreSound
    OBVIOUS
  <2>0. CallType /\ ClaimsAreNumbered /\ WritesAreNumbered /\ AcksAreKnown
    BY DEF LiveInv, CallInv
  <2>1. CallsAreTestedOrRaced
    BY DEF LiveInv, ReadyIsCleared, CallsAreTestedOrRaced
  <2>2. AttemptsAreBounded /\ AcknowledgedNotRepeated
    BY <2>0 DEF ClaimsAreNumbered, WritesAreNumbered, AcksAreKnown, AttemptsAreBounded
  <2>3. SuccessIsReal
    BY <2>0 DEF AcksAreKnown, SuccessIsReal, Known
  <2>4. \A i \in Sent : writes[i].outcome \in {"refused", "doubt", "acked"}
    <3>1. PICK T : T = [attempt : Nat, outcome : WriteOutcomes]
      OBVIOUS
    <3>2. writes \in Seq(T)
      BY <2>0, <3>1 DEF CallType
    <3>3. \A i \in Sent : writes[i] \in T
      BY <3>2 DEF Sent
    <3> QED
      BY <3>1, <3>3 DEF WriteOutcomes
  <2>5. DuplicatesAreExplained
    BY <2>0, <2>2, <2>4 DEF DuplicatesAreExplained, AcknowledgedNotRepeated, CallType
  <2> QED
    BY <2>1, <2>2, <2>3, <2>5 DEF LiveCallsAreSound
<1> QED
  BY <1>1, <1>2, <1>3, PTL DEF MCSpec
=============================================================================
