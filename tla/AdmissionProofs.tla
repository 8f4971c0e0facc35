-------------------------- MODULE AdmissionProofs --------------------------
(***************************************************************************)
(* Who may do what, and how much: the ingest quota, for any number         *)
(* of replicas, licences and losses of the ledger; the credentials of      *)
(* agents, for any number of agents, faults and delayed requests; and what *)
(* a request to the API may do and leaves in the audit log, for any number *)
(* of clients, accounts and repetitions.                                   *)
(***************************************************************************)
EXTENDS LicenseQuota, AgentIdentity, ApiRequests, FiniteSetTheorems, TLAPS

----------------------------------------------------------------------------
(* The quota. An event is paid for before it is accepted: by the ledger, or  *)
(* by a ledger that was lost, which forgives a day's limit at most.          *)

RequestRows == [pc : {"idle", "authorized", "reserve", "bootstrap", "rebase", "reserved"},
                limit : Nat, baseline : Nat]

LicenseTypes ==
    /\ license \in [Licenses -> {"none", "active", "inactive"}]
    /\ tenant \in {"ACTIVE", "SUSPENDED"}
    /\ ledger \in Nat \cup {Missing}
    /\ queued \in Nat /\ stored \in Nat /\ losses \in Nat /\ late \in Nat
    /\ request \in [Replicas -> RequestRows]

\* A row becomes active only by InstallLicense, and a limit is of such a row.
LimitsAreLicensed ==
    /\ \A l \in Licenses : license[l] = "active" => verify(l)
    /\ \A r \in Replicas : request[r].limit <= LargestLimit

Reserved == {r \in Replicas : request[r].pc = "reserved"}
Serving == {r \in Replicas : request[r].pc # "idle"}

\* What the ledger has admitted at most since it was last lost: a total that
\* was rebuilt above every limit admits nothing.
Admitted == IF ledger = Missing THEN 0 ELSE IF ledger < LargestLimit THEN ledger ELSE LargestLimit

PaidFor == accepted + Cardinality(Reserved) <= LargestLimit * losses + Admitted

SuspensionCounted ==
    /\ tenant = "SUSPENDED" => late + Cardinality(Serving) <= Cardinality(Replicas)
    /\ tenant = "ACTIVE" => late = 0

LicenseInv == LicenseTypes /\ LimitsAreLicensed /\ PaidFor /\ SuspensionCounted

\* The largest limit exists and is the limit of a valid licence.
LEMMA LargestLimitFacts ==
    /\ LargestLimit \in Nat
    /\ \A l \in Licenses : verify(l) => DayLimit[l] <= LargestLimit
  <1> DEFINE S == {DayLimit[l] : l \in {k \in Licenses : verify(k)}}
  <1>1. S \subseteq Nat
    BY LicenseAssumption
  <1>2. PICK l \in Licenses : verify(l) /\ \A k \in Licenses : verify(k) => DayLimit[k] <= DayLimit[l]
    BY LicenseAssumption DEF verify, validatePayload
  <1>3. DayLimit[l] \in S /\ \A y \in S : DayLimit[l] >= y
    BY <1>2, LicenseAssumption
  <1>4. LargestLimit \in S /\ \A y \in S : LargestLimit >= y
    <2>1. LargestLimit = CHOOSE x \in S : \A y \in S : x >= y
      BY DEF LargestLimit, Max
    <2> HIDE DEF S
    <2> QED
      BY <1>3, <2>1
  <1>5. \A k \in Licenses : verify(k) => DayLimit[k] \in S
    OBVIOUS
  <1>6. \A k \in Licenses : DayLimit[k] \in Nat
    BY LicenseAssumption
  <1> HIDE DEF S
  <1> QED
    BY <1>1, <1>4, <1>5, <1>6

\* Sets of replicas can be counted.
LEMMA ReplicaSets ==
    ASSUME NEW S, S \subseteq Replicas
    PROVE  IsFiniteSet(S) /\ Cardinality(S) \in Nat /\ Cardinality(S) <= Cardinality(Replicas)
           /\ Cardinality(Replicas) \in Nat
  BY LicenseAssumption, FS_Subset, FS_CardinalityType

\* One replica's request changes: how the two counts follow.
LEMMA RequestChanges ==
    ASSUME LicenseTypes, NEW r \in Replicas, NEW q \in RequestRows, request' = [request EXCEPT ![r] = q]
    PROVE  /\ request' \in [Replicas -> RequestRows]
           /\ request'[r] = q /\ \A x \in Replicas \ {r} : request'[x] = request[x]
           /\ Cardinality(Reserved) \in Nat /\ Cardinality(Reserved') \in Nat
           /\ Cardinality(Serving) \in Nat /\ Cardinality(Serving') \in Nat
           /\ Cardinality(Serving') <= Cardinality(Replicas)
           /\ q.pc # "reserved" => Cardinality(Reserved') <= Cardinality(Reserved)
           /\ Cardinality(Reserved') <= Cardinality(Reserved) + 1
           /\ (q.pc # "reserved" /\ request[r].pc = "reserved") =>
                  Cardinality(Reserved') = Cardinality(Reserved) - 1
           /\ (q.pc = "idle" \/ request[r].pc # "idle") => Cardinality(Serving') <= Cardinality(Serving)
           /\ (q.pc = "idle" /\ request[r].pc # "idle") => Cardinality(Serving') = Cardinality(Serving) - 1
  <1>1. /\ request' \in [Replicas -> RequestRows]
        /\ request'[r] = q /\ \A x \in Replicas \ {r} : request'[x] = request[x]
    BY DEF LicenseTypes
  <1>2. /\ Reserved' = IF q.pc = "reserved" THEN Reserved \cup {r} ELSE Reserved \ {r}
        /\ r \in Reserved <=> request[r].pc = "reserved"
        /\ Reserved \subseteq Replicas /\ Reserved' \subseteq Replicas
    BY <1>1 DEF Reserved
  <1>3. /\ Serving' = IF q.pc = "idle" THEN Serving \ {r} ELSE Serving \cup {r}
        /\ r \in Serving <=> request[r].pc # "idle"
        /\ Serving \subseteq Replicas /\ Serving' \subseteq Replicas
    BY <1>1 DEF Serving
  <1>4. /\ IsFiniteSet(Reserved) /\ Cardinality(Reserved) \in Nat /\ Cardinality(Reserved') \in Nat
        /\ IsFiniteSet(Serving) /\ Cardinality(Serving) \in Nat /\ Cardinality(Serving') \in Nat
        /\ Cardinality(Serving') <= Cardinality(Replicas)
    BY <1>2, <1>3, ReplicaSets
  <1>5. /\ Cardinality(Reserved \cup {r}) = IF r \in Reserved THEN Cardinality(Reserved)
                                            ELSE Cardinality(Reserved) + 1
        /\ Cardinality(Reserved \ {r}) = IF r \in Reserved THEN Cardinality(Reserved) - 1
                                         ELSE Cardinality(Reserved)
    BY <1>4, FS_AddElement, FS_RemoveElement
  <1>6. /\ Cardinality(Serving \cup {r}) = IF r \in Serving THEN Cardinality(Serving)
                                           ELSE Cardinality(Serving) + 1
        /\ Cardinality(Serving \ {r}) = IF r \in Serving THEN Cardinality(Serving) - 1
                                        ELSE Cardinality(Serving)
    BY <1>4, FS_AddElement, FS_RemoveElement
  <1>7. /\ q.pc # "reserved" => Cardinality(Reserved') <= Cardinality(Reserved)
        /\ Cardinality(Reserved') <= Cardinality(Reserved) + 1
        /\ (q.pc # "reserved" /\ request[r].pc = "reserved") =>
               Cardinality(Reserved') = Cardinality(Reserved) - 1
    BY <1>2, <1>4, <1>5
  <1>8. /\ (q.pc = "idle" \/ request[r].pc # "idle") => Cardinality(Serving') <= Cardinality(Serving)
        /\ (q.pc = "idle" /\ request[r].pc # "idle") => Cardinality(Serving') = Cardinality(Serving) - 1
    BY <1>3, <1>4, <1>6
  <1> QED
    BY <1>1, <1>4, <1>7, <1>8

\* A step that only moves one request on, and admits nothing.
LEMMA RequestStep ==
    ASSUME LicenseInv, NEW r \in Replicas, NEW q \in RequestRows, request' = [request EXCEPT ![r] = q],
           q.pc # "reserved", q.limit <= LargestLimit,
           tenant = "ACTIVE" \/ request[r].pc # "idle" \/ q.pc = "idle",
           UNCHANGED <<license, tenant, ledger, queued, stored, losses, late>>
    PROVE  LicenseInv'
  <1>1. LicenseTypes'
    BY RequestChanges DEF LicenseInv, LicenseTypes
  <1>2. LimitsAreLicensed'
    BY RequestChanges DEF LicenseInv, LimitsAreLicensed, verify, validatePayload
  <1>3. PaidFor'
    <2>1. Admitted' = Admitted /\ accepted' = accepted /\ losses' = losses
      BY DEF Admitted, accepted
    <2>2. /\ Cardinality(Reserved') <= Cardinality(Reserved)
          /\ Cardinality(Reserved') \in Nat /\ Cardinality(Reserved) \in Nat
      BY RequestChanges DEF LicenseInv
    <2>3. accepted \in Nat /\ LargestLimit * losses + Admitted \in Int
      BY LargestLimitFacts DEF LicenseInv, LicenseTypes, accepted, Admitted, Missing
    <2> HIDE DEF LargestLimit
    <2> QED
      BY <2>1, <2>2, <2>3 DEF LicenseInv, PaidFor
  <1>4. SuspensionCounted'
    <2>1. /\ tenant = "SUSPENDED" => Cardinality(Serving') <= Cardinality(Serving)
          /\ Cardinality(Serving') \in Nat /\ Cardinality(Serving) \in Nat /\ Cardinality(Replicas) \in Nat
      BY RequestChanges, ReplicaSets DEF LicenseInv
    <2> QED
      BY <2>1 DEF LicenseInv, LicenseTypes, SuspensionCounted
  <1> QED
    BY <1>1, <1>2, <1>3, <1>4 DEF LicenseInv

\* The script admits one event and counts it, or admits none, from the
\* ledger's total or from the baseline that replaces a missing one.
LEMMA ScriptStep ==
    ASSUME LicenseInv, NEW r \in Replicas, request[r].pc \in {"reserve", "rebase"}, NEW total \in Nat,
           total = ledger \/ ledger = Missing, quotaScript(r, total),
           UNCHANGED <<license, tenant, queued, stored, losses, late>>
    PROVE  LicenseInv'
  <1>t. LicenseTypes /\ LimitsAreLicensed /\ PaidFor /\ SuspensionCounted
    BY DEF LicenseInv
  <1>q. /\ request[r].limit \in Nat /\ request[r].baseline \in Nat /\ request[r].limit <= LargestLimit
        /\ ledger \in Nat \cup {Missing}
    BY <1>t DEF LicenseTypes, RequestRows, LimitsAreLicensed
  <1>n. NoRequest \in RequestRows /\ NoRequest.limit = 0 /\ NoRequest.pc = "idle"
    BY DEF NoRequest, RequestRows
  <1> DEFINE held == [pc |-> "reserved", limit |-> request[r].limit, baseline |-> request[r].baseline]
  <1>h. held \in RequestRows /\ held.limit = request[r].limit /\ held.pc = "reserved"
    BY <1>q DEF RequestRows
  <1>m. LargestLimit \in Nat
    BY LargestLimitFacts
  <1>1. PICK q \in {NoRequest, held} :
          /\ request' = [request EXCEPT ![r] = q]
          /\ \/ ledger' = total /\ q = NoRequest
             \/ ledger' = total + 1 /\ total + 1 <= request[r].limit
    <2>1. CASE total + 1 > request[r].limit
      BY <2>1 DEF quotaScript, requestDone
    <2>2. CASE ~(total + 1 > request[r].limit)
      <3>1. total + 1 <= request[r].limit
        BY <2>2, <1>q
      <3> QED
        BY <2>2, <3>1 DEF quotaScript, requestDone, requestTo, requestHas
    <2> QED
      BY <2>1, <2>2
  <1> HIDE DEF held
  <1>2. q \in RequestRows /\ q.limit <= LargestLimit
    BY <1>1, <1>h, <1>n, <1>q, <1>m
  <1>3. /\ request' \in [Replicas -> RequestRows]
        /\ request'[r] = q /\ \A x \in Replicas \ {r} : request'[x] = request[x]
        /\ Cardinality(Reserved) \in Nat /\ Cardinality(Reserved') \in Nat
        /\ Cardinality(Serving) \in Nat /\ Cardinality(Serving') \in Nat
        /\ q = NoRequest => Cardinality(Reserved') <= Cardinality(Reserved)
        /\ Cardinality(Reserved') <= Cardinality(Reserved) + 1
        /\ Cardinality(Serving') <= Cardinality(Serving)
    BY <1>1, <1>2, <1>n, <1>t, RequestChanges
  <1>4. LicenseTypes'
    BY <1>1, <1>3, <1>t DEF LicenseTypes
  <1>5. LimitsAreLicensed'
    BY <1>2, <1>3, <1>t DEF LimitsAreLicensed, verify, validatePayload
  <1>6. SuspensionCounted'
    BY <1>3, <1>t, ReplicaSets DEF SuspensionCounted, LicenseTypes
  <1>7. PaidFor'
    <2>1. ledger' # Missing /\ ledger' \in Nat
      BY <1>1 DEF Missing
    <2>2. Admitted' = IF ledger' < LargestLimit THEN ledger' ELSE LargestLimit
      BY <2>1 DEF Admitted
    <2>3. Admitted = IF ledger = Missing THEN 0
                     ELSE IF total < LargestLimit THEN total ELSE LargestLimit
      BY DEF Admitted
    <2> DEFINE paid == LargestLimit * losses
               a == Admitted
               b == Admitted'
               n == Cardinality(Reserved)
               k == Cardinality(Reserved')
    <2>4. paid \in Nat /\ paid' = paid
      BY <1>m, <1>t DEF LicenseTypes
    <2>5. accepted \in Nat /\ accepted' = accepted
      BY <1>t DEF LicenseTypes, accepted
    <2>6. a \in Nat /\ b \in Nat
      BY <2>1, <2>2, <2>3, <1>m
    <2>7. accepted + n <= paid + a
      BY <1>t DEF PaidFor
    <2>8. CASE q = NoRequest /\ ledger' = total
      <3>1. b >= a
        BY <2>2, <2>3, <2>8, <1>m
      <3>2. n \in Nat /\ k \in Nat /\ k <= n
        BY <1>3, <2>8
      <3> HIDE DEF paid, a, b, n, k
      <3>3. accepted + k <= paid + b
        BY <2>4, <2>5, <2>6, <2>7, <3>1, <3>2
      <3> QED
        BY <3>3, <2>4, <2>5 DEF PaidFor, paid, b, k
    <2>9. CASE ledger' = total + 1 /\ total + 1 <= request[r].limit
      <3>1. b >= a + 1
        BY <2>2, <2>3, <2>9, <1>m, <1>q
      <3>2. n \in Nat /\ k \in Nat /\ k <= n + 1
        BY <1>3
      <3> HIDE DEF paid, a, b, n, k
      <3>3. accepted + k <= paid + b
        BY <2>4, <2>5, <2>6, <2>7, <3>1, <3>2
      <3> QED
        BY <3>3, <2>4, <2>5 DEF PaidFor, paid, b, k
    <2> QED
      BY <1>1, <2>8, <2>9
  <1> QED
    BY <1>4, <1>5, <1>6, <1>7 DEF LicenseInv

\* The gateway accepts a paid event or gives it up; then its replica is free.
LEMMA QueueStep ==
    ASSUME LicenseInv, NEW r \in Replicas, queueEvent(r)
    PROVE  LicenseInv'
  <1>t. LicenseTypes /\ LimitsAreLicensed /\ PaidFor /\ SuspensionCounted
    BY DEF LicenseInv
  <1>n. NoRequest \in RequestRows /\ NoRequest.limit = 0 /\ NoRequest.pc = "idle"
    BY DEF NoRequest, RequestRows
  <1>1. /\ request[r].pc = "reserved" /\ request' = [request EXCEPT ![r] = NoRequest]
        /\ UNCHANGED <<license, tenant, ledger, stored, losses>>
        /\ \/ queued' = queued + 1 /\ late' = (IF tenant = "SUSPENDED" THEN late + 1 ELSE late)
           \/ queued' = queued /\ late' = late
    BY DEF queueEvent, requestDone
  <1>2. /\ request' \in [Replicas -> RequestRows]
        /\ request'[r] = NoRequest /\ \A x \in Replicas \ {r} : request'[x] = request[x]
        /\ Cardinality(Reserved) \in Nat /\ Cardinality(Reserved') \in Nat
        /\ Cardinality(Serving) \in Nat /\ Cardinality(Serving') \in Nat
        /\ Cardinality(Reserved') = Cardinality(Reserved) - 1
        /\ Cardinality(Serving') = Cardinality(Serving) - 1
    BY <1>1, <1>n, <1>t, RequestChanges
  <1>m. LargestLimit \in Nat
    BY LargestLimitFacts
  <1>3. LicenseTypes'
    BY <1>1, <1>2, <1>t DEF LicenseTypes
  <1>4. LimitsAreLicensed'
    BY <1>1, <1>2, <1>n, <1>m, <1>t DEF LimitsAreLicensed, verify, validatePayload
  <1>5. SuspensionCounted'
    BY <1>1, <1>2, <1>t, ReplicaSets DEF SuspensionCounted, LicenseTypes
  <1>6. PaidFor'
    <2> DEFINE bound == LargestLimit * losses + Admitted
               n == Cardinality(Reserved)
               k == Cardinality(Reserved')
    <2>1. bound' = bound /\ bound \in Int
      BY <1>1, <1>m, <1>t DEF Admitted, LicenseTypes, Missing
    <2>2. n \in Nat /\ k \in Nat /\ k = n - 1
      BY <1>2
    <2>3. accepted \in Nat /\ accepted' \in Nat /\ accepted' <= accepted + 1
      BY <1>1, <1>t DEF accepted, LicenseTypes
    <2>4. accepted + n <= bound
      BY <1>t DEF PaidFor
    <2> DEFINE before == accepted
               after == accepted'
    <2>6. before \in Nat /\ after \in Nat /\ after <= before + 1 /\ before + n <= bound
      BY <2>3, <2>4
    <2> HIDE DEF bound, n, k, before, after
    <2>5. after + k <= bound
      BY <2>1, <2>2, <2>6
    <2> QED
      BY <2>1, <2>5 DEF PaidFor, bound, k, after
  <1> QED
    BY <1>3, <1>4, <1>5, <1>6 DEF LicenseInv

\* Time, licences and the tenant's state change without a request.
LEMMA RowSteps ==
    ASSUME LicenseInv,
           \/ \E l \in Licenses : InstallLicense(l) \/ TimePasses(l)
           \/ \E s \in {"ACTIVE", "SUSPENDED"} : SetTenantState(s)
           \/ UNCHANGED licenseVars
    PROVE  LicenseInv'
  <1>t. LicenseTypes /\ LimitsAreLicensed /\ PaidFor /\ SuspensionCounted
    BY DEF LicenseInv
  <1>1. UNCHANGED <<ledger, queued, stored, request, losses>>
    BY DEF InstallLicense, TimePasses, SetTenantState, licenseVars
  <1>2. /\ license' \in [Licenses -> {"none", "active", "inactive"}]
        /\ \A l \in Licenses : license'[l] = "active" => verify(l)
    BY <1>t DEF InstallLicense, TimePasses, SetTenantState, licenseVars, LicenseTypes, LimitsAreLicensed,
       verify, validatePayload
  <1>3. /\ tenant' \in {"ACTIVE", "SUSPENDED"} /\ late' \in Nat
        /\ late' = 0 \/ (late' = late /\ tenant' = tenant)
    BY <1>t DEF InstallLicense, TimePasses, SetTenantState, licenseVars, LicenseTypes
  <1>4. LicenseTypes'
    BY <1>1, <1>2, <1>3, <1>t DEF LicenseTypes
  <1>5. LimitsAreLicensed'
    BY <1>1, <1>2, <1>t DEF LimitsAreLicensed, verify, validatePayload
  <1>6. PaidFor'
    BY <1>1, <1>t DEF PaidFor, accepted, Reserved, Admitted
  <1>7. SuspensionCounted'
    <2>1. Serving' = Serving /\ Serving \subseteq Replicas
      BY <1>1 DEF Serving
    <2>2. Cardinality(Serving) \in Nat /\ Cardinality(Serving) <= Cardinality(Replicas)
      BY <2>1, ReplicaSets
    <2> QED
      BY <2>1, <2>2, <1>3, <1>t DEF SuspensionCounted
  <1> QED
    BY <1>4, <1>5, <1>6, <1>7 DEF LicenseInv

\* Storing an event does not change how many were accepted; losing the ledger
\* forgives what it had admitted, a day's limit at most.
LEMMA ExternalSteps ==
    ASSUME LicenseInv, Store \/ LoseLedger
    PROVE  LicenseInv'
  <1>t. LicenseTypes /\ LimitsAreLicensed /\ PaidFor /\ SuspensionCounted
    BY DEF LicenseInv
  <1>m. LargestLimit \in Nat
    BY LargestLimitFacts
  <1>1. UNCHANGED <<license, tenant, request, late>>
    BY DEF Store, LoseLedger
  <1>2. LicenseTypes'
    BY <1>1, <1>t DEF Store, LoseLedger, LicenseTypes, Missing
  <1>3. LimitsAreLicensed'
    BY <1>1, <1>t DEF LimitsAreLicensed, verify, validatePayload
  <1>4. SuspensionCounted'
    BY <1>1, <1>t DEF SuspensionCounted, Serving
  <1>5. Reserved' = Reserved /\ Cardinality(Reserved) \in Nat
    <2>1. Reserved \subseteq Replicas
      BY DEF Reserved
    <2> QED
      BY <1>1, <2>1, ReplicaSets DEF Reserved
  <1>6. CASE Store
    <2>1. accepted' = accepted /\ UNCHANGED <<ledger, losses>>
      BY <1>6, <1>t DEF Store, accepted, LicenseTypes
    <2>2. PaidFor'
      BY <2>1, <1>5, <1>t DEF PaidFor, Admitted
    <2> QED
      BY <1>2, <1>3, <1>4, <2>2 DEF LicenseInv
  <1>7. CASE LoseLedger
    <2>1. accepted' = accepted /\ losses' = losses + 1 /\ Admitted' = 0
      BY <1>7 DEF LoseLedger, accepted, Admitted
    <2>2. Admitted \in Nat /\ Admitted <= LargestLimit
      BY <1>m, <1>t DEF Admitted, LicenseTypes, Missing
    <2>3. LargestLimit * losses \in Nat /\ LargestLimit * (losses + 1) = LargestLimit * losses + LargestLimit
      BY <1>m, <1>t DEF LicenseTypes
    <2>4. accepted \in Nat
      BY <1>t DEF LicenseTypes, accepted
    <2>5. accepted + Cardinality(Reserved) <= LargestLimit * (losses + 1)
      BY <1>5, <1>m, <1>t, <2>2, <2>3, <2>4 DEF PaidFor
    <2>6. PaidFor'
      BY <1>5, <1>m, <1>t, <2>1, <2>3, <2>5 DEF PaidFor, LicenseTypes
    <2> QED
      BY <1>2, <1>3, <1>4, <2>6 DEF LicenseInv
  <1> QED
    BY <1>6, <1>7

\* Every step of admission keeps the invariant.
LEMMA LicenseStep ==
    ASSUME LicenseInv, [LicenseNext]_licenseVars
    PROVE  LicenseInv'
  <1>t. LicenseTypes /\ LimitsAreLicensed
    BY DEF LicenseInv
  <1>n. NoRequest \in RequestRows /\ NoRequest.limit <= LargestLimit /\ NoRequest.pc = "idle"
    BY LargestLimitFacts DEF NoRequest, RequestRows
  <1>r. ASSUME NEW r \in Replicas
        PROVE  request[r] \in RequestRows /\ request[r].limit \in Nat /\ request[r].baseline \in Nat
               /\ request[r].limit <= LargestLimit
    BY <1>t DEF LicenseTypes, LimitsAreLicensed, RequestRows
  <1>1. ASSUME NEW r \in Replicas, protectIngest(r) PROVE LicenseInv'
    <2> DEFINE q == [pc |-> "authorized", limit |-> request[r].limit, baseline |-> request[r].baseline]
    <2>1. q \in RequestRows /\ q.limit = request[r].limit /\ q.pc = "authorized"
      BY <1>r DEF RequestRows
    <2>2. /\ request' = [request EXCEPT ![r] = q] /\ tenant = "ACTIVE"
          /\ UNCHANGED <<license, tenant, ledger, queued, stored, losses, late>>
      BY <1>1 DEF protectIngest, Authorize, requestTo, requestHas
    <2> HIDE DEF q
    <2> QED
      BY <2>1, <2>2, <1>r, RequestStep
  <1>2. ASSUME NEW r \in Replicas, ReadLimits(r) PROVE LicenseInv'
    <2>0. /\ request[r].pc = "authorized"
          /\ UNCHANGED <<license, tenant, ledger, queued, stored, losses, late>>
      BY <1>2 DEF ReadLimits
    <2>1. CASE CurrentLicense = {}
      <3>1. request' = [request EXCEPT ![r] = NoRequest]
        BY <1>2, <2>1 DEF ReadLimits, requestDone
      <3> QED
        BY <3>1, <2>0, <1>n, RequestStep
    <2>2. CASE CurrentLicense # {}
      <3>1. PICK l \in CurrentLicense :
              request' = [request EXCEPT ![r] = [pc |-> "reserve", limit |-> DayLimit[l],
                                                 baseline |-> request[r].baseline]]
        BY <1>2, <2>2 DEF ReadLimits, requestHas
      <3>2. DayLimit[l] \in Nat /\ DayLimit[l] <= LargestLimit
        BY <1>t, LargestLimitFacts, LicenseAssumption DEF LimitsAreLicensed, CurrentLicense
      <3> DEFINE q == [pc |-> "reserve", limit |-> DayLimit[l], baseline |-> request[r].baseline]
      <3>3. q \in RequestRows /\ q.limit = DayLimit[l] /\ q.pc = "reserve"
        BY <3>2, <1>r DEF RequestRows
      <3>4. request' = [request EXCEPT ![r] = q]
        BY <3>1
      <3> HIDE DEF q
      <3> QED
        BY <3>2, <3>3, <3>4, <2>0, RequestStep
    <2> QED
      BY <2>1, <2>2
  <1>3. ASSUME NEW r \in Replicas, ReserveIngest(r) PROVE LicenseInv'
    <2>0. /\ request[r].pc = "reserve"
          /\ UNCHANGED <<license, tenant, queued, stored, losses, late>>
      BY <1>3 DEF ReserveIngest
    <2>1. CASE ledger = Missing
      <3> DEFINE q == [pc |-> "bootstrap", limit |-> request[r].limit, baseline |-> request[r].baseline]
      <3>1. q \in RequestRows /\ q.limit = request[r].limit /\ q.pc = "bootstrap"
        BY <1>r DEF RequestRows
      <3>2. request' = [request EXCEPT ![r] = q] /\ ledger' = ledger
        BY <1>3, <2>1 DEF ReserveIngest, requestTo, requestHas
      <3> HIDE DEF q
      <3> QED
        BY <2>0, <3>1, <3>2, <1>r, RequestStep
    <2>2. CASE ledger # Missing
      <3>1. ledger \in Nat /\ quotaScript(r, ledger)
        BY <1>3, <2>2, <1>t DEF ReserveIngest, LicenseTypes
      <3> QED
        BY <2>0, <3>1, ScriptStep
    <2> QED
      BY <2>1, <2>2
  <1>4. ASSUME NEW r \in Replicas, IngestUsage(r) PROVE LicenseInv'
    <2> DEFINE q == [pc |-> "rebase", limit |-> request[r].limit, baseline |-> stored]
    <2>1. q \in RequestRows /\ q.limit = request[r].limit /\ q.pc = "rebase"
      BY <1>r, <1>t DEF RequestRows, LicenseTypes
    <2>2. /\ request' = [request EXCEPT ![r] = q] /\ request[r].pc = "bootstrap"
          /\ UNCHANGED <<license, tenant, ledger, queued, stored, losses, late>>
      BY <1>4 DEF IngestUsage, requestHas
    <2> HIDE DEF q
    <2> QED
      BY <2>1, <2>2, <1>r, RequestStep
  <1>5. ASSUME NEW r \in Replicas, ReserveWithBaseline(r) PROVE LicenseInv'
    <2> DEFINE total == IF ledger = Missing THEN request[r].baseline ELSE ledger
    <2>1. total \in Nat /\ (total = ledger \/ ledger = Missing)
      BY <1>r, <1>t DEF LicenseTypes
    <2>2. /\ request[r].pc = "rebase" /\ quotaScript(r, total)
          /\ UNCHANGED <<license, tenant, queued, stored, losses, late>>
      BY <1>5 DEF ReserveWithBaseline
    <2> HIDE DEF total
    <2> QED
      BY <2>1, <2>2, ScriptStep
  <1> QED
    BY <1>1, <1>2, <1>3, <1>4, <1>5, QueueStep, RowSteps, ExternalSteps DEF LicenseNext

\* For any number of replicas, licences and losses of the ledger: the day's
\* accepted events stay within the largest limit for every ledger there was,
\* and a suspended tenant's within one per replica (protectIngest, ReserveIngestBatch
\* and the quota script).
THEOREM AdmissionStaysBounded == LicenseSpec => []AdmissionIsBounded
  <1>1. LicenseInit => LicenseInv
    <2> SUFFICES ASSUME LicenseInit PROVE LicenseInv
      OBVIOUS
    <2>1. NoRequest \in RequestRows /\ NoRequest.limit = 0 /\ NoRequest.pc = "idle"
      BY DEF NoRequest, RequestRows
    <2>2. LicenseTypes
      BY <2>1 DEF LicenseInit, LicenseTypes
    <2>3. LimitsAreLicensed
      BY <2>1, LargestLimitFacts DEF LicenseInit, LimitsAreLicensed
    <2>4. Reserved = {} /\ Cardinality({}) = 0
      BY <2>1, FS_EmptySet DEF LicenseInit, Reserved
    <2>5. LargestLimit * losses = 0
      BY LargestLimitFacts DEF LicenseInit
    <2>6. PaidFor
      BY <2>4, <2>5 DEF LicenseInit, PaidFor, accepted, Admitted
    <2>7. SuspensionCounted
      BY DEF LicenseInit, SuspensionCounted
    <2> QED
      BY <2>2, <2>3, <2>6, <2>7 DEF LicenseInv
  <1>2. LicenseInv => AdmissionIsBounded
    <2> SUFFICES ASSUME LicenseInv PROVE AdmissionIsBounded
      OBVIOUS
    <2>0. /\ Reserved \subseteq Replicas /\ Serving \subseteq Replicas /\ LargestLimit \in Nat
          /\ losses \in Nat /\ late \in Nat /\ accepted \in Nat
      BY LargestLimitFacts DEF Reserved, Serving, LicenseInv, LicenseTypes, accepted
    <2>1. /\ Cardinality(Reserved) \in Nat /\ Cardinality(Serving) \in Nat /\ Cardinality(Replicas) \in Nat
      BY <2>0, ReplicaSets
    <2>2. SuspensionBinds
      BY <2>0, <2>1 DEF LicenseInv, LicenseTypes, SuspensionCounted, SuspensionBinds
    <2>3. Admitted \in Nat /\ Admitted <= LargestLimit
      BY <2>0 DEF LicenseInv, LicenseTypes, Admitted, Missing
    <2>4. LargestLimit * losses \in Nat /\ LargestLimit * (losses + 1) = LargestLimit * losses + LargestLimit
      BY <2>0
    <2>5. QuotaHonoured
      BY <2>0, <2>1, <2>3, <2>4 DEF LicenseInv, PaidFor, QuotaHonoured
    <2> QED
      BY <2>2, <2>5 DEF AdmissionIsBounded
  <1>3. LicenseInv /\ [LicenseNext]_licenseVars => LicenseInv'
    BY LicenseStep
  <1> QED
    BY <1>1, <1>2, <1>3, PTL DEF LicenseSpec
----------------------------------------------------------------------------
(* The agent's credential                                                   *)

AgentStages == {"start", "enrolling", "running", "rotating", "persist", "moved"}
Files == [path : Nat, previous : Nat]
ControlRequests == [agent : Agents, with : Nat, n : Nat]

IdentityTypes ==
    /\ collector \in [Agents -> {"none", "ACTIVE", "REVOKED"}]
    /\ live \in [Agents -> SUBSET Nat]
    /\ issued \in [Agents -> Nat] /\ attempt \in [Agents -> Nat]
    /\ current \in [Agents -> Nat] /\ grant \in [Agents -> Nat]
    /\ pc \in [Agents -> AgentStages]
    /\ disk \in [Agents -> Files]
    /\ wire \subseteq ControlRequests
    /\ faults \in Nat /\ kept \subseteq Agents

\* At most the newest credential is live, and none before enrolment.
NewestIsLive(a) ==
    /\ live[a] \subseteq {issued[a]}
    /\ collector[a] = "none" => issued[a] = 0 /\ live[a] = {}

\* What the manager holds in memory agrees with its files at every stage of
\* the replacement.
MemoryMatchesFiles(a) ==
    /\ pc[a] = "start" => current[a] = 0
    /\ pc[a] = "enrolling" => current[a] = 0 /\ readPrivateFile(a) = 0
    /\ pc[a] \in {"running", "rotating"} => current[a] # 0 /\ current[a] = readPrivateFile(a)
    /\ pc[a] = "persist" => grant[a] # 0 /\ current[a] = disk[a].path
    /\ pc[a] = "moved" => grant[a] # 0 /\ disk[a].path = 0 /\ current[a] = disk[a].previous

\* A backup that stands alone was revoked before it was moved: an agent that
\* restarts from it is refused, and so never overwrites it.
BackupIsSuperseded(a) ==
    /\ pc[a] = "persist" => IF disk[a].path = 0 THEN disk[a].previous = 0 ELSE disk[a].path < issued[a]
    /\ disk[a].path = 0 /\ disk[a].previous # 0 => disk[a].previous < issued[a]

\* Until something cuts the agent off, its file, or the answer it is writing
\* to it, holds the live credential.
FileIsLive(a) ==
    a \notin cut =>
        IF pc[a] \in {"persist", "moved"}
        THEN credentialAccepted(a, grant[a])
        ELSE readPrivateFile(a) # 0 => credentialAccepted(a, readPrivateFile(a))

AgentInv(a) ==
    /\ NewestIsLive(a) /\ MemoryMatchesFiles(a) /\ BackupIsSuperseded(a) /\ FileIsLive(a)
    /\ a \in kept => readPrivateFile(a) # 0

\* A request the agent no longer waits for was sent before the last fault, so
\* its answer cannot be taken for that of a later one; the awaited request
\* carries the credential the agent holds.
RequestInv(m) ==
    IF awaited(m)
    THEN m.n <= faults /\ m.with = current[m.agent]
    ELSE m.n < faults

IdentityInv ==
    /\ IdentityTypes
    /\ \A a \in Agents : AgentInv(a)
    /\ \A m \in wire : RequestInv(m)

\* What a step of one agent leaves alone: the rows, files and memory of the
\* others.
OthersUntouched(a) ==
    \A b \in Agents \ {a} :
        /\ pc'[b] = pc[b] /\ current'[b] = current[b] /\ grant'[b] = grant[b] /\ disk'[b] = disk[b]
        /\ live'[b] = live[b] /\ issued'[b] = issued[b] /\ collector'[b] = collector[b]
        /\ attempt'[b] = attempt[b]
        /\ b \in cut' <=> b \in cut
        /\ b \in kept' <=> b \in kept

\* A step of one agent, or of the server for it, keeps the invariant of the
\* other agents' credentials.
LEMMA OthersKeepTheirs ==
    ASSUME IdentityInv, NEW a \in Agents, OthersUntouched(a), AgentInv(a)'
    PROVE  \A b \in Agents : AgentInv(b)'
  <1> SUFFICES ASSUME NEW b \in Agents, b # a PROVE AgentInv(b)'
    OBVIOUS
  <1>1. AgentInv(b)
    BY DEF IdentityInv
  <1>2. /\ pc'[b] = pc[b] /\ current'[b] = current[b] /\ grant'[b] = grant[b] /\ disk'[b] = disk[b]
        /\ live'[b] = live[b] /\ issued'[b] = issued[b] /\ collector'[b] = collector[b]
        /\ b \in cut' <=> b \in cut
        /\ b \in kept' <=> b \in kept
    BY DEF OthersUntouched
  <1> QED
    BY <1>1, <1>2 DEF AgentInv, NewestIsLive, MemoryMatchesFiles, BackupIsSuperseded, FileIsLive,
                      readPrivateFile, credentialAccepted

\* A request of another agent stays what it was when a step of this one
\* leaves the others alone and no fault is taken back.
LEMMA RequestsOfOthers ==
    ASSUME IdentityInv, NEW a \in Agents, OthersUntouched(a), faults' \in Nat, faults' >= faults,
           NEW m \in wire, m.agent # a
    PROVE  RequestInv(m)'
  <1>1. m.agent \in Agents /\ m.n \in Nat /\ faults \in Nat
    BY DEF IdentityInv, IdentityTypes, ControlRequests
  <1>2. RequestInv(m)
    BY DEF IdentityInv
  <1>3. pc'[m.agent] = pc[m.agent] /\ current'[m.agent] = current[m.agent] /\ attempt'[m.agent] = attempt[m.agent]
    BY <1>1 DEF OthersUntouched
  <1> QED
    BY <1>1, <1>2, <1>3 DEF RequestInv, awaited

\* Starting: the stored credential is used as it is, and only an agent with
\* no file enrols (CredentialManager.Ensure).
LEMMA EnsureStep ==
    ASSUME IdentityInv, NEW a \in Agents, Ensure(a)
    PROVE  IdentityInv'
  <1>t. IdentityTypes /\ AgentInv(a) /\ disk[a] \in Files /\ readPrivateFile(a) \in Nat
    BY DEF IdentityInv, IdentityTypes, readPrivateFile, Files
  <1>1. /\ pc[a] = "start"
        /\ UNCHANGED <<grant, disk, faults, kept, token, collector, live, issued, cut>>
    BY DEF Ensure, serverVars
  <1>2. \/ /\ readPrivateFile(a) # 0 /\ current' = [current EXCEPT ![a] = readPrivateFile(a)]
           /\ pc' = [pc EXCEPT ![a] = "running"] /\ UNCHANGED <<wire, attempt>>
        \/ /\ readPrivateFile(a) = 0 /\ current' = current
           /\ pc' = [pc EXCEPT ![a] = "enrolling"] /\ attempt' = [attempt EXCEPT ![a] = faults]
           /\ wire' = wire \cup {[agent |-> a, with |-> 0, n |-> faults]}
    BY DEF Ensure, send
  <1>3. IdentityTypes'
    BY <1>1, <1>2, <1>t DEF IdentityTypes, ControlRequests, AgentStages
  <1>4. OthersUntouched(a)
    BY <1>1, <1>2, <1>t DEF OthersUntouched, IdentityTypes
  <1>5. AgentInv(a)'
    BY <1>1, <1>2, <1>t DEF AgentInv, NewestIsLive, MemoryMatchesFiles, BackupIsSuperseded, FileIsLive,
                            readPrivateFile, credentialAccepted, IdentityTypes
  <1>6. ASSUME NEW m \in wire' PROVE RequestInv(m)'
    <2>1. CASE m \in wire /\ m.agent # a
      BY <2>1, <1>1, <1>4, <1>t, RequestsOfOthers DEF IdentityTypes
    <2>2. CASE m \in wire /\ m.agent = a
      <3>1. m.n \in Nat /\ faults \in Nat /\ m.n < faults
        BY <2>2, <1>1, <1>t DEF IdentityInv, RequestInv, awaited, IdentityTypes, ControlRequests
      <3> QED
        BY <3>1, <2>2, <1>1, <1>2, <1>t DEF RequestInv, awaited, IdentityTypes
    <2>3. CASE m = [agent |-> a, with |-> 0, n |-> faults] /\ current' = current /\ pc'[a] = "enrolling"
               /\ attempt'[a] = faults
      BY <2>3, <1>1, <1>t DEF RequestInv, awaited, IdentityTypes, AgentInv, MemoryMatchesFiles
    <2> QED
      BY <2>1, <2>2, <2>3, <1>2, <1>t DEF IdentityTypes
  <1>7. \A b \in Agents : AgentInv(b)'
    BY <1>4, <1>5, OthersKeepTheirs
  <1> QED
    BY <1>3, <1>6, <1>7 DEF IdentityInv

\* Asking for a replacement sends the credential the agent holds
\* (CredentialManager.Rotate).
LEMMA RotateStep ==
    ASSUME IdentityInv, NEW a \in Agents, Rotate(a)
    PROVE  IdentityInv'
  <1>t. IdentityTypes /\ AgentInv(a)
    BY DEF IdentityInv
  <1>1. /\ pc[a] = "running" /\ pc' = [pc EXCEPT ![a] = "rotating"]
        /\ attempt' = [attempt EXCEPT ![a] = faults]
        /\ wire' = wire \cup {[agent |-> a, with |-> current[a], n |-> faults]}
        /\ UNCHANGED <<current, grant, disk, faults, kept, token, collector, live, issued, cut>>
    BY DEF Rotate, send, serverVars
  <1>3. IdentityTypes'
    BY <1>1, <1>t DEF IdentityTypes, ControlRequests, AgentStages
  <1>4. OthersUntouched(a)
    BY <1>1, <1>t DEF OthersUntouched, IdentityTypes
  <1>5. AgentInv(a)'
    BY <1>1, <1>t DEF AgentInv, NewestIsLive, MemoryMatchesFiles, BackupIsSuperseded, FileIsLive,
                      readPrivateFile, credentialAccepted, IdentityTypes
  <1>6. ASSUME NEW m \in wire' PROVE RequestInv(m)'
    <2>1. CASE m \in wire /\ m.agent # a
      BY <2>1, <1>1, <1>4, <1>t, RequestsOfOthers DEF IdentityTypes
    <2>2. CASE m \in wire /\ m.agent = a
      <3>1. m.n \in Nat /\ faults \in Nat /\ m.n < faults
        BY <2>2, <1>1, <1>t DEF IdentityInv, RequestInv, awaited, IdentityTypes, ControlRequests
      <3> QED
        BY <3>1, <2>2, <1>1, <1>t DEF RequestInv, awaited, IdentityTypes
    <2>3. CASE m = [agent |-> a, with |-> current[a], n |-> faults]
      BY <2>3, <1>1, <1>t DEF RequestInv, awaited, IdentityTypes
    <2> QED
      BY <2>1, <2>2, <2>3, <1>1
  <1>7. \A b \in Agents : AgentInv(b)'
    BY <1>4, <1>5, OthersKeepTheirs
  <1> QED
    BY <1>3, <1>6, <1>7 DEF IdentityInv

\* A step that sends and answers nothing keeps the invariant if it keeps this
\* agent's part of it: the agent waits as it did, or it waits no longer and,
\* if it gave up waiting, counted a fault.
LEMMA SilentStep ==
    ASSUME IdentityInv, NEW a \in Agents, OthersUntouched(a), IdentityTypes', AgentInv(a)', wire' = wire,
           \/ /\ pc'[a] = pc[a] /\ current'[a] = current[a] /\ attempt'[a] = attempt[a] /\ faults' = faults
           \/ /\ pc'[a] \notin {"enrolling", "rotating"}
              /\ \/ faults' = faults + 1
                 \/ faults' = faults /\ pc[a] \notin {"enrolling", "rotating"}
    PROVE  IdentityInv'
  <1>t. faults \in Nat /\ faults' \in Nat
    BY DEF IdentityInv, IdentityTypes
  <1>0. faults' = faults \/ faults' = faults + 1
    OBVIOUS
  <1>1. faults' >= faults
    BY <1>t, <1>0
  <1>2. ASSUME NEW m \in wire' PROVE RequestInv(m)'
    <2>1. CASE m.agent # a
      BY <2>1, <1>1, <1>t, RequestsOfOthers
    <2>2. CASE m.agent = a
      <3>1. RequestInv(m) /\ m.n \in Nat
        BY DEF IdentityInv, IdentityTypes, ControlRequests
      <3> QED
        BY <3>1, <2>2, <1>t DEF RequestInv, awaited
    <2> QED
      BY <2>1, <2>2
  <1> QED
    BY <1>2, OthersKeepTheirs DEF IdentityInv

\* The client gives up on its request and stays with what it has (postJSON).
LEMMA TimeoutStep ==
    ASSUME IdentityInv, NEW a \in Agents, Timeout(a)
    PROVE  IdentityInv'
  <1>t. IdentityTypes /\ AgentInv(a) /\ disk[a] \in Files
    BY DEF IdentityInv, IdentityTypes
  <1>1. /\ pc[a] \in {"enrolling", "rotating"} /\ faults' = faults + 1
        /\ pc' = [pc EXCEPT ![a] = IF @ = "enrolling" THEN "start" ELSE "running"]
        /\ UNCHANGED <<attempt, current, grant, disk, kept, token, collector, live, issued, wire, cut>>
    BY DEF Timeout, serverVars
  <1>2. IdentityTypes'
    BY <1>1, <1>t DEF IdentityTypes, Files, AgentStages
  <1>3. OthersUntouched(a)
    BY <1>1, <1>t DEF OthersUntouched, IdentityTypes
  <1>4. AgentInv(a)'
    BY <1>1, <1>t DEF AgentInv, NewestIsLive, MemoryMatchesFiles, BackupIsSuperseded, FileIsLive,
                      readPrivateFile, credentialAccepted, IdentityTypes, Files
  <1> QED
    BY <1>1, <1>2, <1>3, <1>4, <1>t, SilentStep DEF IdentityTypes

\* A crash loses the memory; one that loses a granted credential cuts the
\* agent off.
LEMMA CrashStep ==
    ASSUME IdentityInv, NEW a \in Agents, Crash(a)
    PROVE  IdentityInv'
  <1>t. IdentityTypes /\ AgentInv(a) /\ disk[a] \in Files
    BY DEF IdentityInv, IdentityTypes
  <1>1. /\ pc' = [pc EXCEPT ![a] = "start"] /\ faults' = faults + 1
        /\ current' = [current EXCEPT ![a] = 0] /\ grant' = [grant EXCEPT ![a] = 0]
        /\ cut' = IF grant[a] # 0 THEN cut \cup {a} ELSE cut
        /\ UNCHANGED <<attempt, disk, kept, token, collector, live, issued, wire>>
    BY DEF Crash, serverVars
  <1>2. IdentityTypes'
    BY <1>1, <1>t DEF IdentityTypes, Files, AgentStages
  <1>3. OthersUntouched(a)
    BY <1>1, <1>t DEF OthersUntouched, IdentityTypes
  <1>4. AgentInv(a)'
    BY <1>1, <1>t DEF AgentInv, NewestIsLive, MemoryMatchesFiles, BackupIsSuperseded, FileIsLive,
                      readPrivateFile, credentialAccepted, IdentityTypes, Files
  <1> QED
    BY <1>1, <1>2, <1>3, <1>4, <1>t, SilentStep DEF IdentityTypes

\* One rename puts the granted credential in place (writePrivateJSON).
LEMMA RenameStep ==
    ASSUME IdentityInv, NEW a \in Agents, WriteRename(a)
    PROVE  IdentityInv'
  <1>t. IdentityTypes /\ AgentInv(a) /\ disk[a] \in Files
    BY DEF IdentityInv, IdentityTypes
  <1>1. /\ pc[a] = "persist" /\ pc' = [pc EXCEPT ![a] = "running"]
        /\ disk' = [disk EXCEPT ![a] = [path |-> grant[a], previous |-> disk[a].previous]]
        /\ current' = [current EXCEPT ![a] = grant[a]] /\ grant' = [grant EXCEPT ![a] = 0]
        /\ kept' = kept \cup {a}
        /\ UNCHANGED <<attempt, faults, token, collector, live, issued, wire, cut>>
    BY DEF WriteRename, serverVars, persisted
  <1>2. IdentityTypes'
    BY <1>1, <1>t DEF IdentityTypes, Files, AgentStages
  <1>3. OthersUntouched(a)
    BY <1>1, <1>t DEF OthersUntouched, IdentityTypes
  <1>4. AgentInv(a)'
    BY <1>1, <1>t DEF AgentInv, NewestIsLive, MemoryMatchesFiles, BackupIsSuperseded, FileIsLive,
                      readPrivateFile, credentialAccepted, IdentityTypes, Files
  <1> QED
    BY <1>1, <1>2, <1>3, <1>4, <1>t, SilentStep DEF IdentityTypes

\* The file becomes the backup: the old backup it replaces is not the only
\* copy, for an agent that starts from a backup alone is never granted more.
LEMMA BackupStep ==
    ASSUME IdentityInv, NEW a \in Agents, WriteBackup(a)
    PROVE  IdentityInv'
  <1>t. IdentityTypes /\ AgentInv(a) /\ disk[a] \in Files
    BY DEF IdentityInv, IdentityTypes
  <1>1. /\ pc[a] = "persist" /\ pc' = [pc EXCEPT ![a] = "moved"]
        /\ disk' = [disk EXCEPT ![a] = [path |-> 0, previous |-> disk[a].path]]
        /\ UNCHANGED <<attempt, current, grant, faults, kept, token, collector, live, issued, wire, cut>>
    BY DEF WriteBackup, serverVars
  <1>2. IdentityTypes'
    BY <1>1, <1>t DEF IdentityTypes, Files, AgentStages
  <1>3. OthersUntouched(a)
    BY <1>1, <1>t DEF OthersUntouched, IdentityTypes
  <1>4. AgentInv(a)'
    BY <1>1, <1>t DEF AgentInv, NewestIsLive, MemoryMatchesFiles, BackupIsSuperseded, FileIsLive,
                      readPrivateFile, credentialAccepted, IdentityTypes, Files
  <1> QED
    BY <1>1, <1>2, <1>3, <1>4, <1>t, SilentStep DEF IdentityTypes

\* The new file takes its place, whether or not the backup can be removed.
LEMMA ReplaceStep ==
    ASSUME IdentityInv, NEW a \in Agents, WriteReplace(a)
    PROVE  IdentityInv'
  <1>t. IdentityTypes /\ AgentInv(a) /\ disk[a] \in Files
    BY DEF IdentityInv, IdentityTypes
  <1>1. /\ pc[a] = "moved" /\ pc' = [pc EXCEPT ![a] = "running"]
        /\ \/ disk' = [disk EXCEPT ![a] = [path |-> grant[a], previous |-> 0]]
           \/ disk' = [disk EXCEPT ![a] = [path |-> grant[a], previous |-> disk[a].previous]]
        /\ current' = [current EXCEPT ![a] = grant[a]] /\ grant' = [grant EXCEPT ![a] = 0]
        /\ kept' = kept \cup {a}
        /\ UNCHANGED <<attempt, faults, token, collector, live, issued, wire, cut>>
    BY DEF WriteReplace, serverVars, persisted
  <1>2. IdentityTypes'
    <2>1. /\ [path |-> grant[a], previous |-> 0] \in Files
          /\ [path |-> grant[a], previous |-> disk[a].previous] \in Files
      BY <1>t DEF IdentityTypes, Files
    <2>2. disk' \in [Agents -> Files]
      BY <1>1, <1>t, <2>1 DEF IdentityTypes
    <2>3. pc' \in [Agents -> AgentStages]
      BY <1>1, <1>t DEF IdentityTypes, AgentStages
    <2>4. current' \in [Agents -> Nat] /\ grant' \in [Agents -> Nat]
      BY <1>1, <1>t DEF IdentityTypes
    <2> QED
      BY <1>1, <1>t, <2>2, <2>3, <2>4 DEF IdentityTypes
  <1>3. OthersUntouched(a)
    BY <1>1, <1>t DEF OthersUntouched, IdentityTypes
  <1>4. AgentInv(a)'
    BY <1>1, <1>t DEF AgentInv, NewestIsLive, MemoryMatchesFiles, BackupIsSuperseded, FileIsLive,
                      readPrivateFile, credentialAccepted, IdentityTypes, Files
  <1> QED
    BY <1>1, <1>2, <1>3, <1>4, <1>t, SilentStep DEF IdentityTypes

\* A failed write puts the old file back, and the grant is lost.
LEMMA WriteFailsStep ==
    ASSUME IdentityInv, NEW a \in Agents, WriteFails(a)
    PROVE  IdentityInv'
  <1>t. IdentityTypes /\ AgentInv(a) /\ disk[a] \in Files
    BY DEF IdentityInv, IdentityTypes
  <1>1. /\ pc[a] \in {"persist", "moved"} /\ faults' = faults + 1
        /\ disk' = IF pc[a] = "moved"
                   THEN [disk EXCEPT ![a] = [path |-> disk[a].previous, previous |-> 0]] ELSE disk
        /\ grant' = [grant EXCEPT ![a] = 0]
        /\ pc' = [pc EXCEPT ![a] = IF current[a] = 0 THEN "start" ELSE "running"]
        /\ cut' = cut \cup {a}
        /\ UNCHANGED <<attempt, current, kept, token, collector, live, issued, wire>>
    BY DEF WriteFails, serverVars
  <1>2. IdentityTypes'
    BY <1>1, <1>t DEF IdentityTypes, Files, AgentStages
  <1>3. OthersUntouched(a)
    BY <1>1, <1>t DEF OthersUntouched, IdentityTypes
  <1>4. AgentInv(a)'
    BY <1>1, <1>t DEF AgentInv, NewestIsLive, MemoryMatchesFiles, BackupIsSuperseded, FileIsLive,
                      readPrivateFile, credentialAccepted, IdentityTypes, Files
  <1> QED
    BY <1>1, <1>2, <1>3, <1>4, <1>t, SilentStep DEF IdentityTypes

\* A credential expires, and the agent is cut off.
LEMMA ExpireStep ==
    ASSUME IdentityInv, NEW a \in Agents, Expire(a)
    PROVE  IdentityInv'
  <1>t. IdentityTypes /\ AgentInv(a) /\ disk[a] \in Files
    BY DEF IdentityInv, IdentityTypes
  <1>1. /\ live' = [live EXCEPT ![a] = {}] /\ cut' = cut \cup {a}
        /\ UNCHANGED <<attempt, pc, current, grant, disk, faults, kept, token, collector, issued, wire>>
    BY DEF Expire, serverVars, agentVars
  <1>2. IdentityTypes'
    BY <1>1, <1>t DEF IdentityTypes, Files, AgentStages
  <1>3. OthersUntouched(a)
    BY <1>1, <1>t DEF OthersUntouched, IdentityTypes
  <1>4. AgentInv(a)'
    BY <1>1, <1>t DEF AgentInv, NewestIsLive, MemoryMatchesFiles, BackupIsSuperseded, FileIsLive,
                      readPrivateFile, credentialAccepted, IdentityTypes, Files
  <1> QED
    BY <1>1, <1>2, <1>3, <1>4, <1>t, SilentStep DEF IdentityTypes

\* An operator suspends or restores a collector that is enrolled.
LEMMA CollectorStateStep ==
    ASSUME IdentityInv, NEW a \in Agents, NEW s \in {"ACTIVE", "REVOKED"}, SetCollectorState(a, s)
    PROVE  IdentityInv'
  <1>t. IdentityTypes /\ AgentInv(a) /\ disk[a] \in Files
    BY DEF IdentityInv, IdentityTypes
  <1>1. /\ collector[a] # "none" /\ collector' = [collector EXCEPT ![a] = s] /\ cut' = cut \cup {a}
        /\ UNCHANGED <<attempt, pc, current, grant, disk, faults, kept, token, live, issued, wire>>
    BY DEF SetCollectorState, serverVars, agentVars
  <1>2. IdentityTypes'
    BY <1>1, <1>t DEF IdentityTypes, Files, AgentStages
  <1>3. OthersUntouched(a)
    BY <1>1, <1>t DEF OthersUntouched, IdentityTypes
  <1>4. AgentInv(a)'
    BY <1>1, <1>t DEF AgentInv, NewestIsLive, MemoryMatchesFiles, BackupIsSuperseded, FileIsLive,
                      readPrivateFile, credentialAccepted, IdentityTypes, Files
  <1> QED
    BY <1>1, <1>2, <1>3, <1>4, <1>t, SilentStep DEF IdentityTypes

\* The other requests of an agent whose awaited request is taken from the
\* wire were sent before the last fault: two requests it could both be
\* waiting for are the same request.
LEMMA OnlyOneIsAwaited ==
    ASSUME IdentityInv, NEW m \in wire, NEW o \in wire \ {m}, o.agent = m.agent
    PROVE  /\ o.n \in Nat
           /\ awaited(m) => ~awaited(o) /\ o.n < faults
  <1>1. m \in ControlRequests /\ o \in ControlRequests /\ RequestInv(m) /\ RequestInv(o)
    BY DEF IdentityInv, IdentityTypes
  <1>2. o.n \in Nat
    BY <1>1 DEF ControlRequests
  <1>3. ASSUME awaited(m), awaited(o) PROVE FALSE
    <2>1. o.n = m.n /\ o.with = m.with
      BY <1>1, <1>3 DEF RequestInv, awaited
    <2>2. o = m
      BY <2>1, <1>1 DEF ControlRequests
    <2> QED
      BY <2>2
  <1> QED
    BY <1>1, <1>2, <1>3 DEF RequestInv

\* A refused request changes nothing but the wire, and the agent that waits
\* for it goes back to what it was doing (refusal in httpapi, postJSON).
LEMMA RefuseStep ==
    ASSUME IdentityInv, NEW m \in wire, refuse(m), UNCHANGED <<attempt, current, disk, faults, kept>>
    PROVE  IdentityInv'
  <1>t. IdentityTypes /\ m \in ControlRequests /\ m.agent \in Agents /\ m.with \in Nat /\ AgentInv(m.agent)
    BY DEF IdentityInv, IdentityTypes, ControlRequests
  <1>1. PICK a \in Agents : a = m.agent
    BY <1>t
  <1>2. /\ wire' = wire \ {m}
        /\ pc' = [pc EXCEPT ![a] = IF ~awaited(m) THEN pc[a] ELSE IF m.with = 0 THEN "start" ELSE "running"]
        /\ UNCHANGED <<grant, cut, token, collector, live, issued, attempt, current, disk, faults, kept>>
    BY <1>1 DEF refuse, serverVars
  <1>3. IdentityTypes'
    BY <1>2, <1>t DEF IdentityTypes, AgentStages
  <1>4. OthersUntouched(a)
    BY <1>2, <1>t DEF OthersUntouched, IdentityTypes
  <1>5. AgentInv(a)'
    <2>1. CASE ~awaited(m)
      <3>1. pc' = pc
        BY <2>1, <1>2, <1>t DEF IdentityTypes
      <3> QED
        BY <3>1, <1>1, <1>2, <1>t DEF AgentInv, NewestIsLive, MemoryMatchesFiles, BackupIsSuperseded,
                                      FileIsLive, readPrivateFile, credentialAccepted
    <2>2. CASE awaited(m)
      <3>1. pc[a] \in {"enrolling", "rotating"} /\ m.with = current[a]
        BY <2>2, <1>1 DEF IdentityInv, RequestInv, awaited
      <3>2. pc'[a] = IF current[a] = 0 THEN "start" ELSE "running"
        BY <3>1, <2>2, <1>2, <1>t DEF IdentityTypes
      <3> QED
        BY <3>1, <3>2, <1>1, <1>2, <1>t DEF AgentInv, NewestIsLive, MemoryMatchesFiles, BackupIsSuperseded,
                                            FileIsLive, readPrivateFile, credentialAccepted
    <2> QED
      BY <2>1, <2>2
  <1>6. ASSUME NEW o \in wire' PROVE RequestInv(o)'
    <2>0. o \in wire \ {m} /\ faults' \in Nat /\ faults' >= faults
      BY <1>2, <1>t DEF IdentityTypes
    <2>1. CASE o.agent # a
      BY <2>0, <2>1, <1>4, RequestsOfOthers
    <2>2. CASE o.agent = a /\ ~awaited(m)
      <3>1. pc' = pc
        BY <2>2, <1>2, <1>t DEF IdentityTypes
      <3>2. RequestInv(o)
        BY <2>0 DEF IdentityInv
      <3> QED
        BY <3>1, <3>2, <2>2, <1>2 DEF RequestInv, awaited
    <2>3. CASE o.agent = a /\ awaited(m)
      <3>1. o.n < faults
        BY <2>0, <2>3, <1>1, OnlyOneIsAwaited
      <3>2. pc'[a] \notin {"enrolling", "rotating"}
        BY <2>3, <1>2, <1>t DEF IdentityTypes
      <3> QED
        BY <3>1, <3>2, <2>3, <1>2 DEF RequestInv, awaited
    <2> QED
      BY <2>1, <2>2, <2>3
  <1> QED
    BY <1>3, <1>4, <1>5, <1>6, OthersKeepTheirs DEF IdentityInv

\* A credential is issued and its answer is on the way: to the agent that
\* waits for it, or to one that gave the request up and is cut off.
LEMMA IssueStep ==
    ASSUME IdentityInv, NEW m \in wire, answer(m), UNCHANGED <<attempt, current, disk, faults, kept>>,
           issue(m.agent, {m.with}),
           collector'[m.agent] = "ACTIVE", collector' \in [Agents -> {"none", "ACTIVE", "REVOKED"}],
           \A b \in Agents \ {m.agent} : collector'[b] = collector[b],
           live[m.agent] \subseteq {m.with}, m.with # 0 => m.with = issued[m.agent]
    PROVE  IdentityInv'
  <1>t. IdentityTypes /\ m \in ControlRequests /\ m.agent \in Agents /\ m.with \in Nat /\ AgentInv(m.agent)
    BY DEF IdentityInv, IdentityTypes, ControlRequests
  <1>1. PICK a \in Agents : a = m.agent
    BY <1>t
  <1>i. PICK i \in Nat : i = issued[a] + 1
    BY <1>t DEF IdentityTypes
  <1>2. /\ wire' = wire \ {m}
        /\ issued' = [issued EXCEPT ![a] = i] /\ live' = [live EXCEPT ![a] = {i}]
        /\ UNCHANGED <<attempt, current, disk, faults, kept>>
    BY <1>1, <1>i, <1>t DEF answer, issue, IdentityTypes
  <1>3. \/ /\ awaited(m) /\ grant' = [grant EXCEPT ![a] = i] /\ pc' = [pc EXCEPT ![a] = "persist"] /\ cut' = cut
        \/ /\ ~awaited(m) /\ cut' = cut \cup {a} /\ grant' = grant /\ pc' = pc
    BY <1>1, <1>2, <1>t DEF answer, IdentityTypes
  <1>4. IdentityTypes'
    BY <1>2, <1>3, <1>i, <1>t DEF IdentityTypes, AgentStages
  <1>5. OthersUntouched(a)
    BY <1>1, <1>2, <1>3, <1>t DEF OthersUntouched, IdentityTypes
  <1>n. issued[a] \in Nat /\ disk[a].path \in Nat /\ disk[a].previous \in Nat /\ i = issued[a] + 1
        /\ issued'[a] = i /\ live'[a] = {i} /\ collector'[a] = "ACTIVE" /\ disk'[a] = disk[a]
        /\ current'[a] = current[a]
    BY <1>1, <1>2, <1>i, <1>t DEF IdentityTypes, Files
  <1>6. AgentInv(a)'
    <2>1. CASE ~awaited(m)
      BY <2>1, <1>1, <1>2, <1>3, <1>n, <1>t
         DEF AgentInv, NewestIsLive, MemoryMatchesFiles, BackupIsSuperseded, FileIsLive, readPrivateFile
    <2>2. CASE awaited(m)
      <3>1. pc[a] \in {"enrolling", "rotating"} /\ m.with = current[a]
        BY <2>2, <1>1 DEF IdentityInv, RequestInv, awaited
      <3>2. pc'[a] = "persist" /\ grant'[a] = i /\ cut' = cut /\ kept' = kept
        BY <2>2, <1>2, <1>3, <1>t DEF IdentityTypes
      <3>3. current[a] # 0 => current[a] = issued[a]
        BY <3>1, <1>1
      <3>4. /\ current[a] = disk[a].path
            /\ IF disk[a].path = 0 THEN disk[a].previous = 0 ELSE disk[a].path < i
        BY <3>1, <3>3, <1>1, <1>n, <1>t
           DEF AgentInv, MemoryMatchesFiles, BackupIsSuperseded, readPrivateFile
      <3> QED
        BY <3>2, <3>4, <1>1, <1>n, <1>t
           DEF AgentInv, NewestIsLive, MemoryMatchesFiles, BackupIsSuperseded, FileIsLive,
               readPrivateFile, credentialAccepted
    <2> QED
      BY <2>1, <2>2
  <1>7. ASSUME NEW o \in wire' PROVE RequestInv(o)'
    <2>0. o \in wire \ {m} /\ faults' \in Nat /\ faults' >= faults
      BY <1>2, <1>t DEF IdentityTypes
    <2>1. CASE o.agent # a
      BY <2>0, <2>1, <1>5, RequestsOfOthers
    <2>2. CASE o.agent = a /\ ~awaited(m)
      <3>1. RequestInv(o)
        BY <2>0 DEF IdentityInv
      <3> QED
        BY <3>1, <2>2, <1>2, <1>3 DEF RequestInv, awaited
    <2>3. CASE o.agent = a /\ awaited(m)
      <3>1. o.n < faults
        BY <2>0, <2>3, <1>1, OnlyOneIsAwaited
      <3>2. pc'[a] = "persist"
        BY <2>3, <1>3, <1>t DEF IdentityTypes
      <3> QED
        BY <3>1, <3>2, <2>3, <1>2 DEF RequestInv, awaited
    <2> QED
      BY <2>1, <2>2, <2>3
  <1> QED
    BY <1>4, <1>5, <1>6, <1>7, OthersKeepTheirs DEF IdentityInv

\* The token's transaction creates the collector once, and the identity's
\* second enrolment is refused (ConsumeAgentEnrollment).
LEMMA EnrolStep ==
    ASSUME IdentityInv, NEW m \in wire, ConsumeAgentEnrollment(m)
    PROVE  IdentityInv'
  <1>t. IdentityTypes /\ m.agent \in Agents /\ AgentInv(m.agent)
    BY DEF IdentityInv, IdentityTypes, ControlRequests
  <1>u. UNCHANGED <<attempt, current, disk, faults, kept>> /\ m.with = 0
    BY DEF ConsumeAgentEnrollment
  <1>1. CASE refuse(m)
    BY <1>1, <1>u, RefuseStep
  <1>2. CASE /\ collector[m.agent] = "none" /\ collector' = [collector EXCEPT ![m.agent] = "ACTIVE"]
             /\ issue(m.agent, {}) /\ answer(m)
    <2>1. live[m.agent] = {} /\ issue(m.agent, {m.with})
      BY <1>2, <1>t DEF AgentInv, NewestIsLive, issue
    <2> QED
      BY <2>1, <1>2, <1>u, <1>t, IssueStep DEF IdentityTypes
  <1> QED
    BY <1>1, <1>2 DEF ConsumeAgentEnrollment

\* The transaction that issues the replacement revokes the credential it was
\* asked with, which it found live (RotateAgentCredential).
LEMMA RotationStep ==
    ASSUME IdentityInv, NEW m \in wire, RotateAgentCredential(m)
    PROVE  IdentityInv'
  <1>t. IdentityTypes /\ m.agent \in Agents /\ AgentInv(m.agent)
    BY DEF IdentityInv, IdentityTypes, ControlRequests
  <1>u. UNCHANGED <<attempt, current, disk, faults, kept>> /\ m.with # 0
    BY DEF RotateAgentCredential
  <1>1. CASE refuse(m)
    BY <1>1, <1>u, RefuseStep
  <1>2. CASE /\ m.with \in live[m.agent] /\ collector[m.agent] = "ACTIVE" /\ collector' = collector
             /\ issue(m.agent, {m.with}) /\ answer(m)
    <2>1. live[m.agent] \subseteq {m.with} /\ m.with = issued[m.agent]
      BY <1>2, <1>t DEF AgentInv, NewestIsLive
    <2> QED
      BY <2>1, <1>2, <1>u, <1>t, IssueStep DEF IdentityTypes
  <1> QED
    BY <1>1, <1>2 DEF RotateAgentCredential

\* Every step keeps the invariant.
LEMMA IdentityInductive == IdentityInv /\ [IdentityNext]_identityVars => IdentityInv'
  <1> SUFFICES ASSUME IdentityInv, [IdentityNext]_identityVars PROVE IdentityInv'
    OBVIOUS
  <1>1. CASE \E a \in Agents : \/ Ensure(a) \/ Rotate(a) \/ Timeout(a) \/ Crash(a)
                               \/ WriteRename(a) \/ WriteBackup(a) \/ WriteReplace(a) \/ WriteFails(a)
                               \/ Expire(a)
                               \/ \E s \in {"ACTIVE", "REVOKED"} : SetCollectorState(a, s)
    BY <1>1, EnsureStep, RotateStep, TimeoutStep, CrashStep, RenameStep, BackupStep, ReplaceStep,
       WriteFailsStep, ExpireStep, CollectorStateStep
  <1>2. CASE \E m \in wire : ConsumeAgentEnrollment(m) \/ RotateAgentCredential(m)
    BY <1>2, EnrolStep, RotationStep
  <1>3. CASE RevokeAgentEnrollmentToken \/ UNCHANGED identityVars
    <2>1. UNCHANGED <<attempt, pc, current, grant, disk, faults, kept, collector, live, issued, wire, cut>>
      BY <1>3 DEF RevokeAgentEnrollmentToken, identityVars, agentVars, serverVars
    <2> QED
      BY <2>1 DEF IdentityInv, IdentityTypes, AgentInv, NewestIsLive, MemoryMatchesFiles, BackupIsSuperseded,
                  FileIsLive, RequestInv, awaited, readPrivateFile, credentialAccepted
  <1> QED
    BY <1>1, <1>2, <1>3 DEF IdentityNext

(* An agent keeps its credential (CredentialManager, RotateAgentCredential): *)
(* it has at most one live credential, a running agent's is accepted unless  *)
(* it has been cut off, and once one is on disk every restart finds one.     *)
(* For any number of agents, faults, crashes and delayed requests.           *)
THEOREM CredentialStaysKept == IdentitySpec => []CredentialIsKept
  <1>1. IdentityInit => IdentityInv
    BY DEF IdentityInit, IdentityInv, IdentityTypes, AgentStages, Files, ControlRequests, AgentInv,
           NewestIsLive, MemoryMatchesFiles, BackupIsSuperseded, FileIsLive, readPrivateFile
  <1>2. IdentityInv => CredentialIsKept
    <2> SUFFICES ASSUME IdentityInv PROVE CredentialIsKept
      OBVIOUS
    <2>1. ASSUME NEW a \in Agents
          PROVE  /\ Cardinality(live[a]) <= 1
                 /\ pc[a] = "running" /\ a \notin cut => credentialAccepted(a, current[a])
      <3>1. AgentInv(a) /\ issued[a] \in Nat
        BY DEF IdentityInv, IdentityTypes
      <3>2. live[a] = {} \/ live[a] = {issued[a]}
        BY <3>1 DEF AgentInv, NewestIsLive
      <3>3. Cardinality(live[a]) <= 1
        <4>1. CASE live[a] = {}
          BY <4>1, FS_EmptySet
        <4>2. CASE live[a] = {issued[a]}
          <5>1. Cardinality({issued[a]}) = 1
            BY FS_Singleton
          <5> QED
            BY <4>2, <5>1
        <4> QED
          BY <3>2, <4>1, <4>2
      <3> QED
        BY <3>1, <3>3 DEF AgentInv, MemoryMatchesFiles, FileIsLive
    <2>2. \A a \in kept : readPrivateFile(a) # 0
      BY DEF IdentityInv, IdentityTypes, AgentInv
    <2> QED
      BY <2>1, <2>2 DEF CredentialIsKept, CredentialInStep, CredentialSurvives
  <1> QED
    BY <1>1, <1>2, IdentityInductive, PTL DEF IdentitySpec

----------------------------------------------------------------------------
(* Requests to the API                                                      *)

\* What is granted was asked for, or is brought along by what was: no chain is
\* longer than one (grantPermission).
LEMMA ImpliedPermissions ==
    ASSUME NEW granted, NEW p \in grantPermission(granted)
    PROVE  \/ p \in granted
           \/ \E q \in granted : <<q, p>> \in permissionImplications
  <1>1. \A i, j \in permissionImplications : i[2] # j[1]
    BY DEF permissionImplications
  <1>2. \A i \in permissionImplications : i = <<i[1], i[2]>>
    BY DEF permissionImplications
  <1> QED
    BY <1>1, <1>2 DEF grantPermission, withImplied

\* What is granted is closed under what permissions bring with them.
LEMMA GrantsAreClosed ==
    ASSUME NEW granted, NEW q \in grantPermission(granted), NEW p, <<q, p>> \in permissionImplications
    PROVE  p \in grantPermission(granted)
  <1>1. \A i, j \in permissionImplications : i[2] # j[1]
    BY DEF permissionImplications
  <1>2. <<q, p>>[1] = q /\ <<q, p>>[2] = p
    OBVIOUS
  <1> QED
    BY <1>1, <1>2 DEF grantPermission, withImplied

\* A permission that is brought along is never one kept for humans, nor the one
\* that stands for all (permissionImplications).
LEMMA ImpliedIsNotHuman ==
    ASSUME NEW i \in permissionImplications
    PROVE  i[2] \notin humanOnlyScopes /\ i[2] # "*"
  BY DEF permissionImplications, humanOnlyScopes

\* The permission that stands for all is no scope to ask for (knownPermissions).
LEMMA StarIsUnknown == "*" \notin knownPermissions
  <1>1. "*" \notin namedPermissions
    BY DEF namedPermissions
  <1> QED
    BY <1>1, ImpliedPermissions, ImpliedIsNotHuman DEF knownPermissions

AuditOrders == {"after", "within", "first"}

\* Every route writes its audit entry after its effect, with it or first.
LEMMA RoutesHaveOrders == \A r \in Routes : auditOrder(r) \in AuditOrders
  <1> DEFINE ordered(t) == \A r \in DOMAIN t : t[r].audit \in AuditOrders
  <1>1. ordered(detectionRoutes)
    BY DEF detectionRoutes, route, AuditOrders
  <1>2. ordered(parserRoutes)
    BY DEF parserRoutes, route, AuditOrders
  <1>3. ordered(playbookRoutes)
    BY DEF playbookRoutes, route, AuditOrders
  <1>4. ordered(executionRoutes)
    BY DEF executionRoutes, route, AuditOrders
  <1>5. ordered(connectorRoutes)
    BY DEF connectorRoutes, route, AuditOrders
  <1>6. ordered(feedRoutes)
    BY DEF feedRoutes, route, AuditOrders
  <1>7. ordered(indicatorRoutes)
    BY DEF indicatorRoutes, route, AuditOrders
  <1>8. ordered(huntRoutes)
    BY DEF huntRoutes, route, AuditOrders
  <1>9. ordered(licenseRoutes)
    BY DEF licenseRoutes, route, AuditOrders
  <1>10. ordered(reportRoutes)
    BY DEF reportRoutes, route, AuditOrders
  <1>11. ordered(evidenceRoutes)
    BY DEF evidenceRoutes, route, AuditOrders
  <1>12. ordered(aiRoutes)
    BY DEF aiRoutes, route, AuditOrders
  <1>13. ordered(socRoutes)
    BY DEF socRoutes, route, AuditOrders
  <1>14. ordered(caseRoutes)
    BY DEF caseRoutes, route, AuditOrders
  <1>15. ordered(collectorRoutes)
    BY DEF collectorRoutes, route, AuditOrders
  <1>16. ordered(enrollmentRoutes)
    BY DEF enrollmentRoutes, route, AuditOrders
  <1>17. ordered(retentionRoute)
    BY DEF retentionRoute, route, AuditOrders
  <1>18. ordered(uebaRoute)
    BY DEF uebaRoute, route, AuditOrders
  <1> HIDE DEF ordered
  <1>a. \A t \in routeTables : ordered(t)
    BY <1>1, <1>2, <1>3, <1>4, <1>5, <1>6, <1>7, <1>8, <1>9, <1>10, <1>11, <1>12, <1>13, <1>14, <1>15, <1>16, <1>17, <1>18
       DEF routeTables
  <1>b. ASSUME NEW r \in Routes PROVE tableOf(r) \in routeTables /\ r \in DOMAIN tableOf(r)
    BY ApiAssumption DEF tableOf
  <1> USE DEF ordered
  <1> QED
    BY <1>a, <1>b DEF auditOrder

\* The stages of a request that was admitted, and of one that has begun.
AdmittedStages == {"admitted", "audited", "auditing", "done"}
ApiStages == AdmittedStages \cup {"arrived", "answered"}
begun(c) == apiRequest[c].at # "idle"
succeeded(c) ==
    \E e \in auditLog : /\ e.client = c /\ e.send = apiRequest[c].send /\ e.outcome # "DENIED"
                        /\ e.actor = apiRequest[c].credential.id
repeats(c) ==
    /\ apiRequest[c].route \in silentRepeats
    /\ \E e \in effects : /\ e.route = apiRequest[c].route /\ e.tenant = apiRequest[c].tenant
                          /\ e.client = c => e.send < apiRequest[c].send
settled(c) == succeeded(c) \/ repeats(c)

\* A name has one row at most; its scopes are known, not for humans only and
\* within what its creator may do.
RowIsSound(name, row) ==
    /\ row.token \in Nat
    /\ row.scopes \subseteq knownPermissions /\ row.scopes \cap humanOnlyScopes = {}
    /\ \A creator \in AuthenticateUser(row.createdBy) :
          CanAccessTenant(creator, row.tenant) /\ \A scope \in row.scopes : Can(creator, scope)
    /\ \A other \in serviceAccounts[name] : other = row

\* A service principal has what its row says, also after a rotation.
principalIsSound(p) ==
    p.id \in ServiceNames =>
        /\ serviceAccounts[p.id] # {}
        /\ \A row \in serviceAccounts[p.id] :
              p.permissions = grantPermission(row.scopes) /\ p.tenants = {row.tenant} /\ p.platform = FALSE
entitled(p, r, t) == principalIsSound(p) /\ Can(p, permissionOf(r)) /\ CanAccessTenant(p, t)

\* The token of a request was issued, and one that was not live when the
\* request came does not come to life again.
TokenIsKnown(r) ==
    r.credential.kind = "service" =>
        /\ serviceAccounts[r.credential.id] # {}
        /\ \A row \in serviceAccounts[r.credential.id] :
              /\ r.credential.token <= row.token
              /\ r.live \/ row.state # "ACTIVE" \/ row.token # r.credential.token

RequestIsSound(c) ==
    begun(c) =>
        LET r == apiRequest[c] IN
        /\ r.at \in ApiStages /\ r.send \in Nat /\ r.credential \in credentials /\ r.route \in Routes
        /\ TokenIsKnown(r)
        /\ r.credential.kind = "user" /\ AuthenticateUser(r.credential.id) # {} => r.live
        /\ r.at \in AdmittedStages =>
              /\ r.live /\ r.principal # {}
              /\ \A p \in r.principal : p.id = r.credential.id /\ entitled(p, r.route, r.tenant)
        /\ r.at = "auditing" => auditOrder(r.route) = "after"
        /\ r.at = "audited" => succeeded(c)
        /\ r.at = "done" \/ (r.at = "answered" /\ r.status = "ok") => settled(c)

EffectIsSound(e) ==
    /\ e.client \in ApiClients /\ begun(e.client)
    /\ e.send \in Nat /\ e.send <= apiRequest[e.client].send
    /\ e.send = apiRequest[e.client].send => apiRequest[e.client].at \in {"auditing", "done", "answered"}
    /\ e.live /\ entitled(e.actor, e.route, e.tenant)
    /\ \/ audited(e.client, e.send)
       \/ /\ auditOrder(e.route) = "after" \/ e.expiry
          /\ \/ apiRequest[e.client].at = "auditing" \/ apiRequest[e.client].send > e.send
             \/ apiRequest[e.client].at = "answered" /\ apiRequest[e.client].status \in {"error", "lost"}

DenialIsSound(d) ==
    d.outcome = "DENIED" =>
        /\ d.client \in ApiClients /\ begun(d.client)
        /\ d.send \in Nat /\ d.send <= apiRequest[d.client].send
        /\ d.send = apiRequest[d.client].send => apiRequest[d.client].at = "answered"
        /\ \A e \in effects : e.client = d.client /\ e.send = d.send => e.expiry \/ audited(e.client, e.send)

ApiInv ==
    /\ serviceAccounts = [name \in ServiceNames |-> serviceAccounts[name]]
    /\ apiRequest = [c \in ApiClients |-> apiRequest[c]]
    /\ \A name \in ServiceNames : \A row \in serviceAccounts[name] : RowIsSound(name, row)
    /\ \A c \in ApiClients : RequestIsSound(c)
    /\ \A e \in effects : EffectIsSound(e)
    /\ \A d \in auditLog : DenialIsSound(d)

\* Service accounts keep their scopes, tenant and creator; their tokens only
\* grow, and one that was revoked stays revoked: what was said about the
\* requests stays true.
LEMMA AccountStep ==
    ASSUME ApiInv, UNCHANGED <<apiRequest, effects, auditLog>>,
           serviceAccounts' = [name \in ServiceNames |-> serviceAccounts'[name]],
           \A name \in ServiceNames : \A row \in serviceAccounts'[name] : RowIsSound(name, row)',
           \A name \in ServiceNames : serviceAccounts[name] # {} =>
              /\ serviceAccounts'[name] # {}
              /\ \A row \in serviceAccounts'[name] : \E old \in serviceAccounts[name] :
                    /\ row.scopes = old.scopes /\ row.tenant = old.tenant /\ old.token <= row.token
                    /\ row.state = "ACTIVE" => old.state = "ACTIVE"
    PROVE  ApiInv'
  <1>1. ASSUME NEW p, principalIsSound(p) PROVE principalIsSound(p)'
    BY <1>1 DEF principalIsSound
  <1>2. ASSUME NEW p, NEW r, NEW t, entitled(p, r, t) PROVE entitled(p, r, t)'
    BY <1>1, <1>2 DEF entitled, Can, CanAccessTenant, permissionOf, tableOf
  <1>3. ASSUME NEW c \in ApiClients PROVE RequestIsSound(c)'
    <2>1. RequestIsSound(c)
      BY DEF ApiInv
    <2> SUFFICES ASSUME begun(c)' PROVE RequestIsSound(c)'
      BY DEF RequestIsSound
    <2>2. begun(c) /\ apiRequest'[c] = apiRequest[c]
      BY DEF begun
    <2>3. TokenIsKnown(apiRequest[c])'
      <3> SUFFICES ASSUME apiRequest[c].credential.kind = "service"
                   PROVE  TokenIsKnown(apiRequest[c])'
        BY <2>2 DEF TokenIsKnown
      <3> DEFINE id == apiRequest[c].credential.id
                 tok == apiRequest[c].credential.token
      <3>1. apiRequest[c].credential \in credentials /\ TokenIsKnown(apiRequest[c])
        BY <2>1, <2>2 DEF RequestIsSound
      <3>2. id \in ServiceNames /\ tok \in 1 .. MaxTokens
        BY <3>1 DEF credentials
      <3>3. /\ serviceAccounts[id] # {}
            /\ \A row \in serviceAccounts[id] :
                  /\ tok <= row.token
                  /\ apiRequest[c].live \/ row.state # "ACTIVE" \/ row.token # tok
        BY <3>1 DEF TokenIsKnown
      <3>4. \A row \in serviceAccounts[id] : row.token \in Nat
        BY <3>2 DEF ApiInv, RowIsSound
      <3>5. \A row \in serviceAccounts'[id] : row.token \in Nat
        BY <3>2 DEF RowIsSound
      <3>6. serviceAccounts'[id] # {}
        BY <3>2, <3>3
      <3>7. ASSUME NEW row \in serviceAccounts'[id]
            PROVE  tok <= row.token /\ (apiRequest[c].live \/ row.state # "ACTIVE" \/ row.token # tok)
        <4>1. PICK old \in serviceAccounts[id] : old.token <= row.token /\ (row.state = "ACTIVE" => old.state = "ACTIVE")
          BY <3>2, <3>3, <3>7
        <4>2. tok \in Int /\ old.token \in Nat /\ row.token \in Nat
          BY <3>2, <3>4, <3>5
        <4>3. tok <= old.token /\ (apiRequest[c].live \/ old.state # "ACTIVE" \/ old.token # tok)
          BY <3>3
        <4> HIDE DEF tok, id
        <4> QED
          BY <4>1, <4>2, <4>3
      <3> QED
        BY <3>6, <3>7, <2>2 DEF TokenIsKnown
    <2>4. (succeeded(c)' <=> succeeded(c)) /\ (settled(c)' <=> settled(c))
      BY DEF succeeded, settled, repeats
    <2>5. AuthenticateUser(apiRequest[c].credential.id)' = AuthenticateUser(apiRequest[c].credential.id)
      BY <2>2 DEF AuthenticateUser
    <2>6. auditOrder(apiRequest[c].route)' = auditOrder(apiRequest[c].route)
      BY <2>2 DEF auditOrder, tableOf
    <2>7. credentials' = credentials
      BY DEF credentials
    <2> QED
      BY <1>2, <2>1, <2>2, <2>3, <2>4, <2>5, <2>6, <2>7 DEF RequestIsSound
  <1>4. ASSUME NEW e \in effects PROVE EffectIsSound(e)'
    BY <1>2, <1>4 DEF ApiInv, EffectIsSound, begun, audited
  <1>5. ASSUME NEW d \in auditLog PROVE DenialIsSound(d)'
    BY <1>5 DEF ApiInv, DenialIsSound, begun, audited
  <1> QED
    BY <1>3, <1>4, <1>5 DEF ApiInv

\* A new account is within what its creator may do (CreateServiceAccount).
LEMMA CreateIsSound ==
    ASSUME ApiInv, NEW owner \in ApiTenants, NEW scopes \in ScopeRequests, NEW name \in ServiceNames,
           NEW actor \in managers(owner), CreateServiceAccount(actor, name, owner, scopes)
    PROVE  ApiInv'
  <1> DEFINE new == [state |-> "ACTIVE", token |-> 1, scopes |-> scopes, tenant |-> owner, createdBy |-> actor.id]
  <1>1. serviceAccounts[name] = {} /\ serviceAccounts' = [serviceAccounts EXCEPT ![name] = {new}]
    BY DEF CreateServiceAccount
  <1>2. serviceAccounts'[name] = {new} /\ \A n \in ServiceNames \ {name} : serviceAccounts'[n] = serviceAccounts[n]
    BY <1>1 DEF ApiInv
  <1>3. PICK user \in DOMAIN Users : actor \in AuthenticateUser(user)
    BY DEF managers
  <1>4. actor.id = user /\ AuthenticateUser(user) = {actor}
    <2> DEFINE platform == \E role \in Users[user].roles : platformRole(role)
               permissions == permissionsForRoles(Users[user].roles)
               tenants == Users[user].tenants
               p == principalOf(user, permissions, tenants, platform)
    <2>1. AuthenticateUser(user) \in {{p}, {}}
      BY DEF AuthenticateUser
    <2>2. p.id = user
      BY DEF principalOf
    <2> HIDE DEF p
    <2> QED
      BY <1>3, <2>1, <2>2
  <1>5. RowIsSound(name, new)'
    <2>1. new.token \in Nat /\ new.scopes = scopes /\ new.tenant = owner /\ new.createdBy = user
      BY <1>4
    <2>2. scopes \subseteq knownPermissions /\ scopes \cap humanOnlyScopes = {} /\ \A scope \in scopes : Can(actor, scope)
      BY DEF CreateServiceAccount, grantableScopes
    <2>3. CanAccessTenant(actor, owner)
      BY DEF managers
    <2>4. \A creator \in AuthenticateUser(new.createdBy) :
             CanAccessTenant(creator, new.tenant) /\ \A scope \in new.scopes : Can(creator, scope)
      BY <2>1, <2>2, <2>3, <1>4
    <2>5. \A other \in serviceAccounts'[name] : other = new
      BY <1>2
    <2> HIDE DEF new
    <2> QED
      BY <2>1, <2>2, <2>4, <2>5 DEF RowIsSound, AuthenticateUser
  <1>6. ASSUME NEW n \in ServiceNames, NEW row \in serviceAccounts'[n] PROVE RowIsSound(n, row)'
    <2>1. CASE n = name
      BY <1>2, <1>5, <1>6, <2>1
    <2>2. CASE n # name
      BY <1>2, <1>6, <2>2 DEF ApiInv, RowIsSound, AuthenticateUser
    <2> QED
      BY <2>1, <2>2
  <1>7. \A n \in ServiceNames : serviceAccounts[n] # {} =>
              /\ serviceAccounts'[n] # {}
              /\ \A row \in serviceAccounts'[n] : \E old \in serviceAccounts[n] :
                    /\ row.scopes = old.scopes /\ row.tenant = old.tenant /\ old.token <= row.token
                    /\ row.state = "ACTIVE" => old.state = "ACTIVE"
    <2> SUFFICES ASSUME NEW n \in ServiceNames, serviceAccounts[n] # {}
                 PROVE  \A row \in serviceAccounts[n] : row.token <= row.token
      BY <1>1, <1>2
    <2> QED
      BY DEF ApiInv, RowIsSound
  <1>8. serviceAccounts' = [n \in ServiceNames |-> serviceAccounts'[n]]
    BY <1>1 DEF ApiInv
  <1>9. UNCHANGED <<apiRequest, effects, auditLog>>
    BY DEF CreateServiceAccount
  <1> HIDE DEF new
  <1> QED
    BY <1>6, <1>7, <1>8, <1>9, AccountStep

\* A rotation or a revocation keeps the row's scopes, tenant and creator
\* (RotateServiceAccountToken, RevokeServiceAccount).
LEMMA ChangeIsSound ==
    ASSUME ApiInv, NEW name \in ServiceNames,
           RotateServiceAccountToken(name) \/ RevokeServiceAccount(name)
    PROVE  ApiInv'
  <1>0. UNCHANGED <<apiRequest, effects, auditLog>>
    BY DEF RotateServiceAccountToken, RevokeServiceAccount
  <1>1. PICK old \in serviceAccounts[name] : old.state = "ACTIVE"
    BY DEF RotateServiceAccountToken, RevokeServiceAccount
  <1>2. RowIsSound(name, old) /\ serviceAccounts[name] = {old}
    BY DEF ApiInv, RowIsSound
  <1>3. PICK state, tok : /\ serviceAccounts' = [serviceAccounts EXCEPT ![name] = {changed(old, state, tok)}]
                            /\ tok \in Nat /\ old.token <= tok
    <2>1. old.token \in Nat
      BY <1>2 DEF RowIsSound
    <2>2. CASE RotateServiceAccountToken(name)
      <3>1. serviceAccounts' = [serviceAccounts EXCEPT ![name] = {changed(row, row.state, row.token + 1) : row \in serviceAccounts[name]}]
        BY <2>2 DEF RotateServiceAccountToken
      <3>2. {changed(row, row.state, row.token + 1) : row \in serviceAccounts[name]} = {changed(old, old.state, old.token + 1)}
        BY <1>2
      <3>3. old.token + 1 \in Nat /\ old.token <= old.token + 1
        BY <2>1
      <3> QED
        BY <3>1, <3>2, <3>3
    <2>3. CASE RevokeServiceAccount(name)
      <3>1. serviceAccounts' = [serviceAccounts EXCEPT ![name] = {changed(row, "REVOKED", row.token) : row \in serviceAccounts[name]}]
        BY <2>3 DEF RevokeServiceAccount
      <3>2. {changed(row, "REVOKED", row.token) : row \in serviceAccounts[name]} = {changed(old, "REVOKED", old.token)}
        BY <1>2
      <3>3. old.token \in Nat /\ old.token <= old.token
        BY <2>1
      <3> QED
        BY <3>1, <3>2, <3>3
    <2> QED
      BY <2>2, <2>3
  <1> DEFINE new == changed(old, state, tok)
  <1>4. /\ new.token = tok /\ new.scopes = old.scopes /\ new.tenant = old.tenant /\ new.createdBy = old.createdBy
    BY DEF changed
  <1> HIDE DEF new
  <1>5. serviceAccounts'[name] = {new} /\ \A n \in ServiceNames \ {name} : serviceAccounts'[n] = serviceAccounts[n]
    BY <1>3 DEF ApiInv, new
  <1>6. ASSUME NEW n \in ServiceNames, NEW row \in serviceAccounts'[n] PROVE RowIsSound(n, row)'
    <2>1. CASE n = name
      <3>1. row = new
        BY <1>5, <1>6, <2>1
      <3>2. AuthenticateUser(new.createdBy)' = AuthenticateUser(old.createdBy)
        BY <1>4 DEF AuthenticateUser
      <3>3. RowIsSound(name, new)'
        BY <1>2, <1>3, <1>4, <1>5, <3>2 DEF RowIsSound
      <3> QED
        BY <3>1, <3>3, <2>1
    <2>2. CASE n # name
      BY <1>5, <1>6, <2>2 DEF ApiInv, RowIsSound, AuthenticateUser
    <2> QED
      BY <2>1, <2>2
  <1>7. \A n \in ServiceNames : serviceAccounts[n] # {} =>
              /\ serviceAccounts'[n] # {}
              /\ \A row \in serviceAccounts'[n] : \E was \in serviceAccounts[n] :
                    /\ row.scopes = was.scopes /\ row.tenant = was.tenant /\ was.token <= row.token
                    /\ row.state = "ACTIVE" => was.state = "ACTIVE"
    <2>1. ASSUME NEW n \in ServiceNames \ {name} PROVE \A row \in serviceAccounts[n] : row.token <= row.token
      BY DEF ApiInv, RowIsSound
    <2> QED
      BY <1>1, <1>3, <1>4, <1>5, <2>1
  <1>8. serviceAccounts' = [n \in ServiceNames |-> serviceAccounts'[n]]
    BY <1>3 DEF ApiInv
  <1> QED
    BY <1>0, <1>6, <1>7, <1>8, AccountStep

\* What advance makes of the requests.
Moved(c, at, sent, principal, status, alive) ==
    /\ apiRequest' = [d \in ApiClients |-> apiRequest'[d]]
    /\ \A d \in ApiClients \ {c} : apiRequest'[d] = apiRequest[d]
    /\ apiRequest'[c].at = at /\ apiRequest'[c].send = sent /\ apiRequest'[c].principal = principal
    /\ apiRequest'[c].status = status /\ apiRequest'[c].live = alive
    /\ apiRequest'[c].credential = apiRequest[c].credential /\ apiRequest'[c].route = apiRequest[c].route
    /\ apiRequest'[c].tenant = apiRequest[c].tenant

\* advance changes the request of its client and no other.
LEMMA Advanced ==
    ASSUME ApiInv, NEW c \in ApiClients, NEW at, NEW sent, NEW principal, NEW status, NEW alive,
           apiRequest' = advance(c, at, sent, principal, status, alive)
    PROVE  Moved(c, at, sent, principal, status, alive)
  <1> DEFINE r == [at |-> at, send |-> sent, credential |-> apiRequest[c].credential, route |-> apiRequest[c].route,
                   tenant |-> apiRequest[c].tenant, principal |-> principal, status |-> status, live |-> alive]
  <1>1. apiRequest' = [apiRequest EXCEPT ![c] = r]
    BY DEF advance
  <1>2. apiRequest'[c] = r
    BY <1>1 DEF ApiInv
  <1>3. /\ apiRequest' = [d \in ApiClients |-> apiRequest'[d]]
        /\ \A d \in ApiClients \ {c} : apiRequest'[d] = apiRequest[d]
    <2> HIDE DEF r
    <2> QED
      BY <1>1 DEF ApiInv
  <1> QED
    BY <1>2, <1>3 DEF Moved

\* A step of one client's request leaves what was said about the others.
LEMMA ClientStep ==
    ASSUME ApiInv, NEW c \in ApiClients, serviceAccounts' = serviceAccounts,
           apiRequest' = [d \in ApiClients |-> apiRequest'[d]],
           \A d \in ApiClients \ {c} : apiRequest'[d] = apiRequest[d],
           effects \subseteq effects', \A e \in effects' \ effects : e.client = c,
           auditLog \subseteq auditLog', \A e \in auditLog' \ auditLog : e.client = c,
           RequestIsSound(c)',
           \A e \in effects' : e.client = c => EffectIsSound(e)',
           \A d \in auditLog' : d.client = c => DenialIsSound(d)'
    PROVE  ApiInv'
  <1>1. \A p : principalIsSound(p)' <=> principalIsSound(p)
    BY DEF principalIsSound
  <1>2. \A p, r, t : entitled(p, r, t)' <=> entitled(p, r, t)
    BY <1>1 DEF entitled, Can, CanAccessTenant, permissionOf, tableOf
  <1>3. ASSUME NEW d \in ApiClients PROVE RequestIsSound(d)'
    <2>1. CASE d = c
      BY <2>1
    <2>2. CASE d # c
      <3>1. RequestIsSound(d) /\ apiRequest'[d] = apiRequest[d]
        BY <2>2 DEF ApiInv
      <3> SUFFICES ASSUME begun(d)' PROVE RequestIsSound(d)'
        BY DEF RequestIsSound
      <3>2. begun(d)
        BY <3>1 DEF begun
      <3>3. TokenIsKnown(apiRequest[d])' <=> TokenIsKnown(apiRequest[d])
        BY <3>1 DEF TokenIsKnown
      <3>4. (succeeded(d) => succeeded(d)') /\ (settled(d) => settled(d)')
        BY <3>1 DEF succeeded, settled, repeats
      <3>5. AuthenticateUser(apiRequest[d].credential.id)' = AuthenticateUser(apiRequest[d].credential.id)
        BY <3>1 DEF AuthenticateUser
      <3>6. auditOrder(apiRequest[d].route)' = auditOrder(apiRequest[d].route)
        BY <3>1 DEF auditOrder, tableOf
      <3>7. credentials' = credentials
        BY DEF credentials
      <3> QED
        BY <1>2, <3>1, <3>2, <3>3, <3>4, <3>5, <3>6, <3>7 DEF RequestIsSound
    <2> QED
      BY <2>1, <2>2
  <1>4. ASSUME NEW e \in effects' PROVE EffectIsSound(e)'
    <2>1. CASE e.client = c
      BY <2>1
    <2>2. CASE e.client # c
      <3>1. e \in effects /\ EffectIsSound(e)
        BY <2>2 DEF ApiInv
      <3>2. apiRequest'[e.client] = apiRequest[e.client]
        BY <2>2, <3>1 DEF EffectIsSound
      <3>3. audited(e.client, e.send) => audited(e.client, e.send)'
        BY DEF audited
      <3> QED
        BY <1>2, <3>1, <3>2, <3>3 DEF EffectIsSound, begun
    <2> QED
      BY <2>1, <2>2
  <1>5. ASSUME NEW d \in auditLog' PROVE DenialIsSound(d)'
    <2>1. CASE d.client = c
      BY <2>1
    <2>2. CASE d.client # c
      <3>1. d \in auditLog /\ DenialIsSound(d)
        BY <2>2 DEF ApiInv
      <3> SUFFICES ASSUME d.outcome = "DENIED" PROVE DenialIsSound(d)'
        BY DEF DenialIsSound
      <3>2. d.client \in ApiClients /\ apiRequest'[d.client] = apiRequest[d.client]
        BY <2>2, <3>1 DEF DenialIsSound
      <3>3. ASSUME NEW e \in effects', e.client = d.client, e.send = d.send
            PROVE  e.expiry \/ audited(e.client, e.send)'
        <4>1. e \in effects /\ (e.expiry \/ audited(e.client, e.send))
          BY <2>2, <3>1, <3>3 DEF DenialIsSound
        <4> QED
          BY <4>1 DEF audited
      <3> QED
        BY <3>1, <3>2, <3>3 DEF DenialIsSound, begun
    <2> QED
      BY <2>1, <2>2
  <1>6. ASSUME NEW name \in ServiceNames, NEW row \in serviceAccounts'[name] PROVE RowIsSound(name, row)'
    BY <1>6 DEF ApiInv, RowIsSound, AuthenticateUser
  <1>7. serviceAccounts' = [name \in ServiceNames |-> serviceAccounts'[name]]
    BY DEF ApiInv
  <1> QED
    BY <1>3, <1>4, <1>5, <1>6, <1>7 DEF ApiInv

\* A request goes from one stage to a later one, or is answered, without an
\* effect; the audit log may get entries for it.
LEMMA StageStep ==
    ASSUME ApiInv, NEW c \in ApiClients, NEW at, NEW principal, NEW status, NEW sent, NEW alive, begun(c),
           sent = apiRequest[c].send, alive = apiRequest[c].live,
           apiRequest' = advance(c, at, sent, principal, status, alive),
           UNCHANGED <<serviceAccounts, effects>>,
           auditLog \subseteq auditLog',
           \A e \in auditLog' \ auditLog : e.client = c /\ e.send = apiRequest[c].send,
           at \in ApiStages \ {"arrived"},
           at \in AdmittedStages =>
              /\ apiRequest[c].live /\ principal # {}
              /\ \A p \in principal : p.id = apiRequest[c].credential.id /\ entitled(p, apiRequest[c].route, apiRequest[c].tenant),
           at = "auditing" => auditOrder(apiRequest[c].route) = "after",
           at = "audited" => succeeded(c)',
           at = "done" \/ (at = "answered" /\ status = "ok") => settled(c)',
           apiRequest[c].at \in {"auditing", "done", "answered"} => at \in {"auditing", "done", "answered"},
           apiRequest[c].at # "answered",
           apiRequest[c].at = "auditing" => (status \in {"error", "lost"} /\ at = "answered") \/ audited(c, sent)',
           \A d \in auditLog' \ auditLog : d.outcome = "DENIED" => apiRequest[c].at # "auditing" /\ at = "answered"
    PROVE  ApiInv'
  <1> DEFINE r == apiRequest[c]
  <1>1. RequestIsSound(c) /\ \A d \in auditLog : DenialIsSound(d)
    BY DEF ApiInv
  <1>2. /\ r.at \in ApiStages /\ r.send \in Nat /\ r.credential \in credentials /\ r.route \in Routes /\ TokenIsKnown(r)
        /\ r.credential.kind = "user" /\ AuthenticateUser(r.credential.id) # {} => r.live
    BY <1>1 DEF RequestIsSound
  <1>3. /\ apiRequest' = [d \in ApiClients |-> apiRequest'[d]]
        /\ \A d \in ApiClients \ {c} : apiRequest'[d] = apiRequest[d]
        /\ apiRequest'[c].at = at /\ apiRequest'[c].send = sent /\ apiRequest'[c].principal = principal
        /\ apiRequest'[c].status = status /\ apiRequest'[c].live = alive
        /\ apiRequest'[c].credential = apiRequest[c].credential /\ apiRequest'[c].route = apiRequest[c].route
        /\ apiRequest'[c].tenant = apiRequest[c].tenant
    <2>1. Moved(c, at, sent, principal, status, alive)
      BY Advanced
    <2> QED
      BY <2>1 DEF Moved
  <1>4. /\ apiRequest'[c].at = at /\ apiRequest'[c].send = r.send /\ apiRequest'[c].principal = principal
        /\ apiRequest'[c].status = status /\ apiRequest'[c].live = r.live
        /\ apiRequest'[c].credential = r.credential /\ apiRequest'[c].route = r.route
        /\ apiRequest'[c].tenant = r.tenant
    BY <1>3
  <1>5. \A p : principalIsSound(p)' <=> principalIsSound(p)
    BY DEF principalIsSound
  <1>6. \A p, x, t : entitled(p, x, t)' <=> entitled(p, x, t)
    BY <1>5 DEF entitled, Can, CanAccessTenant, permissionOf, tableOf
  <1>7. RequestIsSound(c)'
    <2>1. TokenIsKnown(apiRequest[c])'
      BY <1>2, <1>4 DEF TokenIsKnown
    <2>2. AuthenticateUser(apiRequest[c].credential.id)' = AuthenticateUser(r.credential.id)
      BY <1>4 DEF AuthenticateUser
    <2>3. auditOrder(apiRequest[c].route)' = auditOrder(r.route)
      BY <1>4 DEF auditOrder, tableOf
    <2>4. credentials' = credentials
      BY DEF credentials
    <2> QED
      BY <1>2, <1>4, <1>6, <2>1, <2>2, <2>3, <2>4 DEF RequestIsSound
  <1>8. ASSUME NEW e \in effects', e.client = c PROVE EffectIsSound(e)'
    <2>1. EffectIsSound(e)
      BY DEF ApiInv
    <2>2. audited(c, e.send) => audited(c, e.send)'
      BY DEF audited
    <2>3. begun(c)'
      BY <1>4 DEF begun, ApiStages, AdmittedStages
    <2>4. e.send \in Nat /\ e.send <= r.send /\ (e.send = r.send => at \in {"auditing", "done", "answered"})
      BY <1>8, <2>1 DEF EffectIsSound
    <2>5. e.live /\ entitled(e.actor, e.route, e.tenant)
      BY <2>1 DEF EffectIsSound
    <2>6. \/ audited(c, e.send)'
          \/ /\ auditOrder(e.route) = "after" \/ e.expiry
             /\ at = "auditing" \/ r.send > e.send \/ (at = "answered" /\ status \in {"error", "lost"})
      <3>1. CASE audited(c, e.send)
        BY <2>2, <3>1
      <3>2. CASE r.send > e.send /\ (auditOrder(e.route) = "after" \/ e.expiry)
        BY <3>2
      <3>3. CASE r.at = "auditing" /\ ~ (r.send > e.send) /\ (auditOrder(e.route) = "after" \/ e.expiry)
        <4>1. e.send = r.send
          BY <1>2, <2>4, <3>3
        <4> QED
          BY <3>3, <4>1
      <3> QED
        BY <1>8, <2>1, <3>1, <3>2, <3>3 DEF EffectIsSound
    <2>7. auditOrder(e.route)' = auditOrder(e.route)
      BY DEF auditOrder, tableOf
    <2> QED
      BY <1>4, <1>6, <1>8, <2>3, <2>4, <2>5, <2>6, <2>7 DEF EffectIsSound
  <1>9. ASSUME NEW d \in auditLog', d.client = c PROVE DenialIsSound(d)'
    <2> SUFFICES ASSUME d.outcome = "DENIED" PROVE DenialIsSound(d)'
      BY DEF DenialIsSound
    <2>1. begun(c)'
      BY <1>4 DEF begun, ApiStages, AdmittedStages
    <2>a. \A e \in effects : audited(c, e.send) => audited(c, e.send)'
      BY DEF audited
    <2>2. CASE d \in auditLog
      <3>1. DenialIsSound(d)
        BY <1>1, <2>2
      <3>2. \A e \in effects : e.client = c /\ e.send = d.send => e.expiry \/ audited(e.client, e.send)'
        BY <1>9, <2>a, <3>1 DEF DenialIsSound
      <3> QED
        BY <1>4, <1>9, <2>1, <3>1, <3>2 DEF DenialIsSound
    <2>3. CASE d \notin auditLog
      <3>1. d.send = r.send /\ at = "answered" /\ r.at # "auditing"
        BY <1>9, <2>3
      <3>2. ASSUME NEW e \in effects, e.client = c, e.send = r.send
            PROVE  audited(e.client, e.send)'
        <4>1. EffectIsSound(e)
          BY DEF ApiInv
        <4>2. ~ (r.send > e.send)
          BY <1>2, <3>2
        <4>3. audited(c, e.send)
          BY <3>1, <3>2, <4>1, <4>2 DEF EffectIsSound
        <4> QED
          BY <2>a, <3>2, <4>3
      <3> QED
        BY <1>2, <1>4, <1>9, <2>1, <3>1, <3>2 DEF DenialIsSound
    <2> QED
      BY <2>2, <2>3
  <1> QED
    BY <1>3, <1>7, <1>8, <1>9, ClientStep

\* An effect is of an admitted principal, at a stage where the request has
\* none yet, and no denial was written for it.
LEMMA EffectStep ==
    ASSUME ApiInv, NEW c \in ApiClients, NEW at, NEW principal, NEW status, NEW sent, NEW alive, NEW f,
           sent = apiRequest[c].send, alive = apiRequest[c].live, principal = apiRequest[c].principal,
           apiRequest' = advance(c, at, sent, principal, status, alive),
           apiRequest[c].at \in {"admitted", "audited"},
           effects' = effects \cup {f}, serviceAccounts' = serviceAccounts,
           f.client = c, f.send = sent, f.live = alive, f.actor \in principal,
           f.route = apiRequest[c].route, entitled(f.actor, f.route, f.tenant),
           auditLog \subseteq auditLog',
           \A e \in auditLog' \ auditLog :
              e.client = c /\ e.send = sent /\ (e.outcome = "DENIED" => f.expiry /\ at = "answered"),
           at \in {"auditing", "done", "answered"},
           at = "auditing" => auditOrder(apiRequest[c].route) = "after",
           at = "done" => succeeded(c)',
           at = "answered" => f.expiry /\ status = "error"
    PROVE  ApiInv'
  <1> DEFINE r == apiRequest[c]
  <1>1. RequestIsSound(c) /\ begun(c) /\ \A d \in auditLog : DenialIsSound(d)
    BY DEF ApiInv, begun
  <1>2. /\ r.send \in Nat /\ r.credential \in credentials /\ r.route \in Routes /\ TokenIsKnown(r)
        /\ r.credential.kind = "user" /\ AuthenticateUser(r.credential.id) # {} => r.live
        /\ r.live /\ principal # {}
        /\ \A p \in principal : p.id = r.credential.id /\ entitled(p, r.route, r.tenant)
    BY <1>1 DEF RequestIsSound, AdmittedStages
  <1>3. /\ apiRequest' = [d \in ApiClients |-> apiRequest'[d]]
        /\ \A d \in ApiClients \ {c} : apiRequest'[d] = apiRequest[d]
        /\ apiRequest'[c].at = at /\ apiRequest'[c].send = sent /\ apiRequest'[c].principal = principal
        /\ apiRequest'[c].status = status /\ apiRequest'[c].live = alive
        /\ apiRequest'[c].credential = apiRequest[c].credential /\ apiRequest'[c].route = apiRequest[c].route
        /\ apiRequest'[c].tenant = apiRequest[c].tenant
    <2>1. Moved(c, at, sent, principal, status, alive)
      BY Advanced
    <2> QED
      BY <2>1 DEF Moved
  <1>4. /\ apiRequest'[c].at = at /\ apiRequest'[c].send = r.send /\ apiRequest'[c].principal = principal
        /\ apiRequest'[c].status = status /\ apiRequest'[c].live = r.live
        /\ apiRequest'[c].credential = r.credential /\ apiRequest'[c].route = r.route
        /\ apiRequest'[c].tenant = r.tenant
    BY <1>3
  <1>5. \A p : principalIsSound(p)' <=> principalIsSound(p)
    BY DEF principalIsSound
  <1>6. \A p, x, t : entitled(p, x, t)' <=> entitled(p, x, t)
    BY <1>5 DEF entitled, Can, CanAccessTenant, permissionOf, tableOf
  <1>7. RequestIsSound(c)'
    <2>1. TokenIsKnown(apiRequest[c])'
      <3>1. /\ (apiRequest[c].credential)' = r.credential /\ (apiRequest[c].live)' = r.live
        BY <1>4
      <3> QED
        BY <1>2, <3>1 DEF TokenIsKnown
    <2>2. AuthenticateUser(apiRequest[c].credential.id)' = AuthenticateUser(r.credential.id)
      BY <1>3 DEF AuthenticateUser
    <2>3. auditOrder(apiRequest[c].route)' = auditOrder(r.route)
      BY <1>3 DEF auditOrder, tableOf
    <2>4. credentials' = credentials
      BY DEF credentials
    <2> QED
      <3>1. at \in ApiStages /\ (at \in AdmittedStages => principal # {})
        BY <1>2 DEF ApiStages, AdmittedStages
      <3>2. /\ at = "audited" => succeeded(c)'
            /\ at = "done" \/ (at = "answered" /\ status = "ok") => settled(c)'
        BY DEF settled
      <3> QED
        <4>1. apiRequest'[c].live /\ apiRequest'[c].principal # {}
          BY <1>2, <1>4
        <4>2. \A p \in apiRequest'[c].principal :
                 p.id = apiRequest'[c].credential.id /\ entitled(p, apiRequest[c].route, apiRequest[c].tenant)'
          <5> SUFFICES ASSUME NEW p \in principal
                       PROVE  p.id = apiRequest'[c].credential.id /\ entitled(p, apiRequest[c].route, apiRequest[c].tenant)'
            BY <1>4
          <5>0. p.id = r.credential.id /\ entitled(p, r.route, r.tenant)
            BY <1>2
          <5>1. PICK x, t : x = r.route /\ t = r.tenant
            OBVIOUS
          <5>2. entitled(p, x, t)'
            BY <1>6, <5>0, <5>1
          <5>3. x = apiRequest'[c].route /\ t = apiRequest'[c].tenant /\ p.id = apiRequest'[c].credential.id
            BY <1>4, <5>0, <5>1
          <5> QED
            BY <5>2, <5>3 DEF entitled
        <4>3. /\ apiRequest'[c].at \in ApiStages /\ apiRequest'[c].send \in Nat
              /\ apiRequest'[c].credential \in credentials' /\ apiRequest'[c].route \in Routes
          BY <1>2, <1>4, <2>4, <3>1
        <4>4. apiRequest'[c].at = "auditing" => auditOrder(apiRequest[c].route)' = "after"
          BY <1>4, <2>3
        <4>5. /\ apiRequest'[c].at = "audited" => succeeded(c)'
              /\ apiRequest'[c].at = "done" \/ (apiRequest'[c].at = "answered" /\ apiRequest'[c].status = "ok") => settled(c)'
          BY <1>4, <3>2
        <4> QED
          BY <2>1, <4>1, <4>2, <4>3, <4>4, <4>5 DEF RequestIsSound
  <1>8. ASSUME NEW e \in effects', e.client = c PROVE EffectIsSound(e)'
    <2>1. begun(c)'
      BY <1>3 DEF begun
    <2>2. auditOrder(e.route)' = auditOrder(e.route)
      BY DEF auditOrder, tableOf
    <2>3. CASE e = f
      <3>1. e.live /\ entitled(e.actor, e.route, e.tenant)
        BY <1>2, <2>3
      <3>2. \/ audited(c, sent)'
            \/ at = "auditing" /\ auditOrder(e.route) = "after"
            \/ at = "answered" /\ status = "error" /\ e.expiry
        <4>1. CASE at # "done"
          BY <2>3, <4>1
        <4>2. CASE at = "done"
          BY <1>3, <4>2 DEF succeeded, audited
        <4> QED
          BY <4>1, <4>2
      <3> QED
        <4>1. e.send = sent /\ sent \in Nat /\ sent <= sent
          BY <1>2, <2>3
        <4>2. /\ apiRequest'[e.client].send = sent /\ apiRequest'[e.client].at = at /\ e.client = c
              /\ apiRequest'[e.client].status = status
          BY <1>3, <1>8
        <4>3. entitled(e.actor, e.route, e.tenant)' /\ e.live
          BY <1>6, <3>1
        <4>4. begun(e.client)' /\ e.client \in ApiClients
          BY <1>8, <2>1
        <4>5. \/ audited(e.client, e.send)' \/ (at = "auditing" /\ auditOrder(e.route)' = "after")
              \/ at = "answered" /\ status = "error" /\ e.expiry
          BY <1>8, <2>2, <3>2, <4>1
        <4> QED
          BY <4>1, <4>2, <4>3, <4>4, <4>5 DEF EffectIsSound
    <2>4. CASE e # f
      <3>1. e \in effects /\ EffectIsSound(e)
        BY <2>4 DEF ApiInv
      <3>2. audited(c, e.send) => audited(c, e.send)'
        BY DEF audited
      <3>3. e.send \in Nat /\ e.send <= sent /\ e.send # sent
        BY <1>8, <3>1 DEF EffectIsSound
      <3>4. e.live /\ entitled(e.actor, e.route, e.tenant)
        BY <3>1 DEF EffectIsSound
      <3>5. sent > e.send
        BY <1>2, <3>3
      <3>6. audited(c, e.send)' \/ auditOrder(e.route) = "after" \/ e.expiry
        BY <1>8, <3>1, <3>2 DEF EffectIsSound
      <3> QED
        BY <1>3, <1>6, <1>8, <2>1, <2>2, <3>3, <3>4, <3>5, <3>6 DEF EffectIsSound
    <2> QED
      BY <2>3, <2>4
  <1>9. ASSUME NEW d \in auditLog', d.client = c PROVE DenialIsSound(d)'
    <2> SUFFICES ASSUME d.outcome = "DENIED" PROVE DenialIsSound(d)'
      BY DEF DenialIsSound
    <2>1. begun(c)'
      BY <1>3 DEF begun
    <2>2. CASE d \in auditLog
      <3>1. d.send \in Nat /\ d.send <= sent /\ d.send # sent
        BY <1>1, <1>9, <2>2 DEF DenialIsSound
      <3>2. ASSUME NEW e \in effects', e.client = c, e.send = d.send PROVE e.expiry \/ audited(e.client, e.send)'
        <4>1. e \in effects
          BY <3>1, <3>2
        <4>2. e.expiry \/ audited(e.client, e.send)
          BY <1>1, <1>9, <2>2, <3>2, <4>1 DEF DenialIsSound
        <4> QED
          BY <4>2 DEF audited
      <3> QED
        BY <1>3, <1>9, <2>1, <3>1, <3>2 DEF DenialIsSound
    <2>3. CASE d \notin auditLog
      <3>1. d.send = sent /\ f.expiry /\ at = "answered"
        BY <1>9, <2>3
      <3>2. \A e \in effects : e.client = c => e.send # sent
        BY DEF ApiInv, EffectIsSound
      <3>3. \A e \in effects' : e.client = c /\ e.send = sent => e.expiry
        BY <3>1, <3>2
      <3>4. sent \in Nat /\ sent <= sent
        BY <1>2
      <3> QED
        BY <1>3, <1>9, <2>1, <3>1, <3>3, <3>4 DEF DenialIsSound
    <2> QED
      BY <2>2, <2>3
  <1>10. effects \subseteq effects' /\ \A e \in effects' \ effects : e.client = c
    OBVIOUS
  <1>11. \A e \in auditLog' \ auditLog : e.client = c
    OBVIOUS
  <1> QED
    BY <1>3, <1>7, <1>8, <1>9, <1>10, <1>11, ClientStep

\* A token that is sent and not found does not come to life again; a user's
\* is always what it was.
LEMMA UnknownStaysUnknown ==
    ASSUME NEW credential \in credentials, NEW b, b = (Authenticate(credential) # {})
    PROVE  /\ credential.kind = "service" =>
                 \A row \in serviceAccounts[credential.id] :
                    b \/ row.state # "ACTIVE" \/ row.token # credential.token
           /\ credential.kind = "user" /\ AuthenticateUser(credential.id) # {} => b
  <1>1. ASSUME credential.kind = "service", NEW row \in serviceAccounts[credential.id],
               row.state = "ACTIVE", row.token = credential.token
        PROVE  Authenticate(credential) # {}
    BY <1>1 DEF Authenticate, AuthenticateServiceAccount
  <1>2. ASSUME credential.kind = "user" PROVE Authenticate(credential) = AuthenticateUser(credential.id)
    BY <1>2 DEF Authenticate
  <1> QED
    BY <1>1, <1>2

\* A request that comes, for the first time or again, has a token that was
\* issued, and no effect.
LEMMA ArrivalStep ==
    ASSUME ApiInv, NEW c \in ApiClients, UNCHANGED <<serviceAccounts, effects, auditLog>>,
           apiRequest' = [d \in ApiClients |-> apiRequest'[d]],
           \A d \in ApiClients \ {c} : apiRequest'[d] = apiRequest[d],
           NEW credential \in credentials, wasIssued(credential),
           apiRequest'[c].at = "arrived", apiRequest'[c].send \in Nat, apiRequest'[c].route \in Routes,
           apiRequest'[c].credential = credential, apiRequest'[c].live = (Authenticate(credential) # {}),
           begun(c) => apiRequest[c].send \in Nat /\ apiRequest'[c].send > apiRequest[c].send
    PROVE  ApiInv'
  <1>0. begun(c)'
    BY DEF begun
  <1>1. PICK b : b = (Authenticate(credential) # {})
    OBVIOUS
  <1>2. RequestIsSound(c)'
    <2>1. /\ credential.kind = "service" =>
                 \A row \in serviceAccounts[credential.id] :
                    b \/ row.state # "ACTIVE" \/ row.token # credential.token
          /\ credential.kind = "user" /\ AuthenticateUser(credential.id) # {} => b
      BY <1>1, UnknownStaysUnknown
    <2>2. credential.kind = "service" =>
             /\ serviceAccounts[credential.id] # {}
             /\ \A row \in serviceAccounts[credential.id] : credential.token <= row.token
      <3> SUFFICES ASSUME credential.kind = "service"
                   PROVE  /\ serviceAccounts[credential.id] # {}
                          /\ \A row \in serviceAccounts[credential.id] : credential.token <= row.token
        OBVIOUS
      <3>1. credential.id \in ServiceNames
        BY DEF credentials
      <3>2. PICK row \in serviceAccounts[credential.id] : credential.token <= row.token
        BY DEF wasIssued
      <3>3. \A other \in serviceAccounts[credential.id] : other = row
        BY <3>1 DEF ApiInv, RowIsSound
      <3> QED
        BY <3>2, <3>3
    <2>3. TokenIsKnown(apiRequest[c])'
      BY <1>1, <2>1, <2>2 DEF TokenIsKnown
    <2>4. AuthenticateUser(apiRequest[c].credential.id)' = AuthenticateUser(credential.id)
      BY DEF AuthenticateUser
    <2>5. credentials' = credentials
      BY DEF credentials
    <2> QED
      BY <1>1, <2>1, <2>3, <2>4, <2>5 DEF RequestIsSound, ApiStages, AdmittedStages
  <1>3. ASSUME NEW e \in effects', e.client = c PROVE EffectIsSound(e)'
    <2>1. EffectIsSound(e) /\ begun(c)
      BY <1>3 DEF ApiInv, EffectIsSound
    <2>2. e.send \in Nat /\ e.send <= apiRequest[c].send /\ e.live /\ entitled(e.actor, e.route, e.tenant)
      BY <1>3, <2>1 DEF EffectIsSound
    <2>3. entitled(e.actor, e.route, e.tenant)'
      BY <2>2 DEF entitled, principalIsSound, Can, CanAccessTenant, permissionOf, tableOf
    <2>4. apiRequest'[c].send > e.send
      BY <2>1, <2>2
    <2>5. audited(e.client, e.send)' \/ auditOrder(e.route)' = "after" \/ e.expiry
      BY <2>1 DEF EffectIsSound, audited, auditOrder, tableOf
    <2> QED
      BY <1>0, <1>3, <2>2, <2>3, <2>4, <2>5 DEF EffectIsSound
  <1>4. ASSUME NEW d \in auditLog', d.client = c PROVE DenialIsSound(d)'
    <2> SUFFICES ASSUME d.outcome = "DENIED" PROVE DenialIsSound(d)'
      BY DEF DenialIsSound
    <2>1. DenialIsSound(d) /\ begun(c)
      BY <1>4 DEF ApiInv, DenialIsSound
    <2>2. d.send \in Nat /\ d.send <= apiRequest[c].send
      BY <1>4, <2>1 DEF DenialIsSound
    <2>3. apiRequest'[c].send > d.send
      BY <2>1, <2>2
    <2>4. \A e \in effects : audited(e.client, e.send)' <=> audited(e.client, e.send)
      BY DEF audited
    <2> QED
      BY <1>0, <1>4, <2>1, <2>2, <2>3, <2>4 DEF DenialIsSound
  <1> QED
    BY <1>2, <1>3, <1>4, ClientStep

\* A client sends its request for the first time.
LEMMA SendIsSound ==
    ASSUME ApiInv, NEW c \in ApiClients, NEW credential \in credentials, NEW r \in Routes, NEW owner \in ApiTenants,
           Send(c, credential, r, owner)
    PROVE  ApiInv'
  <1> DEFINE new == [at |-> "arrived", send |-> 1, credential |-> credential, route |-> r, tenant |-> owner,
                     principal |-> {}, status |-> "", live |-> Authenticate(credential) # {}]
  <1>1. apiRequest' = [apiRequest EXCEPT ![c] = new] /\ wasIssued(credential) /\ UNCHANGED <<serviceAccounts, effects, auditLog>>
    BY DEF Send
  <1>2. ~ begun(c)
    BY DEF Send, begun
  <1>3. new.at = "arrived" /\ new.send \in Nat /\ new.credential = credential /\ new.route = r
        /\ new.live = (Authenticate(credential) # {})
    OBVIOUS
  <1> HIDE DEF new
  <1>4. apiRequest' = [d \in ApiClients |-> apiRequest'[d]] /\ apiRequest'[c] = new
        /\ \A d \in ApiClients \ {c} : apiRequest'[d] = apiRequest[d]
    BY <1>1 DEF ApiInv
  <1> QED
    BY <1>1, <1>2, <1>3, <1>4, ArrivalStep

\* A client sends again what was answered with an error or not at all.
LEMMA SendAgainIsSound ==
    ASSUME ApiInv, NEW c \in ApiClients, SendAgain(c)
    PROVE  ApiInv'
  <1>1. RequestIsSound(c) /\ begun(c)
    BY DEF ApiInv, SendAgain, begun
  <1>2. PICK credential, sent, alive :
           /\ credential = apiRequest[c].credential /\ sent = apiRequest[c].send + 1
           /\ alive = (Authenticate(credential) # {})
    OBVIOUS
  <1>3. credential \in credentials /\ apiRequest[c].send \in Nat /\ apiRequest[c].route \in Routes /\ TokenIsKnown(apiRequest[c])
    BY <1>1, <1>2 DEF RequestIsSound
  <1>4. wasIssued(credential)
    BY <1>2, <1>3 DEF TokenIsKnown, wasIssued
  <1>5. apiRequest' = advance(c, "arrived", sent, {}, "", alive) /\ UNCHANGED <<serviceAccounts, effects, auditLog>>
    BY <1>2 DEF SendAgain
  <1>6. /\ apiRequest' = [d \in ApiClients |-> apiRequest'[d]]
        /\ \A d \in ApiClients \ {c} : apiRequest'[d] = apiRequest[d]
        /\ apiRequest'[c].at = "arrived" /\ apiRequest'[c].send = sent /\ apiRequest'[c].principal = {}
        /\ apiRequest'[c].status = "" /\ apiRequest'[c].live = alive
        /\ apiRequest'[c].credential = apiRequest[c].credential /\ apiRequest'[c].route = apiRequest[c].route
        /\ apiRequest'[c].tenant = apiRequest[c].tenant
    <2>1. Moved(c, "arrived", sent, {}, "", alive)
      BY <1>5, Advanced
    <2> QED
      BY <2>1 DEF Moved
  <1>7. sent \in Nat /\ sent > apiRequest[c].send
    BY <1>2, <1>3
  <1> QED
    BY <1>2, <1>3, <1>4, <1>5, <1>6, <1>7, ArrivalStep

\* Who is found for a credential has its id, and what the row says; and the
\* credential was live when the request came.
LEMMA FoundIsSound ==
    ASSUME ApiInv, NEW c \in ApiClients, begun(c), NEW p \in Authenticate(apiRequest[c].credential)
    PROVE  p.id = apiRequest[c].credential.id /\ principalIsSound(p) /\ apiRequest[c].live
  <1> DEFINE credential == apiRequest[c].credential
  <1>1. RequestIsSound(c)
    BY DEF ApiInv
  <1>2. /\ credential \in credentials /\ TokenIsKnown(apiRequest[c])
        /\ credential.kind = "user" /\ AuthenticateUser(credential.id) # {} => apiRequest[c].live
    BY <1>1 DEF RequestIsSound
  <1>3. CASE credential.kind = "user"
    <2>1. credential.id \in DOMAIN Users /\ p \in AuthenticateUser(credential.id)
      BY <1>2, <1>3 DEF credentials, Authenticate
    <2>2. PICK permissions, tenants, platform : p = principalOf(credential.id, permissions, tenants, platform)
      <3> HIDE DEF credential
      <3> QED
        BY <2>1 DEF AuthenticateUser
    <2>3. p.id = credential.id
      BY <2>2 DEF principalOf
    <2>4. credential.id \notin ServiceNames
      BY <2>1, ApiAssumption
    <2> QED
      BY <1>2, <1>3, <2>1, <2>3, <2>4 DEF principalIsSound
  <1>4. CASE credential.kind # "user"
    <2>1. credential.kind = "service" /\ credential.id \in ServiceNames
      BY <1>2, <1>4 DEF credentials
    <2>2. p \in AuthenticateServiceAccount(credential.id, credential.token)
      BY <1>4 DEF Authenticate
    <2>3. PICK row \in serviceAccounts[credential.id] :
             /\ row.state = "ACTIVE" /\ row.token = credential.token
             /\ p = principalOf(credential.id, grantPermission(row.scopes), {row.tenant}, FALSE)
      BY <2>2 DEF AuthenticateServiceAccount
    <2>4. p.id = credential.id /\ p.permissions = grantPermission(row.scopes) /\ p.tenants = {row.tenant} /\ p.platform = FALSE
      BY <2>3 DEF principalOf
    <2>5. \A other \in serviceAccounts[credential.id] : other = row
      BY <2>1, <2>3 DEF ApiInv, RowIsSound
    <2>6. apiRequest[c].live
      BY <1>2, <2>1, <2>3 DEF TokenIsKnown
    <2>7. principalIsSound(p)
      BY <2>3, <2>4, <2>5 DEF principalIsSound
    <2> QED
      BY <2>4, <2>6, <2>7
  <1> QED
    BY <1>3, <1>4

\* protect admits the principals with the permission and the tenant, or
\* answers.
LEMMA ProtectIsSound ==
    ASSUME ApiInv, NEW c \in ApiClients, protect(c)
    PROVE  ApiInv'
  <1> DEFINE r == apiRequest[c]
             found == Authenticate(r.credential)
             admitted == {p \in found : Can(p, permissionOf(r.route)) /\ CanAccessTenant(p, r.tenant)}
  <1>1. begun(c) /\ r.at = "arrived" /\ UNCHANGED <<serviceAccounts, effects>>
    BY DEF protect, begun
  <1>2. PICK sent, alive, principal : sent = apiRequest[c].send /\ alive = apiRequest[c].live /\ principal = apiRequest[c].principal
    OBVIOUS
  <1>3. CASE admitted = {}
    <2>1. PICK status \in {"unauthenticated", "denied"} : apiRequest' = reply(c, status)
      BY <1>3 DEF protect
    <2>2. PICK who : auditSOARApprovalAccessDenied(c, who)
      BY <1>3 DEF protect
    <2>3. apiRequest' = advance(c, "answered", sent, principal, status, alive)
      BY <1>2, <2>1 DEF reply
    <2>4. /\ auditLog \subseteq auditLog'
          /\ \A e \in auditLog' \ auditLog : e.client = c /\ e.send = apiRequest[c].send
      <3>1. entry(c, who, "DENIED").client = c /\ entry(c, who, "DENIED").send = apiRequest[c].send
        BY DEF entry
      <3>2. auditLog' = auditLog \/ auditLog' = auditLog \cup {entry(c, who, "DENIED")}
        BY <2>2 DEF auditSOARApprovalAccessDenied
      <3> QED
        BY <3>1, <3>2
    <2>5. "answered" \in ApiStages \ {"arrived"} /\ "answered" \notin AdmittedStages /\ status # "ok"
      BY <2>1 DEF ApiStages, AdmittedStages
    <2>6. apiRequest[c].at = "arrived"
      BY <1>1
    <2> QED
      BY <1>1, <1>2, <2>3, <2>4, <2>5, <2>6, StageStep
  <1>4. CASE admitted # {}
    <2>1. PICK allowed, status : allowed = admitted /\ status = apiRequest[c].status
      OBVIOUS
    <2>2. apiRequest' = advance(c, "admitted", sent, allowed, status, alive) /\ auditLog' = auditLog
      BY <1>2, <1>4, <2>1 DEF protect
    <2>3. apiRequest[c].live /\ allowed # {}
      BY <1>1, <1>4, <2>1, FoundIsSound
    <2>4. \A p \in allowed : p.id = apiRequest[c].credential.id /\ entitled(p, apiRequest[c].route, apiRequest[c].tenant)
      BY <1>1, <2>1, FoundIsSound DEF entitled
    <2>5. PICK at : at = "admitted"
      OBVIOUS
    <2>6. /\ at \in ApiStages \ {"arrived"} /\ at \notin {"audited", "auditing", "done", "answered"}
          /\ apiRequest[c].at \notin {"auditing", "done", "answered"}
      BY <1>1, <2>5 DEF ApiStages, AdmittedStages
    <2>7. UNCHANGED <<serviceAccounts, effects>> /\ begun(c)
      BY <1>1
    <2>8. apiRequest' = advance(c, at, sent, allowed, status, alive) /\ auditLog' = auditLog
      BY <2>2, <2>5
    <2> HIDE DEF r, found, admitted
    <2> QED
      BY <1>2, <2>3, <2>4, <2>6, <2>7, <2>8, StageStep
  <1> QED
    BY <1>3, <1>4

\* An answer that is not "ok" keeps what was said.
LEMMA AnswerStep ==
    ASSUME ApiInv, NEW c \in ApiClients, NEW principal, NEW status, NEW sent, NEW alive,
           sent = apiRequest[c].send, alive = apiRequest[c].live,
           apiRequest' = advance(c, "answered", sent, principal, status, alive), status # "ok",
           apiRequest[c].at \in ApiStages \ {"answered"},
           apiRequest[c].at = "auditing" => status \in {"error", "lost"},
           UNCHANGED <<serviceAccounts, effects>>,
           auditLog \subseteq auditLog',
           \A e \in auditLog' \ auditLog : e.client = c /\ e.send = apiRequest[c].send /\ apiRequest[c].at # "auditing"
    PROVE  ApiInv'
  <1>1. begun(c)
    BY DEF begun, ApiStages, AdmittedStages
  <1>2. "answered" \in ApiStages \ {"arrived"} /\ "answered" \notin AdmittedStages
    BY DEF ApiStages, AdmittedStages
  <1>3. \A e \in auditLog' \ auditLog : e.client = c /\ e.send = apiRequest[c].send
    OBVIOUS
  <1>4. \A d \in auditLog' \ auditLog : d.outcome = "DENIED" => apiRequest[c].at # "auditing"
    OBVIOUS
  <1> QED
    BY <1>1, <1>2, <1>3, <1>4, StageStep

\* A request that the licence refuses, or that is lost, is answered without an
\* effect (handleLicenseAuthorization).
LEMMA RefusalIsSound ==
    ASSUME ApiInv, NEW c \in ApiClients, handleLicenseAuthorization(c) \/ Lose(c)
    PROVE  ApiInv'
  <1>1. PICK status \in {"denied", "lost"} :
           /\ apiRequest' = reply(c, status)
           /\ apiRequest[c].at = "auditing" => status = "lost"
    BY DEF handleLicenseAuthorization, Lose
  <1>2. PICK sent, alive, principal : /\ sent = apiRequest[c].send /\ alive = apiRequest[c].live /\ principal = apiRequest[c].principal
                                      /\ apiRequest' = advance(c, "answered", sent, principal, status, alive)
    BY <1>1 DEF reply
  <1>3. apiRequest[c].at = "auditing" => status = "lost"
    BY <1>1
  <1>4. apiRequest[c].at \in ApiStages \ {"answered"} /\ UNCHANGED <<serviceAccounts, effects>> /\ auditLog' = auditLog
    BY DEF handleLicenseAuthorization, Lose, ApiStages, AdmittedStages
  <1> QED
    BY <1>2, <1>3, <1>4, AnswerStep

\* The actor of an admitted request is its principal, under its credential's
\* id.
LEMMA ActorIsAdmitted ==
    ASSUME ApiInv, NEW c \in ApiClients, apiRequest[c].at \in AdmittedStages
    PROVE  actorOf(c) \in apiRequest[c].principal /\ actorOf(c).id = apiRequest[c].credential.id
  <1>1. RequestIsSound(c) /\ begun(c)
    BY DEF ApiInv, begun, AdmittedStages
  <1>2. apiRequest[c].principal # {} /\ \A p \in apiRequest[c].principal : p.id = apiRequest[c].credential.id
    BY <1>1 DEF RequestIsSound
  <1> QED
    BY <1>2 DEF actorOf

\* A request that the operation refuses is answered with an error, and so is a
\* decision that was committed and could not be reported, or that came too late
\* and ended its approval: the log calls each denied (handleDomainError).
LEMMA ErrorIsSound ==
    ASSUME ApiInv, NEW c \in ApiClients, handleDomainError(c)
    PROVE  ApiInv'
  <1>1. PICK sent, alive, principal : /\ sent = apiRequest[c].send /\ alive = apiRequest[c].live /\ principal = apiRequest[c].principal
                                      /\ apiRequest' = advance(c, "answered", sent, principal, "error", alive)
    BY DEF handleDomainError, reply
  <1>2. apiRequest[c].at \in {"admitted", "done"} /\ serviceAccounts' = serviceAccounts
    BY DEF handleDomainError
  <1>3. /\ auditLog \subseteq auditLog'
        /\ \A e \in auditLog' \ auditLog : e.client = c /\ e.send = apiRequest[c].send
    <2>1. \A who : entry(c, who, "DENIED").client = c /\ entry(c, who, "DENIED").send = apiRequest[c].send
      BY DEF entry
    <2>2. auditLog' = auditLog \/ auditLog' = auditLog \cup {entry(c, actorOf(c).id, "DENIED")}
      BY DEF handleDomainError, auditSOARApprovalAccessDenied
    <2> QED
      BY <2>1, <2>2
  <1>4. CASE effects' = effects
    <2>1. apiRequest[c].at \in ApiStages \ {"answered"} /\ apiRequest[c].at # "auditing"
      BY <1>2 DEF ApiStages, AdmittedStages
    <2>2. \A e \in auditLog' \ auditLog : e.client = c /\ e.send = apiRequest[c].send /\ apiRequest[c].at # "auditing"
      BY <1>3, <2>1
    <2> QED
      BY <1>1, <1>2, <1>3, <1>4, <2>1, <2>2, AnswerStep
  <1>5. CASE apiRequest[c].at = "admitted" /\ effects' = effects \cup {effectOf(c, apiRequest[c].tenant, TRUE)}
    <2>1. actorOf(c) \in apiRequest[c].principal
      BY <1>5, ActorIsAdmitted DEF AdmittedStages
    <2>2. entitled(actorOf(c), apiRequest[c].route, apiRequest[c].tenant)
      BY <1>5, <2>1 DEF ApiInv, RequestIsSound, begun, AdmittedStages
    <2>3. PICK f : f = effectOf(c, apiRequest[c].tenant, TRUE)
      OBVIOUS
    <2>4. /\ f.client = c /\ f.send = sent /\ f.live = alive /\ f.actor \in principal
          /\ f.route = apiRequest[c].route /\ entitled(f.actor, f.route, f.tenant) /\ f.expiry
      BY <1>1, <2>1, <2>2, <2>3 DEF effectOf
    <2>5. effects' = effects \cup {f} /\ apiRequest[c].at \in {"admitted", "audited"}
      BY <1>5, <2>3
    <2>6. \A e \in auditLog' \ auditLog : e.client = c /\ e.send = sent /\ f.expiry
      BY <1>1, <1>3, <2>4
    <2> QED
      BY <1>1, <1>2, <1>3, <2>4, <2>5, <2>6, EffectStep
  <1> QED
    BY <1>4, <1>5 DEF handleDomainError, lateDecision

\* A request keeps its stage's promises when it goes on to the next with the
\* principal and the status it has.
LEMMA ReachStep ==
    ASSUME ApiInv, NEW c \in ApiClients, NEW at, NEW principal, NEW status, NEW sent, NEW alive,
           sent = apiRequest[c].send, alive = apiRequest[c].live, principal = apiRequest[c].principal,
           apiRequest' = advance(c, at, sent, principal, status, alive),
           UNCHANGED <<serviceAccounts, effects>>,
           auditLog \subseteq auditLog',
           \A e \in auditLog' \ auditLog : e.client = c /\ e.send = apiRequest[c].send /\ e.outcome # "DENIED",
           apiRequest[c].at \in {"admitted", "audited", "auditing"},
           at \in {"audited", "auditing", "done"},
           at = "auditing" => auditOrder(apiRequest[c].route) = "after",
           at # "auditing" => \E e \in auditLog' : /\ e.client = c /\ e.send = apiRequest[c].send /\ e.outcome # "DENIED"
                                                  /\ e.actor = apiRequest[c].credential.id,
           apiRequest[c].at = "auditing" => at = "done"
    PROVE  ApiInv'
  <1>1. RequestIsSound(c) /\ begun(c)
    BY DEF ApiInv, begun
  <1>4. /\ apiRequest[c].live /\ principal # {}
        /\ \A p \in principal : p.id = apiRequest[c].credential.id /\ entitled(p, apiRequest[c].route, apiRequest[c].tenant)
    BY <1>1 DEF RequestIsSound, AdmittedStages
  <1>5. /\ apiRequest' = [d \in ApiClients |-> apiRequest'[d]]
        /\ \A d \in ApiClients \ {c} : apiRequest'[d] = apiRequest[d]
        /\ apiRequest'[c].at = at /\ apiRequest'[c].send = sent /\ apiRequest'[c].principal = principal
        /\ apiRequest'[c].status = status /\ apiRequest'[c].live = alive
        /\ apiRequest'[c].credential = apiRequest[c].credential /\ apiRequest'[c].route = apiRequest[c].route
        /\ apiRequest'[c].tenant = apiRequest[c].tenant
    <2>1. Moved(c, at, sent, principal, status, alive)
      BY Advanced
    <2> QED
      BY <2>1 DEF Moved
  <1>6. at # "auditing" => succeeded(c)'
    BY <1>5 DEF succeeded
  <1>7. at # "auditing" => audited(c, sent)'
    BY DEF audited
  <1>8. at \in ApiStages \ {"arrived"} /\ at # "answered"
    BY DEF ApiStages, AdmittedStages
  <1>9. /\ \A d \in auditLog' \ auditLog : d.outcome = "DENIED" => apiRequest[c].at # "auditing" /\ at = "answered"
        /\ \A e \in auditLog' \ auditLog : e.client = c /\ e.send = apiRequest[c].send
    OBVIOUS
  <1>10. /\ at = "audited" => succeeded(c)'
         /\ at = "done" \/ (at = "answered" /\ status = "ok") => settled(c)'
         /\ apiRequest[c].at \in {"auditing", "done", "answered"} => at \in {"auditing", "done", "answered"}
         /\ apiRequest[c].at # "answered"
         /\ apiRequest[c].at = "auditing" => (status \in {"error", "lost"} /\ at = "answered") \/ audited(c, sent)'
    BY <1>6, <1>7 DEF settled
  <1> QED
    BY <1>1, <1>4, <1>8, <1>9, <1>10, StageStep

\* The entry of a handler that writes it by itself is under the actor's id; one
\* that cannot be written makes the answer an error (AppendAudit).
LEMMA AuditIsSound ==
    ASSUME ApiInv, NEW c \in ApiClients, AppendAudit(c)
    PROVE  ApiInv'
  <1>1. /\ apiRequest[c].at \in {"admitted", "auditing"} /\ (apiRequest[c].at = "admitted" <=> auditsFirst(c))
        /\ UNCHANGED <<serviceAccounts, effects>>
    BY DEF AppendAudit
  <1>2. CASE auditLog' = auditLog /\ apiRequest' = auditFailed(c)
    <2>1. PICK sent, alive, principal : /\ sent = apiRequest[c].send /\ alive = apiRequest[c].live /\ principal = apiRequest[c].principal
                                         /\ apiRequest' = advance(c, "answered", sent, principal, "error", alive)
      BY <1>2 DEF auditFailed, reply
    <2> QED
      BY <1>1, <1>2, <2>1, AnswerStep DEF ApiStages, AdmittedStages
  <1>3. ASSUME NEW outcome \in outcomesOf(apiRequest[c].route),
               auditLog' = auditLog \cup {entry(c, actorOf(c).id, outcome)},
               apiRequest' = reaches(c, IF auditsFirst(c) THEN "audited" ELSE "done")
        PROVE  ApiInv'
    <2>1. actorOf(c).id = apiRequest[c].credential.id
      BY <1>1, ActorIsAdmitted DEF AdmittedStages
    <2>2. PICK new : new = entry(c, actorOf(c).id, outcome)
      OBVIOUS
    <2>3. /\ new.client = c /\ new.send = apiRequest[c].send /\ new.outcome # "DENIED"
          /\ new.actor = apiRequest[c].credential.id
      BY <1>3, <2>1, <2>2 DEF entry, outcomesOf
    <2>4. PICK at \in {"audited", "done"} : apiRequest' = reaches(c, at) /\ (apiRequest[c].at = "auditing" => at = "done")
      BY <1>1, <1>3
    <2>p. PICK sent, alive, principal, status :
             /\ sent = apiRequest[c].send /\ alive = apiRequest[c].live /\ principal = apiRequest[c].principal
             /\ apiRequest' = advance(c, at, sent, principal, status, alive)
      BY <2>4 DEF reaches
    <2>5. auditLog' = auditLog \cup {new}
      BY <1>3, <2>2
    <2>6. /\ auditLog \subseteq auditLog'
          /\ \A e \in auditLog' \ auditLog : e.client = c /\ e.send = apiRequest[c].send /\ e.outcome # "DENIED"
      BY <2>3, <2>5
    <2>7. \E e \in auditLog' : /\ e.client = c /\ e.send = apiRequest[c].send /\ e.outcome # "DENIED"
                               /\ e.actor = apiRequest[c].credential.id
      BY <2>3, <2>5
    <2>8. apiRequest[c].at \in {"admitted", "audited", "auditing"} /\ at \in {"audited", "auditing", "done"} /\ at # "auditing"
      BY <1>1, <2>4
    <2>9. /\ at = "auditing" => auditOrder(apiRequest[c].route) = "after"
          /\ at # "auditing" => \E e \in auditLog' : /\ e.client = c /\ e.send = apiRequest[c].send /\ e.outcome # "DENIED"
                                                     /\ e.actor = apiRequest[c].credential.id
      BY <2>7, <2>8
    <2>10. apiRequest[c].at = "auditing" => at = "done"
      BY <2>4
    <2> QED
      BY <1>1, <2>10, <2>6, <2>8, <2>9, <2>p, ReachStep
  <1> QED
    BY <1>2, <1>3 DEF AppendAudit

\* The answer of a handler comes after its entry.
LEMMA RespondIsSound ==
    ASSUME ApiInv, NEW c \in ApiClients, Respond(c)
    PROVE  ApiInv'
  <1>1. RequestIsSound(c) /\ begun(c) /\ apiRequest[c].at = "done" /\ UNCHANGED <<serviceAccounts, effects, auditLog>>
    BY DEF ApiInv, begun, Respond
  <1>2. PICK sent, alive, principal : sent = apiRequest[c].send /\ alive = apiRequest[c].live /\ principal = apiRequest[c].principal
    OBVIOUS
  <1>3. apiRequest' = advance(c, "answered", sent, principal, "ok", alive)
    BY <1>2 DEF reply, Respond
  <1>4. /\ apiRequest' = [d \in ApiClients |-> apiRequest'[d]]
        /\ \A d \in ApiClients \ {c} : apiRequest'[d] = apiRequest[d]
        /\ apiRequest'[c].at = "answered" /\ apiRequest'[c].send = sent /\ apiRequest'[c].principal = principal
        /\ apiRequest'[c].status = "ok" /\ apiRequest'[c].live = alive
        /\ apiRequest'[c].credential = apiRequest[c].credential /\ apiRequest'[c].route = apiRequest[c].route
        /\ apiRequest'[c].tenant = apiRequest[c].tenant
    <2>1. Moved(c, "answered", sent, principal, "ok", alive)
      BY <1>3, Advanced
    <2> QED
      BY <2>1 DEF Moved
  <1>5. settled(c)
    BY <1>1 DEF RequestIsSound
  <1>6. settled(c)'
    BY <1>1, <1>2, <1>4, <1>5 DEF settled, succeeded, repeats
  <1>7. "answered" \in ApiStages \ {"arrived"} /\ "answered" \notin AdmittedStages
    BY DEF ApiStages, AdmittedStages
  <1>8. PICK at, status : at = "answered" /\ status = "ok"
    OBVIOUS
  <1>9. /\ apiRequest' = advance(c, at, sent, principal, status, alive)
        /\ at \in ApiStages \ {"arrived"} /\ at \notin AdmittedStages
        /\ at \notin {"audited", "auditing"} /\ at \in {"auditing", "done", "answered"}
        /\ apiRequest[c].at \notin {"auditing", "answered"}
    BY <1>1, <1>3, <1>7, <1>8
  <1>10. begun(c) /\ UNCHANGED <<serviceAccounts, effects, auditLog>>
    BY <1>1
  <1> QED
    BY <1>2, <1>6, <1>9, <1>10, StageStep

\* The operation takes its effect before, with or after its entry (Operate).
LEMMA OperateIsSound ==
    ASSUME ApiInv, NEW c \in ApiClients, Operate(c)
    PROVE  ApiInv'
  <1> DEFINE order == auditOrder(apiRequest[c].route)
  <1>1. /\ apiRequest[c].at \in {"admitted", "audited"} /\ (apiRequest[c].at = "audited" <=> order = "first")
        /\ serviceAccounts' = serviceAccounts
    BY DEF Operate, auditsFirst
  <1>2. RequestIsSound(c) /\ begun(c) /\ order \in AuditOrders
    <2>1. RequestIsSound(c) /\ begun(c)
      BY <1>1 DEF ApiInv, begun
    <2>2. apiRequest[c].route \in Routes
      BY <2>1 DEF RequestIsSound
    <2> QED
      BY <2>1, <2>2, RoutesHaveOrders
  <1>3. actorOf(c) \in apiRequest[c].principal /\ actorOf(c).id = apiRequest[c].credential.id
    BY <1>1, ActorIsAdmitted DEF AdmittedStages
  <1>4. order = "first" => succeeded(c)
    BY <1>1, <1>2 DEF RequestIsSound
  <1>5. PICK owner \in actedOn(c) : effects' = effects \cup {effectOf(c, owner, FALSE)}
    BY DEF Operate
  <1>6. entitled(actorOf(c), apiRequest[c].route, owner)
    <2>1. entitled(actorOf(c), apiRequest[c].route, apiRequest[c].tenant)
      BY <1>1, <1>2, <1>3 DEF RequestIsSound, AdmittedStages
    <2>2. owner = apiRequest[c].tenant \/ actorOf(c).platform
      BY <1>5 DEF actedOn, Operate, requirePlatformScope
    <2> QED
      BY <2>1, <2>2 DEF entitled, CanAccessTenant
  <1>7. PICK sent, alive, principal, status, f, new :
           /\ sent = apiRequest[c].send /\ alive = apiRequest[c].live /\ principal = apiRequest[c].principal
           /\ status = apiRequest[c].status /\ f = effectOf(c, owner, FALSE) /\ new = entry(c, actorOf(c).id, "SUCCESS")
    OBVIOUS
  <1>8. /\ f.client = c /\ f.send = sent /\ f.live = alive /\ f.actor \in principal
        /\ f.route = apiRequest[c].route /\ entitled(f.actor, f.route, f.tenant)
    BY <1>3, <1>6, <1>7 DEF effectOf
  <1>9. new.client = c /\ new.send = sent /\ new.outcome # "DENIED" /\ new.actor = apiRequest[c].credential.id
    BY <1>3, <1>7 DEF entry
  <1>10. PICK at \in {"done", "auditing"} : (at = "auditing" <=> order = "after") /\ apiRequest' = reaches(c, at)
    BY DEF Operate
  <1>11. apiRequest' = advance(c, at, sent, principal, status, alive)
    BY <1>7, <1>10 DEF reaches
  <1>12. auditLog' = IF order = "within" THEN auditLog \cup {new} ELSE auditLog
    BY <1>7 DEF Operate
  <1>13. at = "done" => succeeded(c)'
    <2>1. Moved(c, at, sent, principal, status, alive)
      BY <1>11, Advanced
    <2>2. apiRequest'[c].send = apiRequest[c].send /\ apiRequest'[c].credential = apiRequest[c].credential
      BY <1>7, <2>1 DEF Moved
    <2>3. CASE order = "within"
      BY <1>7, <1>9, <1>12, <2>2, <2>3 DEF succeeded
    <2>4. CASE order = "first"
      BY <1>4, <1>12, <2>2, <2>4 DEF succeeded
    <2> QED
      BY <1>2, <1>10, <2>3, <2>4 DEF AuditOrders
  <1>14. /\ auditLog \subseteq auditLog'
         /\ \A e \in auditLog' \ auditLog :
               e.client = c /\ e.send = sent /\ (e.outcome = "DENIED" => f.expiry /\ at = "answered")
    BY <1>9, <1>12
  <1>15. at = "auditing" => auditOrder(apiRequest[c].route) = "after"
    BY <1>10
  <1>16. effects' = effects \cup {f} /\ at \in {"auditing", "done", "answered"} /\ at # "answered"
    BY <1>5, <1>7, <1>10
  <1> HIDE DEF order
  <1>17. serviceAccounts' = serviceAccounts /\ apiRequest[c].at \in {"admitted", "audited"}
    BY <1>1
  <1>18. /\ sent = apiRequest[c].send /\ alive = apiRequest[c].live /\ principal = apiRequest[c].principal
    BY <1>7
  <1> QED
    BY <1>17, <1>18, <1>8, <1>11, <1>13, <1>14, <1>15, <1>16, EffectStep

\* A repetition finds what was done: a case or an incident that was created is
\* answered at once, another operation is audited again (Repeat).
LEMMA RepeatIsSound ==
    ASSUME ApiInv, NEW c \in ApiClients, Repeat(c)
    PROVE  ApiInv'
  <1>1. /\ RequestIsSound(c) /\ begun(c) /\ apiRequest[c].at = "admitted" /\ UNCHANGED <<serviceAccounts, effects, auditLog>>
        /\ auditOrder(apiRequest[c].route) = "after"
    BY DEF ApiInv, begun, Repeat
  <1>2. PICK sent, alive, principal, status :
           /\ sent = apiRequest[c].send /\ alive = apiRequest[c].live /\ principal = apiRequest[c].principal
           /\ status = apiRequest[c].status
    OBVIOUS
  <1>3. PICK at \in {"done", "auditing"} : (at = "done" <=> apiRequest[c].route \in silentRepeats) /\ apiRequest' = reaches(c, at)
    BY DEF Repeat
  <1>4. apiRequest' = advance(c, at, sent, principal, status, alive)
    BY <1>2, <1>3 DEF reaches
  <1>5. PICK e \in effects : e.route = apiRequest[c].route /\ e.tenant \in actedOn(c)
    BY DEF Repeat, doneBefore
  <1>6. at = "done" => settled(c)'
    <2> SUFFICES ASSUME at = "done" PROVE repeats(c)'
      BY DEF settled
    <2>1. apiRequest[c].route \in silentRepeats /\ e.tenant = apiRequest[c].tenant
      BY <1>3, <1>5 DEF actedOn, silentRepeats, tenantRoutes
    <2>2. e.client = c => e.send < apiRequest[c].send
      <3>1. EffectIsSound(e) /\ apiRequest[c].send \in Nat
        BY <1>1 DEF ApiInv, RequestIsSound
      <3>2. ASSUME e.client = c PROVE e.send \in Nat /\ e.send <= apiRequest[c].send /\ e.send # apiRequest[c].send
        BY <1>1, <3>1, <3>2 DEF EffectIsSound
      <3> QED
        BY <3>1, <3>2
    <2>3. Moved(c, at, sent, principal, status, alive)
      BY <1>4, Advanced
    <2>4. /\ apiRequest'[c].route = apiRequest[c].route /\ apiRequest'[c].tenant = apiRequest[c].tenant
          /\ apiRequest'[c].send = apiRequest[c].send
      BY <1>2, <2>3 DEF Moved
    <2> QED
      BY <1>1, <1>5, <2>1, <2>2, <2>4 DEF repeats
  <1>7. /\ apiRequest[c].live /\ principal # {}
        /\ \A p \in principal : p.id = apiRequest[c].credential.id /\ entitled(p, apiRequest[c].route, apiRequest[c].tenant)
    BY <1>1, <1>2 DEF RequestIsSound, AdmittedStages
  <1>8. at \in ApiStages \ {"arrived"} /\ at # "answered" /\ at # "audited"
    BY <1>3 DEF ApiStages, AdmittedStages
  <1> QED
    BY <1>1, <1>2, <1>4, <1>6, <1>7, <1>8, StageStep

\* Every step keeps the invariant.
LEMMA ApiInductive == ApiInv /\ [ApiNext]_apiVars => ApiInv'
  <1> SUFFICES ASSUME ApiInv, [ApiNext]_apiVars PROVE ApiInv'
    OBVIOUS
  <1>1. ASSUME NEW name \in ServiceNames, NEW owner \in ApiTenants, NEW scopes \in ScopeRequests, NEW actor \in managers(owner),
               CreateServiceAccount(actor, name, owner, scopes)
        PROVE  ApiInv'
    BY <1>1, CreateIsSound
  <1>2. ASSUME NEW name \in ServiceNames, RotateServiceAccountToken(name) \/ RevokeServiceAccount(name)
        PROVE  ApiInv'
    BY <1>2, ChangeIsSound
  <1>3. ASSUME NEW c \in ApiClients, NEW credential \in credentials, NEW r \in Routes, NEW owner \in ApiTenants,
               Send(c, credential, r, owner)
        PROVE  ApiInv'
    BY <1>3, SendIsSound
  <1>4. ASSUME NEW c \in ApiClients, SendAgain(c) PROVE ApiInv'
    BY <1>4, SendAgainIsSound
  <1>5. ASSUME NEW c \in ApiClients, protect(c) PROVE ApiInv'
    BY <1>5, ProtectIsSound
  <1>6. ASSUME NEW c \in ApiClients, Operate(c) PROVE ApiInv'
    BY <1>6, OperateIsSound
  <1>7. ASSUME NEW c \in ApiClients, AppendAudit(c) PROVE ApiInv'
    BY <1>7, AuditIsSound
  <1>8. ASSUME NEW c \in ApiClients, Respond(c) PROVE ApiInv'
    BY <1>8, RespondIsSound
  <1>9. ASSUME NEW c \in ApiClients, handleLicenseAuthorization(c) \/ Lose(c) PROVE ApiInv'
    BY <1>9, RefusalIsSound
  <1>11. ASSUME NEW c \in ApiClients, handleDomainError(c) PROVE ApiInv'
    BY <1>11, ErrorIsSound
  <1>12. ASSUME NEW c \in ApiClients, Repeat(c) PROVE ApiInv'
    BY <1>12, RepeatIsSound
  <1>10. CASE UNCHANGED apiVars
    <2>1. serviceAccounts' = serviceAccounts /\ UNCHANGED <<apiRequest, effects, auditLog>>
      BY <1>10 DEF apiVars
    <2>2. ASSUME NEW name \in ServiceNames, NEW row \in serviceAccounts'[name] PROVE RowIsSound(name, row)'
      BY <2>1, <2>2 DEF ApiInv, RowIsSound, AuthenticateUser
    <2>3. ASSUME NEW name \in ServiceNames, NEW row \in serviceAccounts[name] PROVE row.token <= row.token
      BY <2>3 DEF ApiInv, RowIsSound
    <2>4. \A name \in ServiceNames : serviceAccounts[name] # {} =>
              /\ serviceAccounts'[name] # {}
              /\ \A row \in serviceAccounts'[name] : \E old \in serviceAccounts[name] :
                    /\ row.scopes = old.scopes /\ row.tenant = old.tenant /\ old.token <= row.token
                    /\ row.state = "ACTIVE" => old.state = "ACTIVE"
      BY <2>1, <2>3
    <2>5. serviceAccounts' = [name \in ServiceNames |-> serviceAccounts'[name]]
      BY <2>1 DEF ApiInv
    <2> QED
      BY <2>1, <2>2, <2>4, <2>5, AccountStep
  <1> QED
    BY <1>1, <1>2, <1>3, <1>4, <1>5, <1>6, <1>7, <1>8, <1>9, <1>10, <1>11, <1>12 DEF ApiNext

\* Nothing was asked for yet.
LEMMA ApiInitial == ApiInit => ApiInv
  <1> SUFFICES ASSUME ApiInit PROVE ApiInv
    OBVIOUS
  <1>1. \A name \in ServiceNames : serviceAccounts[name] = {}
    BY DEF ApiInit
  <1>2. ASSUME NEW c \in ApiClients PROVE RequestIsSound(c)
    BY DEF ApiInit, NoApiRequest, RequestIsSound, begun
  <1> QED
    BY <1>1, <1>2 DEF ApiInv, ApiInit

\* A request that was answered as done is in the audit log under its actor, or
\* repeated the creation of a case or an incident that is there; content is
\* handed out only after its entry, another effect is without one only while its
\* request is under way or was answered with an error or not at all; and a
\* request the log calls denied did nothing, unless its success is in the log as
\* well or it ended an approval whose time was over (the order of operation,
\* AppendAudit and reply in the handlers): for any number of clients, accounts,
\* tokens and repetitions, whatever the users' claims are.
THEOREM RequestsStayAccounted == ApiSpec => []RequestsAreAccounted
  <1>1. ApiInv => RequestsAreAccounted
    <2> SUFFICES ASSUME ApiInv PROVE RequestsAreAccounted
      OBVIOUS
    <2>1. ASSUME NEW c \in ApiClients, apiRequest[c].at = "answered", apiRequest[c].status = "ok"
          PROVE  succeeded(c) \/ repeats(c)
      BY <2>1 DEF ApiInv, RequestIsSound, begun, settled
    <2>2. ASSUME NEW e \in effects
          PROVE  \/ audited(e.client, e.send)
                 \/ /\ auditOrder(e.route) = "after" \/ e.expiry
                    /\ apiRequest[e.client].at = "auditing" \/ apiRequest[e.client].send > e.send
                          \/ apiRequest[e.client].status \in {"error", "lost"}
      BY DEF ApiInv, EffectIsSound
    <2>3. ASSUME NEW e \in auditLog, e.outcome = "DENIED", NEW f \in effects, <<f.client, f.send>> = <<e.client, e.send>>
          PROVE  f.expiry \/ audited(f.client, f.send)
      BY <2>3 DEF ApiInv, DenialIsSound
    <2> QED
      BY <2>1, <2>2, <2>3 DEF RequestsAreAccounted, succeeded, repeats
  <1> QED
    BY <1>1, ApiInitial, ApiInductive, PTL DEF ApiSpec

\* Whatever takes effect was asked for by a principal with the permission of
\* the route in a tenant of its own, with a credential that was good when the
\* request came; a service account never exceeds its creator, nor takes a
\* decision kept for humans (protect, grantPermission, grantableScopes,
\* ServiceAccountByTokenHash).
THEOREM EffectsStayEntitled == ApiSpec => []EffectsAreEntitled
  <1>1. ApiInv => EffectsAreEntitled
    <2> SUFFICES ASSUME ApiInv PROVE EffectsAreEntitled
      OBVIOUS
    <2>1. ASSUME NEW e \in effects
          PROVE  e.live /\ entitled(e.actor, e.route, e.tenant)
      BY DEF ApiInv, EffectIsSound
    <2>2. ASSUME NEW e \in effects, NEW name \in ServiceNames, e.actor.id = name
          PROVE  /\ permissionOf(e.route) \notin humanOnlyScopes
                 /\ \A row \in serviceAccounts[name] :
                       /\ e.tenant = row.tenant
                       /\ \A creator \in AuthenticateUser(row.createdBy) :
                             Can(creator, permissionOf(e.route)) /\ CanAccessTenant(creator, e.tenant)
      <3> DEFINE p == e.actor
                 needed == permissionOf(e.route)
      <3>1. serviceAccounts[name] # {} /\ Can(p, needed) /\ CanAccessTenant(p, e.tenant)
        BY <2>1, <2>2 DEF entitled, principalIsSound
      <3>2. ASSUME NEW row \in serviceAccounts[name]
            PROVE  /\ needed \notin humanOnlyScopes /\ e.tenant = row.tenant
                   /\ \A creator \in AuthenticateUser(row.createdBy) : Can(creator, needed) /\ CanAccessTenant(creator, e.tenant)
        <4>1. p.permissions = grantPermission(row.scopes) /\ p.tenants = {row.tenant} /\ p.platform = FALSE
          BY <2>1, <2>2, <3>2 DEF entitled, principalIsSound
        <4>2. RowIsSound(name, row)
          BY <3>2 DEF ApiInv
        <4>3. row.scopes \subseteq knownPermissions /\ row.scopes \cap humanOnlyScopes = {}
          BY <4>2 DEF RowIsSound
        <4>4. "*" \notin p.permissions
          <5>1. \A q : <<q, "*">> \notin permissionImplications
            BY DEF permissionImplications
          <5>2. "*" \notin row.scopes
            BY <4>3, StarIsUnknown
          <5>3. "*" \notin grantPermission(row.scopes)
            BY <5>1, <5>2, ImpliedPermissions
          <5> QED
            BY <4>1, <5>3
        <4>5. needed \in grantPermission(row.scopes)
          BY <3>1, <4>1, <4>4 DEF Can
        <4> HIDE DEF needed, p
        <4>6. \/ needed \in row.scopes
              \/ \E q \in row.scopes : <<q, needed>> \in permissionImplications
          BY <4>5, ImpliedPermissions
        <4>7. needed \notin humanOnlyScopes
          BY <4>3, <4>6, ImpliedIsNotHuman
        <4>8. e.tenant = row.tenant
          BY <3>1, <4>1 DEF CanAccessTenant
        <4>9. ASSUME NEW creator \in AuthenticateUser(row.createdBy)
              PROVE  Can(creator, needed) /\ CanAccessTenant(creator, e.tenant)
          <5>1. CanAccessTenant(creator, row.tenant) /\ \A scope \in row.scopes : Can(creator, scope)
            BY <4>2, <4>9 DEF RowIsSound
          <5>2. PICK granted : creator.permissions = grantPermission(granted)
            <6>1. PICK roles : creator.permissions = permissionsForRoles(roles)
              BY <4>9 DEF AuthenticateUser, principalOf
            <6> QED
              BY <6>1 DEF permissionsForRoles
          <5>3. CASE needed \in row.scopes
            BY <4>8, <5>1, <5>3
          <5>4. ASSUME NEW q \in row.scopes, <<q, needed>> \in permissionImplications
                PROVE  Can(creator, needed)
            BY <5>1, <5>2, <5>4, GrantsAreClosed DEF Can
          <5> QED
            BY <4>6, <4>8, <5>1, <5>3, <5>4
        <4> QED
          BY <4>7, <4>8, <4>9
      <3> QED
        BY <3>1, <3>2
    <2> QED
      BY <2>1, <2>2 DEF EffectsAreEntitled, entitled
  <1> QED
    BY <1>1, ApiInitial, ApiInductive, PTL DEF ApiSpec
=============================================================================
