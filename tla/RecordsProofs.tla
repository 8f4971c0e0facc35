---------------------------- MODULE RecordsProofs ----------------------------
(***************************************************************************)
(* What is proved of the records the platform answers for: evidence,       *)
(* backups, cases, the analysts' desk and hunts, for any number of clients,*)
(* contents, analysts, changes, processes, snapshots, alerts, incidents,   *)
(* stored events and pages.                                                *)
(***************************************************************************)
EXTENDS EvidenceLocker, CaseDesk, BackupRestore, SocDesk, Hunting, FiniteSetTheorems, SequenceTheorems,
        WellFoundedInduction, TLAPS

-----------------------------------------------------------------------------
(* Evidence.                                                               *)

CustodyActions ==
    Settlements \cup {"reserved", "evidence.accessed", "evidence.verified", "evidence.verification_failed"}
Entries == [id : Nat, action : CustodyActions, previous : Nat]
EvidenceRows == [status : {"PENDING", "AVAILABLE", "FAILED"}, content : Contents, verified : BOOLEAN, head : Nat]
UploadsUnderWay ==
    [at : {"reserved", "pending", "evidence.uploaded", "evidence.recovered", "failing", "finalized"}, content : Contents]
Listings == [at : {"listed"}, items : Seq(Entries)]

EvidenceType ==
    /\ evidenceRow \in EvidenceRows \cup {NoRow}
    /\ custody \in Seq(Entries)
    /\ upload \in [Uploaders -> UploadsUnderWay \cup {NoUpload}]
    /\ custodyCheck \in Listings \cup {NoCheck}

\* The object is the one the row was reserved for, and the entries of the
\* chain are numbered and linked in order up to the head.
RowAndChain ==
    /\ evidenceRow = NoRow => blob = {} /\ custody = <<>> /\ uploadedOk = {}
    /\ evidenceRow # NoRow => blob \in {{}, {evidenceRow.content}} /\ Len(custody) > 0 /\ evidenceRow.head = Len(custody)
    /\ \A i \in DOMAIN custody : custody[i].id = i /\ custody[i].previous = i - 1

\* What a request in progress knows of the row and of the object.
UploadsKnow ==
    \A u \in Uploaders : upload[u] # NoUpload =>
        /\ evidenceRow # NoRow /\ evidenceRow.content = upload[u].content
        /\ upload[u].at \in {"evidence.uploaded", "evidence.recovered"} => blob = {evidenceRow.content}
        /\ upload[u].at = "finalized" => evidenceRow.status = "AVAILABLE"

\* What a check of the chain has read is still the beginning of it.
ListingIsPrefix ==
    custodyCheck # NoCheck =>
        /\ Len(custodyCheck.items) \in 1 .. Len(custody)
        /\ \A i \in 1 .. Len(custodyCheck.items) : custodyCheck.items[i] = custody[i]

EvidenceInv == EvidenceType /\ RowAndChain /\ UploadsKnow /\ ListingIsPrefix /\ EvidenceIsKept

\* There is no row and no object at the start.
LEMMA EvidenceInvInit == EvidenceInit => EvidenceInv
  <1> SUFFICES ASSUME EvidenceInit PROVE EvidenceInv
    OBVIOUS
  <1>1. custody = <<>>
    BY DEF EvidenceInit
  <1>2. custody \in Seq(Entries)
    BY <1>1
  <1>4. Len(custody) = 0 /\ DOMAIN custody = {}
    BY <1>1
  <1>5. EvidenceType
    BY <1>2 DEF EvidenceInit, EvidenceType
  <1>6. UploadsKnow /\ ListingIsPrefix
    BY DEF EvidenceInit, UploadsKnow, ListingIsPrefix
  <1>7. settledAt = {}
    BY <1>4 DEF settledAt
  <1>8. RowAndChain
    BY <1>1, <1>4 DEF EvidenceInit, RowAndChain
  <1>9. EvidenceIsKept
    BY <1>7 DEF EvidenceInit, EvidenceIsKept, NoRow
  <1> QED BY <1>5, <1>6, <1>8, <1>9 DEF EvidenceInv

\* An entry added to the chain keeps the row, the chain and every listing in
\* order, whatever else the row it is added for records.
LEMMA AppendedCustody ==
  ASSUME EvidenceType, RowAndChain, ListingIsPrefix,
         NEW row \in EvidenceRows, NEW action \in CustodyActions,
         row.head = Len(custody), appendEvidenceCustody(row, action),
         UNCHANGED custodyCheck
  PROVE  /\ evidenceRow' \in EvidenceRows
         /\ evidenceRow'.status = row.status /\ evidenceRow'.content = row.content
         /\ custody' \in Seq(Entries) /\ Len(custody') = Len(custody) + 1
         /\ \A i \in DOMAIN custody : custody'[i] = custody[i]
         /\ custody'[Len(custody) + 1].action = action
         /\ evidenceRow'.head = Len(custody')
         /\ \A i \in DOMAIN custody' : custody'[i].id = i /\ custody'[i].previous = i - 1
         /\ ListingIsPrefix'
         /\ settledAt' = settledAt \cup (IF action \in Settlements THEN {Len(custody) + 1} ELSE {})
  <1> DEFINE entry == [id |-> Len(custody) + 1, action |-> action, previous |-> row.head]
  <1>1. entry \in Entries /\ Len(custody) \in Nat
    BY DEF Entries, EvidenceType, EvidenceRows
  <1>2. entry.id = Len(custody) + 1 /\ entry.action = action /\ entry.previous = Len(custody)
    OBVIOUS
  <1>3. custody' = Append(custody, entry) /\ evidenceRow' = [row EXCEPT !.head = Len(custody) + 1]
    BY DEF appendEvidenceCustody
  <1> HIDE DEF entry
  <1>4. custody' \in Seq(Entries) /\ Len(custody') = Len(custody) + 1
        /\ (\A i \in DOMAIN custody : custody'[i] = custody[i]) /\ custody'[Len(custody) + 1] = entry
    BY <1>1, <1>3 DEF EvidenceType
  <1>5. evidenceRow' \in EvidenceRows /\ evidenceRow'.status = row.status /\ evidenceRow'.content = row.content
        /\ evidenceRow'.head = Len(custody')
    BY <1>1, <1>3, <1>4 DEF EvidenceRows
  <1>6. DOMAIN custody = 1 .. Len(custody) /\ DOMAIN custody' = 1 .. Len(custody) + 1
    BY <1>4 DEF EvidenceType
  <1>7. \A i \in DOMAIN custody' : custody'[i].id = i /\ custody'[i].previous = i - 1
    BY <1>1, <1>2, <1>4, <1>6 DEF RowAndChain
  <1>8. ListingIsPrefix'
    <2> SUFFICES ASSUME custodyCheck # NoCheck
                 PROVE  /\ Len(custodyCheck.items) \in 1 .. Len(custody')
                        /\ \A i \in 1 .. Len(custodyCheck.items) : custodyCheck.items[i] = custody'[i]
      BY DEF ListingIsPrefix
    <2>1. Len(custodyCheck.items) \in 1 .. Len(custody)
          /\ \A i \in 1 .. Len(custodyCheck.items) : custodyCheck.items[i] = custody[i]
      BY DEF ListingIsPrefix
    <2> QED BY <1>1, <1>4, <1>6, <2>1
  <1>9. settledAt' = settledAt \cup (IF action \in Settlements THEN {Len(custody) + 1} ELSE {})
    BY <1>1, <1>2, <1>4, <1>6 DEF settledAt
  <1> QED BY <1>2, <1>4, <1>5, <1>7, <1>8, <1>9

\* Every step of uploads, verification and the blob store keeps the invariant.
LEMMA EvidenceInvStep == EvidenceInv /\ [EvidenceNext]_evidenceVars => EvidenceInv'
  <1> SUFFICES ASSUME EvidenceInv, [EvidenceNext]_evidenceVars PROVE EvidenceInv'
    OBVIOUS
  <1> USE DEF EvidenceInv
  <1>a. Len(custody) \in Nat /\ DOMAIN custody = 1 .. Len(custody)
    BY DEF EvidenceType
  <1>b. evidenceRow # NoRow => evidenceRow \in EvidenceRows /\ evidenceRow.status \in {"PENDING", "AVAILABLE", "FAILED"}
    BY DEF EvidenceType, EvidenceRows
  <1>c. evidenceRow = NoRow => evidenceRow.status = "ABSENT"
    BY DEF NoRow
  \* Steps that leave the row, the object and the chain alone, and change
  \* what one request knows.
  <1>1. ASSUME NEW u \in Uploaders, NEW call \in UploadsUnderWay \cup {NoUpload}, uploadGoes(u, call),
               UNCHANGED <<evidenceRow, blob, custody, uploadedOk, custodyCheck, checkResult>>,
               call # NoUpload => /\ evidenceRow # NoRow /\ evidenceRow.content = call.content
                                  /\ call.at \in {"evidence.uploaded", "evidence.recovered"} => blob = {evidenceRow.content}
                                  /\ call.at = "finalized" => evidenceRow.status = "AVAILABLE"
        PROVE  EvidenceInv'
    <2>1. upload' = [upload EXCEPT ![u] = call]
      BY <1>1 DEF uploadGoes
    <2>2. EvidenceType'
      BY <1>1, <2>1 DEF EvidenceType
    <2>3. UploadsKnow'
      BY <1>1, <2>1 DEF UploadsKnow, EvidenceType
    <2>4. RowAndChain' /\ ListingIsPrefix' /\ EvidenceIsKept'
      BY <1>1 DEF RowAndChain, ListingIsPrefix, EvidenceIsKept, settledAt, chained, headsMatch
    <2> QED BY <2>2, <2>3, <2>4
  \* Steps that add an entry to the chain of a row that is there.
  <1>2. ASSUME NEW row \in EvidenceRows, NEW action \in CustodyActions, appendEvidenceCustody(row, action),
               UNCHANGED <<blob, uploadedOk, custodyCheck, checkResult>>, evidenceRow # NoRow,
               row.content = evidenceRow.content, row.head = evidenceRow.head,
               \/ row.status = evidenceRow.status /\ action \notin Settlements
               \/ /\ evidenceRow.status = "PENDING" /\ row.status \in {"AVAILABLE", "FAILED"} /\ action \in Settlements
                  /\ row.status = "AVAILABLE" => blob = {evidenceRow.content},
               upload' \in [Uploaders -> UploadsUnderWay \cup {NoUpload}],
               \A u \in Uploaders : \/ upload'[u] \in {upload[u], NoUpload}
                                    \/ /\ upload'[u].content = evidenceRow.content /\ upload'[u].at = "finalized"
                                       /\ row.status = "AVAILABLE"
        PROVE  EvidenceInv'
    <2>1. row.head = Len(custody)
      BY <1>2 DEF RowAndChain
    <2>2. /\ evidenceRow' \in EvidenceRows
          /\ evidenceRow'.status = row.status /\ evidenceRow'.content = row.content
          /\ custody' \in Seq(Entries) /\ Len(custody') = Len(custody) + 1
          /\ \A i \in DOMAIN custody : custody'[i] = custody[i]
          /\ custody'[Len(custody) + 1].action = action
          /\ evidenceRow'.head = Len(custody')
          /\ \A i \in DOMAIN custody' : custody'[i].id = i /\ custody'[i].previous = i - 1
          /\ ListingIsPrefix'
          /\ settledAt' = settledAt \cup (IF action \in Settlements THEN {Len(custody) + 1} ELSE {})
      BY <1>2, <2>1, AppendedCustody
    <2>3. evidenceRow' # NoRow
      BY <2>2 DEF EvidenceRows, NoRow
    <2>4. EvidenceType'
      BY <1>2, <2>2 DEF EvidenceType
    <2>5. RowAndChain'
      BY <1>2, <1>a, <2>2, <2>3 DEF RowAndChain
    <2>6. UploadsKnow'
      BY <1>2, <1>b, <2>2, <2>3 DEF UploadsKnow
    <2>7. EvidenceIsKept'
      <3>1. DOMAIN custody' = 1 .. Len(custody) + 1
        BY <2>2
      <3>2. (chained(custody) /\ headsMatch(custody))'
        BY <1>a, <2>2, <3>1 DEF chained, headsMatch
      <3>3. (\A content \in uploadedOk : evidenceRow.status = "AVAILABLE" /\ evidenceRow.content = content)'
        BY <1>2, <2>2 DEF EvidenceIsKept
      <3>4. (evidenceRow.status = "AVAILABLE" => blob = {evidenceRow.content})'
        BY <1>2, <2>2 DEF EvidenceIsKept
      <3>5. (settledAt # {} <=> evidenceRow.status \in {"AVAILABLE", "FAILED"})'
        BY <1>2, <2>2 DEF EvidenceIsKept
      <3>6. (\A i, j \in settledAt : i = j)'
        BY <1>2, <2>2 DEF EvidenceIsKept
      <3> QED BY <1>2, <3>2, <3>3, <3>4, <3>5, <3>6 DEF EvidenceIsKept
    <2> QED BY <2>2, <2>4, <2>5, <2>6, <2>7
  <1>3. ASSUME NEW u \in Uploaders, NEW content \in Contents, ReserveEvidence(u, content) PROVE EvidenceInv'
    <2> DEFINE row == [status |-> "PENDING", content |-> content, verified |-> FALSE, head |-> 0]
               call == [at |-> "reserved", content |-> content]
    <2>1. row \in EvidenceRows /\ row.head = 0 /\ row.status = "PENDING" /\ row.content = content
          /\ call \in UploadsUnderWay /\ call.at = "reserved" /\ call.content = content
      BY DEF EvidenceRows, UploadsUnderWay
    <2>2. evidenceRow = NoRow /\ appendEvidenceCustody(row, "reserved") /\ upload' = [upload EXCEPT ![u] = call]
          /\ UNCHANGED <<blob, uploadedOk, custodyCheck, checkResult>>
      BY <1>3 DEF ReserveEvidence, uploadGoes
    <2> HIDE DEF row, call
    <2>3. Len(custody) = 0 /\ blob = {} /\ uploadedOk = {}
      BY <2>2 DEF RowAndChain
    <2>4. /\ evidenceRow' \in EvidenceRows
          /\ evidenceRow'.status = row.status /\ evidenceRow'.content = row.content
          /\ custody' \in Seq(Entries) /\ Len(custody') = Len(custody) + 1
          /\ evidenceRow'.head = Len(custody')
          /\ \A i \in DOMAIN custody' : custody'[i].id = i /\ custody'[i].previous = i - 1
          /\ ListingIsPrefix'
          /\ settledAt' = settledAt \cup (IF "reserved" \in Settlements THEN {Len(custody) + 1} ELSE {})
      <3>1. row \in EvidenceRows /\ "reserved" \in CustodyActions /\ row.head = Len(custody)
        BY <2>1, <2>3 DEF CustodyActions
      <3>2. UNCHANGED custodyCheck
        BY <2>2
      <3> QED BY <2>2, <3>1, <3>2, AppendedCustody
    <2>5. evidenceRow' # NoRow
      BY <2>4 DEF EvidenceRows, NoRow
    <2>6. settledAt = {} /\ settledAt' = {}
      BY <1>a, <2>3, <2>4 DEF settledAt, Settlements
    <2>7. EvidenceType'
      BY <2>1, <2>2, <2>4 DEF EvidenceType
    <2>8. RowAndChain'
      BY <2>2, <2>3, <2>4, <2>5 DEF RowAndChain
    <2>9. UploadsKnow'
      <3>1. \A v \in Uploaders : upload[v] = NoUpload
        BY <2>2 DEF UploadsKnow
      <3>2. \A v \in Uploaders : upload'[v] = IF v = u THEN call ELSE NoUpload
        BY <2>2, <3>1 DEF EvidenceType
      <3> QED BY <2>1, <2>4, <2>5, <3>2 DEF UploadsKnow
    <2>10. (chained(custody) /\ headsMatch(custody))'
      BY <2>3, <2>4 DEF chained, headsMatch
    <2>11. EvidenceIsKept'
      BY <2>1, <2>2, <2>3, <2>4, <2>6, <2>10 DEF EvidenceIsKept
    <2> QED BY <2>4, <2>7, <2>8, <2>9, <2>11
  <1>4. ASSUME NEW u \in Uploaders, NEW content \in Contents, repeatUpload(u, content) PROVE EvidenceInv'
    <2>1. PICK call \in {[at |-> "finalized", content |-> content], [at |-> "pending", content |-> content]} :
             /\ uploadGoes(u, call)
             /\ call.at = "finalized" => evidenceRow.status = "AVAILABLE"
             /\ evidenceRow # NoRow /\ evidenceRow.content = content
             /\ UNCHANGED <<evidenceRow, blob, custody, uploadedOk, custodyCheck, checkResult>>
      BY <1>4 DEF repeatUpload, sameContent
    <2>2. call \in UploadsUnderWay \cup {NoUpload} /\ call.content = content /\ call.at \in {"finalized", "pending"}
      BY <2>1 DEF UploadsUnderWay
    <2>3. /\ evidenceRow # NoRow /\ evidenceRow.content = call.content
          /\ call.at \in {"evidence.uploaded", "evidence.recovered"} => blob = {evidenceRow.content}
          /\ call.at = "finalized" => evidenceRow.status = "AVAILABLE"
      BY <2>1, <2>2
    <2> QED BY <1>1, <2>1, <2>2, <2>3
  \* What a request that is under way knows, with its position changed.
  <1>5. ASSUME NEW u \in Uploaders, upload[u].at # "idle",
               NEW at \in {"evidence.uploaded", "evidence.recovered", "failing", "finalized"}
        PROVE  /\ upload[u] \in UploadsUnderWay /\ upload[u] # NoUpload /\ evidenceRow # NoRow
               /\ evidenceRow.content = upload[u].content
               /\ [upload[u] EXCEPT !.at = at] \in UploadsUnderWay
               /\ [upload[u] EXCEPT !.at = at].at = at
               /\ [upload[u] EXCEPT !.at = at].content = evidenceRow.content
    <2>1. upload[u] # NoUpload
      BY <1>5 DEF NoUpload
    <2>2. upload[u] \in UploadsUnderWay
      BY <2>1 DEF EvidenceType
    <2>3. evidenceRow # NoRow /\ evidenceRow.content = upload[u].content
      BY <2>1 DEF UploadsKnow
    <2> QED BY <2>1, <2>2, <2>3 DEF UploadsUnderWay
  <1>6. ASSUME NEW u \in Uploaders, Put(u) \/ putFails(u) PROVE EvidenceInv'
    <2>1. upload[u].at = "reserved" /\ upload[u].at # "idle"
      BY <1>6 DEF Put, putFails
    <2>2. PICK at \in {"evidence.uploaded", "failing"} :
             /\ upload' = [upload EXCEPT ![u] = [upload[u] EXCEPT !.at = at]]
             /\ blob' \in {blob, {upload[u].content}}
             /\ at = "evidence.uploaded" => blob' = {upload[u].content}
             /\ UNCHANGED <<evidenceRow, custody, uploadedOk, custodyCheck, checkResult>>
      BY <1>6 DEF Put, putFails, uploadGoes
    <2> DEFINE call == [upload[u] EXCEPT !.at = at]
    <2>3. /\ evidenceRow # NoRow /\ evidenceRow.content = upload[u].content /\ call \in UploadsUnderWay
          /\ call.at = at /\ call.content = evidenceRow.content
      BY <1>5, <2>1, <2>2, Zenon
    <2>4. upload' = [upload EXCEPT ![u] = call]
      BY <2>2
    <2> HIDE DEF call
    <2>5. blob' \in {{}, {evidenceRow.content}} /\ (blob = {evidenceRow.content} => blob' = {evidenceRow.content})
      BY <2>2, <2>3 DEF RowAndChain
    <2>6. EvidenceType'
      BY <2>2, <2>3, <2>4 DEF EvidenceType
    <2>7. RowAndChain'
      BY <2>2, <2>3, <2>5 DEF RowAndChain
    <2>8. \A v \in Uploaders : upload'[v] = IF v = u THEN call ELSE upload[v]
      BY <2>4 DEF EvidenceType
    <2>9. UploadsKnow'
      BY <2>2, <2>3, <2>5, <2>8 DEF UploadsKnow
    <2>10. ListingIsPrefix'
      BY <2>2 DEF ListingIsPrefix
    <2>11. EvidenceIsKept'
      BY <2>2, <2>5 DEF EvidenceIsKept, settledAt, chained, headsMatch
    <2> QED BY <2>6, <2>7, <2>9, <2>10, <2>11
  <1>7. ASSUME NEW u \in Uploaders, Stat(u) PROVE EvidenceInv'
    <2>1. upload[u].at = "pending" /\ upload[u].at # "idle"
      BY <1>7 DEF Stat
    <2> DEFINE call == [upload[u] EXCEPT !.at = "evidence.recovered"]
    <2>2. /\ evidenceRow # NoRow /\ evidenceRow.content = upload[u].content /\ call \in UploadsUnderWay
          /\ call.at = "evidence.recovered" /\ call.content = evidenceRow.content
      BY <1>5, <2>1
    <2>3. uploadGoes(u, IF blob # {} THEN call ELSE NoUpload)
          /\ UNCHANGED <<evidenceRow, blob, custody, uploadedOk, custodyCheck, checkResult>>
      BY <1>7 DEF Stat
    <2> HIDE DEF call
    <2>4. blob # {} => blob = {evidenceRow.content}
      BY <2>2 DEF RowAndChain
    <2>5. CASE blob # {}
      BY <1>1, <2>2, <2>3, <2>4, <2>5
    <2>6. CASE blob = {}
      BY <1>1, <2>3, <2>6
    <2> QED BY <2>5, <2>6
  <1>8. ASSUME NEW u \in Uploaders, FinalizeEvidence(u) PROVE EvidenceInv'
    <2>1. upload[u].at \in {"evidence.uploaded", "evidence.recovered"} /\ upload[u].at # "idle"
      BY <1>8 DEF FinalizeEvidence
    <2> DEFINE call == [upload[u] EXCEPT !.at = "finalized"]
               row == [evidenceRow EXCEPT !.status = "AVAILABLE"]
    <2>2. /\ evidenceRow # NoRow /\ evidenceRow.content = upload[u].content /\ call \in UploadsUnderWay
          /\ call.at = "finalized" /\ call.content = evidenceRow.content /\ upload[u] # NoUpload
      BY <1>5, <2>1
    <2>3. blob = {evidenceRow.content}
      BY <2>1, <2>2 DEF UploadsKnow
    <2>4. row \in EvidenceRows /\ row.status = "AVAILABLE" /\ row.content = evidenceRow.content /\ row.head = evidenceRow.head
      BY <1>b, <2>2 DEF EvidenceRows
    <2>5. UNCHANGED <<blob, uploadedOk, custodyCheck, checkResult>>
          /\ upload' = [upload EXCEPT ![u] = IF evidenceRow.status = "PENDING" THEN call ELSE NoUpload]
      BY <1>8 DEF FinalizeEvidence, uploadGoes
    <2>6. CASE evidenceRow.status = "PENDING"
      <3>1. appendEvidenceCustody(row, upload[u].at) /\ upload[u].at \in Settlements
        BY <1>8, <2>1, <2>6 DEF FinalizeEvidence, transitionEvidence, Settlements
      <3> HIDE DEF row, call
      <3>2. upload' = [upload EXCEPT ![u] = call]
        BY <2>5, <2>6
      <3>3. upload' \in [Uploaders -> UploadsUnderWay \cup {NoUpload}]
            /\ \A v \in Uploaders : upload'[v] = IF v = u THEN call ELSE upload[v]
        BY <2>2, <3>2 DEF EvidenceType
      <3>4. \A v \in Uploaders : \/ upload'[v] \in {upload[v], NoUpload}
                                \/ /\ upload'[v].content = evidenceRow.content /\ upload'[v].at = "finalized"
                                   /\ row.status = "AVAILABLE"
        BY <2>2, <2>4, <3>3
      <3>5. upload[u].at \in CustodyActions
        BY <3>1 DEF CustodyActions
      <3> QED BY <1>2, <2>2, <2>3, <2>4, <2>5, <2>6, <3>1, <3>3, <3>4, <3>5
    <2>7. CASE evidenceRow.status # "PENDING"
      <3>1. UNCHANGED <<evidenceRow, blob, custody, uploadedOk, custodyCheck, checkResult>> /\ uploadGoes(u, NoUpload)
        BY <1>8, <2>5, <2>7 DEF FinalizeEvidence, transitionEvidence, uploadGoes
      <3> QED BY <1>1, <3>1
    <2> QED BY <2>6, <2>7
  <1>9. ASSUME NEW u \in Uploaders, FailEvidence(u) PROVE EvidenceInv'
    <2>1. upload[u].at = "failing" /\ upload[u].at # "idle"
      BY <1>9 DEF FailEvidence
    <2> DEFINE row == [evidenceRow EXCEPT !.status = "FAILED"]
    <2>2. evidenceRow # NoRow
      BY <1>5, <2>1
    <2>3. row \in EvidenceRows /\ row.status = "FAILED" /\ row.content = evidenceRow.content /\ row.head = evidenceRow.head
      BY <1>b, <2>2 DEF EvidenceRows
    <2>4. UNCHANGED <<blob, uploadedOk, custodyCheck, checkResult>> /\ uploadGoes(u, NoUpload)
      BY <1>9 DEF FailEvidence
    <2>5. CASE evidenceRow.status = "PENDING"
      <3>1. appendEvidenceCustody(row, "evidence.upload_failed") /\ "evidence.upload_failed" \in Settlements
        BY <1>9, <2>5 DEF FailEvidence, transitionEvidence, Settlements
      <3> HIDE DEF row
      <3>2. upload' \in [Uploaders -> UploadsUnderWay \cup {NoUpload}]
            /\ \A v \in Uploaders : upload'[v] \in {upload[v], NoUpload}
        BY <2>4 DEF EvidenceType, uploadGoes
      <3>3. "evidence.upload_failed" \in CustodyActions
        BY DEF CustodyActions, Settlements
      <3>4. \A v \in Uploaders : \/ upload'[v] \in {upload[v], NoUpload}
                                \/ /\ upload'[v].content = evidenceRow.content /\ upload'[v].at = "finalized"
                                   /\ row.status = "AVAILABLE"
        BY <3>2
      <3>5. row.status = "AVAILABLE" => blob = {evidenceRow.content}
        BY <2>3
      <3> QED BY <1>2, <2>2, <2>3, <2>4, <2>5, <3>1, <3>2, <3>3, <3>4, <3>5
    <2>6. CASE evidenceRow.status # "PENDING"
      <3>1. UNCHANGED <<evidenceRow, blob, custody, uploadedOk, custodyCheck, checkResult>>
        BY <1>9, <2>4, <2>6 DEF FailEvidence, transitionEvidence
      <3> QED BY <1>1, <2>4, <3>1
    <2> QED BY <2>5, <2>6
  <1>10. ASSUME NEW u \in Uploaders, uploadEvidence(u) PROVE EvidenceInv'
    <2>1. upload[u].at = "finalized" /\ upload[u].at # "idle" /\ upload' = [upload EXCEPT ![u] = NoUpload]
          /\ uploadedOk' = uploadedOk \cup {upload[u].content}
          /\ UNCHANGED <<evidenceRow, blob, custody, custodyCheck, checkResult>>
      BY <1>10 DEF uploadEvidence, uploadGoes
    <2>2. evidenceRow # NoRow /\ evidenceRow.content = upload[u].content /\ upload[u] # NoUpload
      BY <1>5, <2>1
    <2>3. evidenceRow.status = "AVAILABLE"
      BY <2>1, <2>2 DEF UploadsKnow
    <2>4. EvidenceType'
      BY <2>1 DEF EvidenceType
    <2>5. UploadsKnow'
      BY <2>1 DEF UploadsKnow, EvidenceType
    <2>6. RowAndChain' /\ ListingIsPrefix'
      BY <2>1, <2>2 DEF RowAndChain, ListingIsPrefix
    <2>7. EvidenceIsKept'
      BY <2>1, <2>2, <2>3 DEF EvidenceIsKept, settledAt, chained, headsMatch
    <2> QED BY <2>4, <2>5, <2>6, <2>7
  <1>11. ASSUME NEW u \in Uploaders, uploadAborts(u) PROVE EvidenceInv'
    BY <1>1, <1>11 DEF uploadAborts
  <1>12. ASSUME NEW row \in EvidenceRows, NEW action \in CustodyActions, appendEvidenceCustody(row, action),
                evidenceRow.status = "AVAILABLE", action \notin Settlements,
                row.content = evidenceRow.content, row.head = evidenceRow.head, row.status = evidenceRow.status,
                UNCHANGED <<blob, upload, uploadedOk, custodyCheck, checkResult>>
         PROVE  EvidenceInv'
    <2>1. evidenceRow # NoRow
      BY <1>c, <1>12
    <2>2. upload' \in [Uploaders -> UploadsUnderWay \cup {NoUpload}] /\ \A u \in Uploaders : upload'[u] \in {upload[u], NoUpload}
      BY <1>12 DEF EvidenceType
    <2> QED BY <1>2, <1>12, <2>1, <2>2
  <1>13. ASSUME Open PROVE EvidenceInv'
    <2>1. evidenceRow \in EvidenceRows
      BY <1>13, <1>b, <1>c DEF Open
    <2>2. "evidence.accessed" \in CustodyActions /\ "evidence.accessed" \notin Settlements
      BY DEF CustodyActions, Settlements
    <2> QED BY <1>12, <1>13, <2>1, <2>2 DEF Open
  <1>14. ASSUME Verify PROVE EvidenceInv'
    <2> DEFINE valid == blob = {evidenceRow.content}
               row == [evidenceRow EXCEPT !.verified = @ \/ valid]
               action == IF valid THEN "evidence.verified" ELSE "evidence.verification_failed"
    <2>1. evidenceRow \in EvidenceRows /\ evidenceRow.status = "AVAILABLE"
      BY <1>14, <1>b, <1>c DEF Verify
    <2>2. action \in CustodyActions /\ action \notin Settlements
      BY DEF CustodyActions, Settlements
    <2>3. row \in EvidenceRows /\ row.content = evidenceRow.content /\ row.head = evidenceRow.head /\ row.status = evidenceRow.status
      BY <2>1 DEF EvidenceRows
    <2>4. appendEvidenceCustody(row, action) /\ UNCHANGED <<blob, upload, uploadedOk, custodyCheck, checkResult>>
      BY <1>14 DEF Verify
    <2> HIDE DEF row, action, valid
    <2> QED BY <1>12, <2>1, <2>2, <2>3, <2>4
  <1>15. ASSUME ListEvidenceCustody PROVE EvidenceInv'
    <2> DEFINE listing == [at |-> "listed", items |-> custody]
    <2>1. custodyCheck' = listing /\ custody # <<>> /\ UNCHANGED <<evidenceRow, blob, custody, upload, uploadedOk, checkResult>>
      BY <1>15 DEF ListEvidenceCustody
    <2>2. listing \in Listings /\ listing.items = custody
      BY DEF Listings, EvidenceType
    <2> HIDE DEF listing
    <2>3. Len(custody) > 0
      BY <2>1 DEF EvidenceType
    <2>4. EvidenceType'
      BY <2>1, <2>2 DEF EvidenceType
    <2>5. ListingIsPrefix'
      BY <1>a, <2>1, <2>2, <2>3 DEF ListingIsPrefix
    <2> QED BY <2>1, <2>4, <2>5 DEF RowAndChain, UploadsKnow, EvidenceIsKept, settledAt, chained, headsMatch
  <1>16. ASSUME VerifyEvidenceCustody PROVE EvidenceInv'
    <2> DEFINE items == custodyCheck.items
    <2>1. checkResult' = (IF chained(items) /\ headsMatch(items) THEN "valid" ELSE IF items # custody THEN "raced" ELSE "invalid")
          /\ custodyCheck' = NoCheck /\ custodyCheck.at = "listed" /\ UNCHANGED <<evidenceRow, blob, custody, upload, uploadedOk>>
      BY <1>16 DEF VerifyEvidenceCustody
    <2>2. custodyCheck # NoCheck
      BY <2>1 DEF NoCheck
    <2>3. Len(custody) > 0
      BY <1>a, <2>2 DEF ListingIsPrefix
    <2>4. evidenceRow # NoRow
      BY <2>3, <1>a DEF RowAndChain
    <2>5. items = custody => chained(items) /\ headsMatch(items)
      BY <2>4 DEF EvidenceIsKept
    <2> HIDE DEF items
    <2>6. checkResult' # "invalid"
      BY <2>1, <2>5
    <2>7. EvidenceType'
      BY <2>1 DEF EvidenceType
    <2> QED BY <2>1, <2>6, <2>7 DEF RowAndChain, UploadsKnow, ListingIsPrefix, EvidenceIsKept, settledAt, chained, headsMatch
  <1>17. ASSUME UNCHANGED evidenceVars PROVE EvidenceInv'
    BY <1>17 DEF evidenceVars, EvidenceType, RowAndChain, UploadsKnow, ListingIsPrefix, EvidenceIsKept, settledAt, chained, headsMatch
  <1> QED
    BY <1>3, <1>4, <1>6, <1>7, <1>8, <1>9, <1>10, <1>11, <1>13, <1>14, <1>15, <1>16, <1>17 DEF EvidenceNext

\* Evidence that a client was told is stored stays stored, whoever completed
\* the upload, and its chain of custody is unbroken and tells the outcome once.
THEOREM EvidenceStaysKept == EvidenceSpec => []EvidenceIsKept
  <1>1. EvidenceInv => EvidenceIsKept
    BY DEF EvidenceInv
  <1> QED BY <1>1, EvidenceInvInit, EvidenceInvStep, PTL DEF EvidenceSpec

-----------------------------------------------------------------------------
(* Disaster recovery.                                                      *)

BackupJobs == [at : {"dumping", "uploading"}, backup : Backups, next : 1 .. 7]
PruneJobs == [at : {"pruning"}, left : SUBSET Backups]
RestoreStages == {"downloading", "extracting", "postgres", "clickhouse", "bucket", "verifying", "cleaning ok", "cleaning failed"}
RestoreJobs == [at : RestoreStages, drill : BOOLEAN, created : SUBSET Targets]
Jobs == BackupJobs \cup PruneJobs \cup RestoreJobs \cup {NoJob}

DrType ==
    /\ snapshot \in [Backups -> SUBSET Whole]
    /\ completed \subseteq Backups
    /\ target \in [Targets -> {"none", "foreign", "partial", "restored"}]
    /\ drJob \in [DrProcesses -> Jobs]

\* The lock admits one job at a time.
OneJob == \A p, q \in DrProcesses : drJob[p].at # "idle" /\ drJob[q].at # "idle" => p = q

\* The objects that were put before the n-th.
putBefore(n) == {UploadOrder[i] : i \in 1 .. n - 1}

newer(b, done) == {c \in done : c > b}

\* What a restore has created so far, by its stage; a failed one may have
\* created anything.
createdBy(at) ==
    IF at = "clickhouse" THEN {"postgres"} ELSE IF at = "bucket" THEN {"postgres", "clickhouse"}
    ELSE IF at \in {"verifying", "cleaning ok"} THEN Targets ELSE {}

JobKnows(job, objects, done, targets) ==
    /\ job.at = "dumping" => objects[job.backup] = {} /\ job.next \in 1 .. 3
    /\ job.at = "uploading" => objects[job.backup] = putBefore(job.next)
    /\ job.at = "pruning" => \A b \in job.left : Cardinality(newer(b, done)) >= MinimumBackups
    /\ job.at \in RestoreStages => /\ job.at # "cleaning failed" => job.created = createdBy(job.at)
                                   /\ \A t \in job.created : targets[t] = "restored"

DrInv ==
    /\ DrType /\ OneJob /\ RecoveryIsPossible
    /\ \A b \in Backups : complete(b) => b \in completed
    /\ \A p \in DrProcesses : JobKnows(drJob[p], snapshot, completed, target)

\* The fields of a job follow from what it is doing.
LEMMA JobKinds ==
  ASSUME NEW job \in Jobs
  PROVE  /\ job.at \in {"dumping", "uploading"} => job \in BackupJobs /\ job.backup \in Backups /\ job.next \in 1 .. 7
         /\ job.at = "pruning" => job \in PruneJobs /\ job.left \in SUBSET Backups
         /\ job.at \in RestoreStages => job \in RestoreJobs /\ job.drill \in BOOLEAN /\ job.created \in SUBSET Targets
         /\ job.at = "idle" <=> job = NoJob
  <1>1. job \in BackupJobs => job.at \in {"dumping", "uploading"} /\ job.backup \in Backups /\ job.next \in 1 .. 7
    BY DEF BackupJobs
  <1>2. job \in PruneJobs => job.at = "pruning" /\ job.left \in SUBSET Backups
    BY DEF PruneJobs
  <1>3. job \in RestoreJobs => job.at \in RestoreStages /\ job.drill \in BOOLEAN /\ job.created \in SUBSET Targets
    BY DEF RestoreJobs
  <1>4. job = NoJob => job.at = "idle"
    BY DEF NoJob
  <1> QED BY <1>1, <1>2, <1>3, <1>4 DEF Jobs, RestoreStages

\* The objects put before the marker are not the marker, and with it they
\* are the whole snapshot.
LEMMA PutBeforeFacts ==
  ASSUME NEW n \in 1 .. 7
  PROVE  /\ putBefore(n) \cup {UploadOrder[n]} = putBefore(n + 1)
         /\ putBefore(1) = {}
         /\ UploadOrder[n] \in Whole
         /\ n # 7 => "_SUCCESS" \notin putBefore(n + 1)
         /\ n = 7 => putBefore(n + 1) = Whole
         /\ Len(UploadOrder) = 7 /\ Len(DumpOrder) = 3
  <1>1. DOMAIN UploadOrder = 1 .. 7 /\ Len(UploadOrder) = 7 /\ Len(DumpOrder) = 3
    BY DEF UploadOrder, DumpOrder
  <1>2. \A i \in 1 .. 6 : UploadOrder[i] # "_SUCCESS"
    BY DEF UploadOrder
  <1>3. putBefore(n) \cup {UploadOrder[n]} = putBefore(n + 1)
    BY DEF putBefore
  <1>4. putBefore(1) = {}
    BY DEF putBefore
  <1>5. n # 7 => "_SUCCESS" \notin putBefore(n + 1)
    BY <1>2 DEF putBefore
  <1>6. n = 7 => putBefore(n + 1) = Whole
    BY <1>1 DEF putBefore, Whole
  <1>7. UploadOrder[n] \in Whole
    BY <1>1 DEF Whole
  <1> QED BY <1>1, <1>3, <1>4, <1>5, <1>6, <1>7

\* Completing further snapshots never makes fewer of them newer.
LEMMA NewerGrows ==
  ASSUME NEW some, NEW more, some \subseteq more, more \subseteq Backups, NEW b \in Backups
  PROVE  /\ Cardinality(newer(b, some)) \in Nat /\ Cardinality(newer(b, more)) \in Nat
         /\ Cardinality(newer(b, some)) <= Cardinality(newer(b, more))
  <1>1. IsFiniteSet(Backups)
    BY FS_Interval, BackupRestoreAssumption DEF Backups
  <1>2. newer(b, some) \subseteq newer(b, more) /\ newer(b, more) \subseteq Backups
    BY DEF newer
  <1>3. IsFiniteSet(newer(b, more))
    BY <1>1, <1>2, FS_Subset
  <1>4. IsFiniteSet(newer(b, some)) /\ Cardinality(newer(b, some)) <= Cardinality(newer(b, more))
    BY <1>2, <1>3, FS_Subset
  <1> QED BY <1>3, <1>4, FS_CardinalityType

\* There are no snapshots and no jobs at the start.
LEMMA DrInvInit == DrInit => DrInv
  <1> SUFFICES ASSUME DrInit PROVE DrInv
    OBVIOUS
  <1>1. DrType /\ \A p \in DrProcesses : drJob[p] = NoJob
    BY DEF DrInit, DrType, Jobs, Targets
  <1>2. NoJob.at = "idle"
    BY DEF NoJob
  <1>3. OneJob /\ \A p \in DrProcesses : JobKnows(drJob[p], snapshot, completed, target)
    BY <1>1, <1>2 DEF OneJob, JobKnows, RestoreStages
  <1>4. RecoveryIsPossible /\ \A b \in Backups : complete(b) => b \in completed
    BY DEF DrInit, RecoveryIsPossible, complete
  <1> QED BY <1>1, <1>3, <1>4 DEF DrInv

\* Every step of backup, pruning, restore and drill keeps the invariant.
LEMMA DrInvStep == DrInv /\ [DrNext]_drVars => DrInv'
  <1> SUFFICES ASSUME DrInv, [DrNext]_drVars PROVE DrInv'
    OBVIOUS
  <1> USE DEF DrInv
  <1>a. NoJob.at = "idle" /\ NoJob \in Jobs
    BY DEF NoJob, Jobs
  <1>b. \A p \in DrProcesses : drJob[p] \in Jobs /\ (drJob[p].at = "idle" <=> drJob[p] = NoJob)
    BY JobKinds DEF DrType
  <1>c. \A objects, done, targets : JobKnows(NoJob, objects, done, targets)
    BY <1>a DEF JobKnows, RestoreStages
  \* One process goes on with its job, or takes one when there is none.
  <1>1. ASSUME NEW p \in DrProcesses, NEW job \in Jobs, drGoes(p, job), acquireLock(p) \/ drJob[p].at # "idle",
               JobKnows(job, snapshot', completed', target')
        PROVE  /\ drJob' \in [DrProcesses -> Jobs] /\ OneJob'
               /\ \A q \in DrProcesses : JobKnows(drJob[q], snapshot, completed, target)'
    <2>1. \A q \in DrProcesses : q # p => drJob[q] = NoJob
      BY <1>1, <1>b DEF acquireLock, OneJob
    <2>2. drJob' \in [DrProcesses -> Jobs] /\ \A q \in DrProcesses : drJob'[q] = IF q = p THEN job ELSE NoJob
      BY <1>1, <2>1 DEF drGoes, DrType
    <2>3. OneJob'
      BY <1>a, <2>2 DEF OneJob
    <2>4. ASSUME NEW q \in DrProcesses PROVE JobKnows(drJob'[q], snapshot', completed', target')
      BY <1>1, <1>c, <2>2
    <2> QED BY <2>2, <2>3, <2>4
  \* The snapshots are left alone.
  <1>2. ASSUME UNCHANGED <<snapshot, completed>>, target' \in [Targets -> {"none", "foreign", "partial", "restored"}],
               NEW p \in DrProcesses, NEW job \in Jobs, drGoes(p, job), acquireLock(p) \/ drJob[p].at # "idle",
               JobKnows(job, snapshot, completed, target')
        PROVE  DrInv'
    <2>1. /\ drJob' \in [DrProcesses -> Jobs] /\ OneJob'
          /\ \A q \in DrProcesses : JobKnows(drJob[q], snapshot, completed, target)'
      BY <1>1, <1>2
    <2>2. DrType'
      BY <1>2, <2>1 DEF DrType
    <2>3. RecoveryIsPossible' /\ (\A b \in Backups : complete(b) => b \in completed)'
      BY <1>2 DEF RecoveryIsPossible, complete
    <2> QED BY <2>1, <2>2, <2>3
  <1>3. ASSUME NEW b \in Backups, Ages(b) PROVE DrInv'
    BY <1>3 DEF Ages, DrType, OneJob, RecoveryIsPossible, complete
  <1>4. ASSUME NEW p \in DrProcesses, NEW b \in Backups, Backup(p, b) PROVE DrInv'
    <2> DEFINE job == [at |-> "dumping", backup |-> b, next |-> 1]
    <2>1. job \in Jobs /\ job.at = "dumping" /\ job.backup = b /\ job.next \in 1 .. 3
      BY DEF Jobs, BackupJobs
    <2>2. UNCHANGED <<snapshot, completed, target>> /\ acquireLock(p) /\ drGoes(p, job)
      BY <1>4 DEF Backup
    <2>3. snapshot[b] = {}
      BY <1>4 DEF Backup, newBackupID, Backups
    <2> HIDE DEF job
    <2>4. JobKnows(job, snapshot, completed, target')
      BY <2>1, <2>3 DEF JobKnows, RestoreStages
    <2> QED BY <1>2, <2>1, <2>2, <2>4 DEF DrType
  <1>5. ASSUME NEW p \in DrProcesses, NEW store, dump(p, store) PROVE DrInv'
    <2>1. drJob[p].at = "dumping" /\ UNCHANGED <<snapshot, completed, target>>
      BY <1>5 DEF dump
    <2>2. drJob[p] \in BackupJobs /\ drJob[p].backup \in Backups /\ drJob[p].next \in 1 .. 3
          /\ snapshot[drJob[p].backup] = {}
      BY <1>b, <2>1, JobKinds DEF JobKnows
    <2>3. PICK job : /\ drGoes(p, job)
                     /\ \/ job = [at |-> "uploading", backup |-> drJob[p].backup, next |-> 1]
                        \/ job = [drJob[p] EXCEPT !.next = @ + 1] /\ drJob[p].next # 3
      BY <1>5, PutBeforeFacts DEF dump
    <2>4. job \in BackupJobs /\ job.backup = drJob[p].backup
          /\ ((job.at = "uploading" /\ job.next = 1) \/ (job.at = "dumping" /\ job.next \in 1 .. 3))
      BY <2>1, <2>2, <2>3 DEF BackupJobs
    <2>5. putBefore(1) = {}
      BY PutBeforeFacts
    <2>6. JobKnows(job, snapshot, completed, target')
      BY <2>2, <2>4, <2>5 DEF JobKnows, RestoreStages
    <2> QED BY <1>2, <2>1, <2>3, <2>4, <2>6 DEF DrType, Jobs
  <1>6. ASSUME NEW p \in DrProcesses, NEW objects, put(p, objects) PROVE DrInv'
    <2> DEFINE b == drJob[p].backup
               n == drJob[p].next
    <2>1. drJob[p].at = "uploading" /\ UNCHANGED target
          /\ snapshot' = [snapshot EXCEPT ![b] = @ \cup {UploadOrder[n]}]
      BY <1>6 DEF put
    <2>2. drJob[p] \in BackupJobs /\ b \in Backups /\ n \in 1 .. 7 /\ snapshot[b] = putBefore(n)
      BY <1>b, <2>1, JobKinds DEF JobKnows
    <2>3. PICK job : /\ drGoes(p, job)
                     /\ \/ n = 7 /\ completed' = completed \cup {b} /\ job = NoJob
                        \/ n # 7 /\ completed' = completed /\ job = [drJob[p] EXCEPT !.next = @ + 1]
      BY <1>6, <2>2, PutBeforeFacts DEF put
    <2>4. job = NoJob \/ (job \in BackupJobs /\ job.at = "uploading" /\ job.backup = b /\ job.next = n + 1)
      BY <2>1, <2>2, <2>3 DEF BackupJobs
    <2> HIDE DEF b, n
    <2>5. snapshot' \in [Backups -> SUBSET Whole] /\ \A c \in Backups : snapshot'[c] = IF c = b THEN putBefore(n + 1) ELSE snapshot[c]
      <3>1. putBefore(n) \cup {UploadOrder[n]} = putBefore(n + 1) /\ UploadOrder[n] \in Whole
        BY <2>2, PutBeforeFacts
      <3>2. snapshot[b] \cup {UploadOrder[n]} = putBefore(n + 1) /\ snapshot[b] \cup {UploadOrder[n]} \in SUBSET Whole
        BY <2>2, <3>1 DEF DrType
      <3> QED BY <2>1, <2>2, <3>2 DEF DrType
    <2>6. JobKnows(job, snapshot', completed', target')
      <3>1. CASE job = NoJob
        BY <1>c, <3>1
      <3>2. CASE job \in BackupJobs /\ job.at = "uploading" /\ job.backup = b /\ job.next = n + 1
        BY <2>2, <2>5, <3>2 DEF JobKnows, RestoreStages
      <3> QED BY <2>4, <3>1, <3>2
    <2>7. /\ drJob' \in [DrProcesses -> Jobs] /\ OneJob'
          /\ \A q \in DrProcesses : JobKnows(drJob[q], snapshot, completed, target)'
      <3>1. job \in Jobs /\ drJob[p].at # "idle"
        BY <2>1, <2>4 DEF Jobs
      <3> QED BY <1>1, <2>3, <2>6, <3>1
    <2>8. completed \subseteq completed' /\ completed' \subseteq Backups
      BY <2>2, <2>3 DEF DrType
    <2>9. DrType'
      BY <2>1, <2>5, <2>7, <2>8 DEF DrType
    <2>10. \A c \in Backups : complete(c)' => snapshot'[c] = Whole /\ c \in completed'
      <3>1. ASSUME NEW c \in Backups, "_SUCCESS" \in snapshot'[c], c = b PROVE snapshot'[c] = Whole /\ c \in completed'
        BY <2>2, <2>3, <2>5, <3>1, PutBeforeFacts
      <3>2. ASSUME NEW c \in Backups, "_SUCCESS" \in snapshot'[c], c # b PROVE snapshot'[c] = Whole /\ c \in completed'
        BY <2>5, <2>8, <3>2 DEF RecoveryIsPossible, complete
      <3> QED BY <3>1, <3>2 DEF complete
    <2>11. ASSUME NEW c \in completed', Cardinality({d \in completed' : d > c}) < MinimumBackups PROVE complete(c)'
      <3>1. c \in Backups
        BY <2>8
      <3>2. Cardinality(newer(c, completed')) < MinimumBackups
        BY <2>11 DEF newer
      <3>3. Cardinality(newer(c, completed)) < MinimumBackups
        BY <2>8, <3>1, <3>2, NewerGrows, BackupRestoreAssumption
      <3>4. CASE c \in completed
        <4>1. "_SUCCESS" \in snapshot[c] /\ snapshot[c] = Whole
          BY <3>1, <3>3, <3>4 DEF RecoveryIsPossible, complete, newer
        <4>2. c = b => snapshot[c] \subseteq putBefore(n + 1)
          BY <2>2, PutBeforeFacts
        <4> QED BY <2>5, <3>1, <4>1, <4>2 DEF complete
      <3>5. CASE c \notin completed
        <4>1. c = b /\ n = 7
          BY <2>3, <2>11, <3>5
        <4>2. snapshot'[c] = Whole
          BY <2>2, <2>5, <4>1, PutBeforeFacts
        <4>3. "_SUCCESS" \in Whole
          BY DEF Whole, UploadOrder
        <4> QED BY <4>2, <4>3 DEF complete
      <3> QED BY <3>4, <3>5
    <2>12. RecoveryIsPossible'
      BY <2>10, <2>11 DEF RecoveryIsPossible
    <2> QED BY <2>7, <2>9, <2>10, <2>12
  <1>7. ASSUME NEW p \in DrProcesses, Prune(p) PROVE DrInv'
    <2> DEFINE left == expendable(snapshotIDs)
               job == [at |-> "pruning", left |-> left]
    <2>1. left \subseteq Backups
      BY DEF expendable, snapshotIDs
    <2>2. job \in Jobs /\ job.at = "pruning" /\ job.left = left
      BY <2>1 DEF Jobs, PruneJobs
    <2>3. UNCHANGED <<snapshot, completed, target>> /\ acquireLock(p) /\ drGoes(p, job)
      BY <1>7 DEF Prune
    <2>4. ASSUME NEW b \in left PROVE Cardinality(newer(b, completed)) >= MinimumBackups
      <3>1. b \in Backups /\ Cardinality(newer(b, snapshotIDs)) >= MinimumBackups
        BY <2>1 DEF expendable, newer
      <3>2. snapshotIDs \subseteq completed /\ completed \subseteq Backups
        BY DEF snapshotIDs, DrType
      <3> QED BY <3>1, <3>2, NewerGrows, BackupRestoreAssumption
    <2> HIDE DEF job, left
    <2>5. JobKnows(job, snapshot, completed, target')
      BY <2>2, <2>4 DEF JobKnows, RestoreStages
    <2> QED BY <1>2, <2>2, <2>3, <2>5 DEF DrType
  <1>8. ASSUME NEW p \in DrProcesses, removePrefix(p) PROVE DrInv'
    <2>1. drJob[p].at = "pruning" /\ UNCHANGED <<completed, target>>
      BY <1>8 DEF removePrefix
    <2>2. drJob[p].left \subseteq Backups /\ \A b \in drJob[p].left : Cardinality(newer(b, completed)) >= MinimumBackups
      BY <1>b, <2>1, JobKinds DEF JobKnows
    <2>3. PICK b \in drJob[p].left, key \in Whole, left \in SUBSET drJob[p].left :
             /\ firstKey(b, key)
             /\ snapshot' = [snapshot EXCEPT ![b] = snapshot[b] \ {key}]
             /\ drGoes(p, IF left = {} THEN NoJob ELSE [at |-> "pruning", left |-> left])
      <3>1. PICK b \in drJob[p].left, key \in Whole :
               /\ firstKey(b, key)
               /\ snapshot' = [snapshot EXCEPT ![b] = snapshot[b] \ {key}]
               /\ drGoes(p, IF (IF snapshot[b] \ {key} = {} THEN drJob[p].left \ {b} ELSE drJob[p].left) = {} THEN NoJob
                             ELSE [at |-> "pruning", left |-> IF snapshot[b] \ {key} = {} THEN drJob[p].left \ {b} ELSE drJob[p].left])
        BY <1>8 DEF removePrefix
      <3> DEFINE left == IF snapshot[b] \ {key} = {} THEN drJob[p].left \ {b} ELSE drJob[p].left
      <3>2. left \subseteq drJob[p].left /\ drGoes(p, IF left = {} THEN NoJob ELSE [at |-> "pruning", left |-> left])
        BY <3>1
      <3> HIDE DEF left
      <3> QED BY <3>1, <3>2
    <2>4. snapshot' \in [Backups -> SUBSET Whole]
          /\ \A c \in Backups : snapshot'[c] = IF c = b THEN snapshot[b] \ {key} ELSE snapshot[c]
      BY <2>2, <2>3 DEF DrType
    <2>5. "_SUCCESS" \notin snapshot[b] \ {key}
      <3>1. PICK i \in DOMAIN RemovalOrder : key = RemovalOrder[i] /\ \A j \in 1 .. i - 1 : RemovalOrder[j] \notin snapshot[b]
        BY <2>3 DEF firstKey
      <3>2. DOMAIN RemovalOrder = 1 .. 7 /\ RemovalOrder[1] = "_SUCCESS"
        BY DEF RemovalOrder
      <3>3. CASE i = 1
        BY <3>1, <3>2, <3>3
      <3>4. CASE i # 1
        BY <3>1, <3>2, <3>4
      <3> QED BY <3>3, <3>4
    <2> DEFINE job == IF left = {} THEN NoJob ELSE [at |-> "pruning", left |-> left]
    <2>6. job = NoJob \/ (job \in PruneJobs /\ job.at = "pruning" /\ job.left = left)
      BY <2>2, <2>3 DEF PruneJobs
    <2>7. drGoes(p, job)
      BY <2>3
    <2> HIDE DEF job
    <2>8. JobKnows(job, snapshot', completed', target')
      <3>1. CASE job = NoJob
        BY <1>c, <3>1
      <3>2. CASE job \in PruneJobs /\ job.at = "pruning" /\ job.left = left
        BY <2>1, <2>2, <2>3, <3>2 DEF JobKnows, RestoreStages
      <3> QED BY <2>6, <3>1, <3>2
    <2>9. /\ drJob' \in [DrProcesses -> Jobs] /\ OneJob'
          /\ \A q \in DrProcesses : JobKnows(drJob[q], snapshot, completed, target)'
      <3>1. job \in Jobs /\ drJob[p].at # "idle"
        BY <2>1, <2>6 DEF Jobs
      <3> QED BY <1>1, <2>7, <2>8, <3>1
    <2>10. DrType'
      BY <2>1, <2>4, <2>9 DEF DrType
    <2>11. \A c \in Backups : complete(c)' => c # b /\ complete(c) /\ snapshot'[c] = snapshot[c]
      BY <2>4, <2>5 DEF complete
    <2>12. \A c \in Backups : complete(c)' => snapshot'[c] = Whole /\ c \in completed'
      BY <2>1, <2>11 DEF RecoveryIsPossible
    <2>13. ASSUME NEW c \in completed', Cardinality({d \in completed' : d > c}) < MinimumBackups PROVE complete(c)'
      <3>1. c \in Backups /\ c \in completed /\ Cardinality(newer(c, completed)) < MinimumBackups
        BY <2>1, <2>13 DEF newer, DrType
      <3>2. complete(c)
        BY <3>1 DEF RecoveryIsPossible, newer
      <3>3. Cardinality(newer(c, completed)) \in Nat
        BY <3>1, NewerGrows DEF DrType
      <3>4. c # b
        BY <2>2, <2>3, <3>1, <3>3, BackupRestoreAssumption
      <3> QED BY <2>4, <3>1, <3>2, <3>4 DEF complete
    <2>14. RecoveryIsPossible'
      BY <2>12, <2>13 DEF RecoveryIsPossible
    <2> QED BY <2>9, <2>10, <2>12, <2>14
  <1>9. ASSUME NEW p \in DrProcesses, NEW drill \in BOOLEAN, Restore(p, drill) PROVE DrInv'
    <2> DEFINE job == [at |-> "downloading", drill |-> drill, created |-> {}]
    <2>1. job \in Jobs /\ job.at = "downloading" /\ job.created = {}
      BY DEF Jobs, RestoreJobs, RestoreStages
    <2>2. UNCHANGED <<snapshot, completed, target>> /\ acquireLock(p) /\ drGoes(p, job)
      BY <1>9 DEF Restore
    <2> HIDE DEF job
    <2>3. JobKnows(job, snapshot, completed, target')
      BY <2>1 DEF JobKnows, RestoreStages, createdBy
    <2> QED BY <1>2, <2>1, <2>2, <2>3 DEF DrType
  \* A restore goes on to a stage that follows, or fails: in either case it
  \* knows what it created.
  <1>10. ASSUME NEW p \in DrProcesses, drJob[p].at \in RestoreStages, NEW at \in RestoreStages,
                drGoes(p, [drJob[p] EXCEPT !.at = at]),
                at = "cleaning failed" \/ (drJob[p].at # "cleaning failed" /\ createdBy(at) = createdBy(drJob[p].at)),
                UNCHANGED <<snapshot, completed>>, target' \in [Targets -> {"none", "foreign", "partial", "restored"}],
                \A t \in Targets : target[t] = "restored" => target'[t] = "restored"
         PROVE  DrInv'
    <2> DEFINE job == [drJob[p] EXCEPT !.at = at]
    <2>1. drJob[p] \in RestoreJobs /\ drJob[p].created \subseteq Targets
      BY <1>b, <1>10, JobKinds
    <2>2. job \in Jobs /\ job.at = at /\ job.created = drJob[p].created
      BY <2>1 DEF RestoreJobs, Jobs
    <2>3. drGoes(p, job) /\ drJob[p].at # "idle"
      BY <1>10 DEF RestoreStages
    <2> HIDE DEF job
    <2>4. (drJob[p].at # "cleaning failed" => drJob[p].created = createdBy(drJob[p].at))
          /\ \A t \in drJob[p].created : target[t] = "restored"
      BY <1>10 DEF JobKnows
    <2>5. JobKnows(job, snapshot, completed, target')
      BY <1>10, <2>1, <2>2, <2>4 DEF JobKnows, RestoreStages
    <2> QED BY <1>2, <1>10, <2>2, <2>3, <2>5
  <1>11. ASSUME NEW p \in DrProcesses, getFile(p) \/ extractConfiguration(p) \/ verifyEvidence(p) PROVE DrInv'
    <2>1. UNCHANGED <<snapshot, completed, target>>
      BY <1>11 DEF getFile, extractConfiguration, verifyEvidence
    <2>2. PICK at \in {"extracting", "postgres", "cleaning ok", "cleaning failed"} :
             /\ drGoes(p, [drJob[p] EXCEPT !.at = at])
             /\ \/ at = "cleaning failed" /\ drJob[p].at \in {"downloading", "extracting", "verifying"}
                \/ at = "extracting" /\ drJob[p].at = "downloading"
                \/ at = "postgres" /\ drJob[p].at = "extracting"
                \/ at = "cleaning ok" /\ drJob[p].at = "verifying"
      BY <1>11 DEF getFile, extractConfiguration, verifyEvidence, restoreFails
    <2>3. drJob[p].at \in RestoreStages /\ at \in RestoreStages
      BY <2>2 DEF RestoreStages
    <2>4. at = "cleaning failed" \/ (drJob[p].at # "cleaning failed" /\ createdBy(at) = createdBy(drJob[p].at))
      <3>1. \/ at = "cleaning failed"
            \/ at = "extracting" /\ drJob[p].at = "downloading"
            \/ at = "postgres" /\ drJob[p].at = "extracting"
            \/ at = "cleaning ok" /\ drJob[p].at = "verifying"
        BY <2>2
      <3>2. createdBy("extracting") = {} /\ createdBy("downloading") = {} /\ createdBy("postgres") = {}
            /\ createdBy("cleaning ok") = Targets /\ createdBy("verifying") = Targets
        BY DEF createdBy
      <3> QED BY <3>1, <3>2
    <2>5. target' \in [Targets -> {"none", "foreign", "partial", "restored"}]
          /\ \A t \in Targets : target[t] = "restored" => target'[t] = "restored"
      BY <2>1 DEF DrType
    <2> QED BY <1>10, <2>1, <2>2, <2>3, <2>4, <2>5
  <1>12. ASSUME NEW p \in DrProcesses, NEW t \in Targets, restoreTarget(p, t) PROVE DrInv'
    <2>1. drJob[p].at = t /\ UNCHANGED <<snapshot, completed>> /\ t \in {"postgres", "clickhouse", "bucket"}
      BY <1>12 DEF restoreTarget, Targets
    <2>2. drJob[p].at \in RestoreStages /\ drJob[p].at # "idle" /\ "cleaning failed" \in RestoreStages
      BY <2>1 DEF RestoreStages
    <2>3. ASSUME restoreFails(p, drJob[p]), target' \in {target, [target EXCEPT ![t] = "partial"]}, target' # target => target[t] = "none"
          PROVE  DrInv'
      <3>1. target' \in [Targets -> {"none", "foreign", "partial", "restored"}]
            /\ \A u \in Targets : target[u] = "restored" => target'[u] = "restored"
        BY <2>3 DEF DrType
      <3>2. drGoes(p, [drJob[p] EXCEPT !.at = "cleaning failed"])
        BY <2>3 DEF restoreFails
      <3>3. PICK at \in RestoreStages : at = "cleaning failed" /\ drGoes(p, [drJob[p] EXCEPT !.at = at])
        BY <2>2, <3>2
      <3>4. at = "cleaning failed" \/ (drJob[p].at # "cleaning failed" /\ createdBy(at) = createdBy(drJob[p].at))
        BY <3>3
      <3>5. UNCHANGED <<snapshot, completed>> /\ drJob[p].at \in RestoreStages
        BY <2>1, <2>2
      <3> QED BY <1>10, <3>1, <3>3, <3>4, <3>5
    <2> DEFINE job == [at |-> nextStep(t), drill |-> drJob[p].drill, created |-> drJob[p].created \cup {t}]
    <2>4. ASSUME target' = [target EXCEPT ![t] = "restored"], drGoes(p, job) PROVE DrInv'
      <3>1. drJob[p].created \subseteq Targets /\ drJob[p].drill \in BOOLEAN
        BY <1>b, <2>2, JobKinds
      <3>2. nextStep(t) \in RestoreStages \ {"cleaning failed"} /\ createdBy(nextStep(t)) = createdBy(t) \cup {t}
        BY <2>1 DEF nextStep, RestoreStages, createdBy, Targets
      <3>3. job \in Jobs /\ job.at = nextStep(t) /\ job.created = drJob[p].created \cup {t}
        BY <3>1, <3>2 DEF Jobs, RestoreJobs
      <3> HIDE DEF job
      <3>4. drJob[p].created = createdBy(t) /\ \A u \in drJob[p].created : target[u] = "restored"
        BY <2>1, <2>2 DEF JobKnows
      <3>5. target' \in [Targets -> {"none", "foreign", "partial", "restored"}]
            /\ \A u \in Targets : target'[u] = IF u = t THEN "restored" ELSE target[u]
        BY <2>4 DEF DrType
      <3>6. job.created = createdBy(job.at) /\ \A u \in job.created : target'[u] = "restored"
        BY <3>1, <3>2, <3>3, <3>4, <3>5
      <3>7. JobKnows(job, snapshot, completed, target')
        BY <3>2, <3>3, <3>6 DEF JobKnows, RestoreStages
      <3> QED BY <1>2, <2>1, <2>2, <2>4, <3>3, <3>5, <3>7
    <2> HIDE DEF job
    <2>5. \/ restoreFails(p, drJob[p]) /\ target' \in {target, [target EXCEPT ![t] = "partial"]} /\ (target' # target => target[t] = "none")
          \/ target' = [target EXCEPT ![t] = "restored"] /\ drGoes(p, job)
      BY <1>12 DEF restoreTarget, job
    <2> QED BY <2>3, <2>4, <2>5
  <1>13. ASSUME NEW p \in DrProcesses, cleanup(p) PROVE DrInv'
    <2>1. UNCHANGED <<snapshot, completed>> /\ drGoes(p, NoJob) /\ drJob[p].at # "idle"
      BY <1>13 DEF cleanup
    <2>2. target' \in [Targets -> {"none", "foreign", "partial", "restored"}]
      BY <1>13 DEF cleanup, DrType
    <2> QED BY <1>2, <1>a, <1>c, <2>1, <2>2
  <1>14. ASSUME NEW p \in DrProcesses, drEnds(p) PROVE DrInv'
    BY <1>2, <1>a, <1>c, <1>14 DEF drEnds, DrType
  <1>15. ASSUME UNCHANGED drVars PROVE DrInv'
    BY <1>15 DEF drVars, DrType, OneJob, RecoveryIsPossible, complete
  <1>16. Targets = {"postgres", "clickhouse", "bucket"}
    BY DEF Targets
  <1>17. ASSUME NEW p \in DrProcesses,
                \/ backupPostgres(p) \/ backupClickHouse(p) \/ archiveConfiguration(p)
                \/ backupObjects(p) \/ putFile(p) \/ putBytes(p)
         PROVE  DrInv'
    BY <1>5, <1>6, <1>17 DEF backupPostgres, backupClickHouse, archiveConfiguration, backupObjects, putFile, putBytes
  <1>18. ASSUME NEW p \in DrProcesses, restorePostgres(p) \/ restoreClickHouse(p) \/ restoreObjects(p) PROVE DrInv'
    BY <1>12, <1>16, <1>18 DEF restorePostgres, restoreClickHouse, restoreObjects
  <1> QED
    BY <1>3, <1>4, <1>7, <1>8, <1>9, <1>11, <1>13, <1>14, <1>15, <1>17, <1>18 DEF DrNext

\* A snapshot offered for recovery is whole, and pruning leaves the newest of
\* those ever completed, wherever backups and prunes end half way.
THEOREM RecoveryStaysPossible == DrSpec => []RecoveryIsPossible
  <1>1. DrInv => RecoveryIsPossible
    BY DEF DrInv
  <1> QED BY <1>1, DrInvInit, DrInvStep, PTL DEF DrSpec

\* Only the restore that created a target drops it, so what others keep
\* under its name is never touched, and a report of success tells the truth.
THEOREM RestoreStaysContained == DrSpec => RestoreIsContained
  <1>1. DrInv /\ [DrNext]_drVars => [ContainedStep]_drVars
    <2> SUFFICES ASSUME DrInv, DrNext PROVE ContainedStep
      BY DEF drVars
    <2>1. \A p \in DrProcesses : drJob[p] \in Jobs
      BY DEF DrInv, DrType
    <2>2. ASSUME UNCHANGED target, drReport' \in {drReport, ""} PROVE ContainedStep
      BY <2>2 DEF ContainedStep
    <2>3. ASSUME NEW p \in DrProcesses, NEW t \in Targets, restoreTarget(p, t) PROVE ContainedStep
      <3>1. UNCHANGED drReport /\ \A u \in Targets : target[u] # "none" => target'[u] = target[u]
        BY <2>3 DEF restoreTarget, DrInv, DrType
      <3> QED BY <3>1 DEF ContainedStep
    <2>4. ASSUME NEW p \in DrProcesses, cleanup(p) PROVE ContainedStep
      <3> DEFINE undo == IF drJob[p].drill \/ drJob[p].at = "cleaning failed" THEN drJob[p].created ELSE {}
      <3>1. PICK stuck \in SUBSET undo :
               /\ target' = [t \in Targets |-> IF t \in undo \ stuck THEN "none" ELSE target[t]]
               /\ drReport' \in (IF drJob[p].at = "cleaning ok" /\ stuck = {} THEN {"SUCCEEDED", "TARGET_MISSED"} ELSE {"FAILED"})
        BY <2>4 DEF cleanup, dropped
      <3>2. drJob[p].at \in {"cleaning ok", "cleaning failed"} /\ drJob[p].at \in RestoreStages /\ drJob[p].at # "idle"
        BY <2>4 DEF cleanup, RestoreStages
      <3>3. drJob[p].created \subseteq Targets /\ \A t \in drJob[p].created : target[t] = "restored"
        BY <2>1, <3>2, JobKinds DEF DrInv, JobKnows
      <3>4. drJob[p].at = "cleaning ok" => drJob[p].created = Targets
        BY <3>2 DEF DrInv, JobKnows, createdBy
      <3>5. \A t \in Targets :
               /\ target[t] = "foreign" => target'[t] = "foreign"
               /\ target[t] # "none" /\ target'[t] = "none" => drJob[p].at \in {"cleaning ok", "cleaning failed"} /\ t \in drJob[p].created
        BY <3>1, <3>2, <3>3
      <3>6. ASSUME NEW q \in DrProcesses, drReport' \in {"SUCCEEDED", "TARGET_MISSED"}, drJob[q].at = "cleaning ok"
            PROVE  \A t \in Targets : target'[t] = IF drJob[q].drill THEN "none" ELSE "restored"
        <4>1. q = p
          BY <3>2, <3>6 DEF DrInv, OneJob
        <4>2. stuck = {} /\ drJob[p].at = "cleaning ok"
          BY <3>1, <3>6, <4>1
        <4>3. \A t \in Targets : target[t] = "restored"
          BY <3>3, <3>4, <4>2
        <4>4. drJob[p].at # "cleaning failed"
          BY <4>2
        <4> QED BY <3>1, <3>4, <4>1, <4>2, <4>3, <4>4
      <3> QED BY <3>5, <3>6 DEF ContainedStep
    <2>5. Targets = {"postgres", "clickhouse", "bucket"}
      BY DEF Targets
    <2>6. ASSUME NEW p \in DrProcesses, restorePostgres(p) \/ restoreClickHouse(p) \/ restoreObjects(p) PROVE ContainedStep
      BY <2>3, <2>5, <2>6 DEF restorePostgres, restoreClickHouse, restoreObjects
    <2>7. ASSUME NEW p \in DrProcesses,
                 \/ backupPostgres(p) \/ backupClickHouse(p) \/ archiveConfiguration(p)
                 \/ backupObjects(p) \/ putFile(p) \/ putBytes(p) \/ Prune(p) \/ removePrefix(p)
                 \/ getFile(p) \/ extractConfiguration(p) \/ verifyEvidence(p) \/ drEnds(p)
          PROVE  ContainedStep
      BY <2>2, <2>7 DEF backupPostgres, backupClickHouse, archiveConfiguration, dump, backupObjects, putFile, putBytes, put,
                        Prune, removePrefix, getFile, extractConfiguration, verifyEvidence, drEnds
    <2>8. ASSUME NEW p \in DrProcesses, NEW b \in Backups, Backup(p, b) PROVE ContainedStep
      BY <2>2, <2>8 DEF Backup
    <2>9. ASSUME NEW p \in DrProcesses, NEW drill \in BOOLEAN, Restore(p, drill) PROVE ContainedStep
      BY <2>2, <2>9 DEF Restore
    <2>10. ASSUME NEW b \in Backups, Ages(b) PROVE ContainedStep
      BY <2>2, <2>10 DEF Ages
    <2> QED BY <2>4, <2>6, <2>7, <2>8, <2>9, <2>10 DEF DrNext
  <1> QED BY <1>1, DrInvInit, DrInvStep, PTL DEF DrSpec, RestoreIsContained

-----------------------------------------------------------------------------
(* Cases.                                                                  *)

RowFields == {"version", "status", "owner", "closed", "participants", "incidents", "tasks", "comments", "observables", "history"}
TaskStatuses == {"OPEN", "IN_PROGRESS", "DONE", "CANCELLED"}
Notes == {"case.created", "case.assigned", "case.comment_added", "case.task_created", "case.task_updated",
          "case.participant_added", "case.observable_added", "case.incident_linked"}

\* A row agrees with itself.
RowIsSound(r) ==
    /\ DOMAIN r = RowFields
    /\ r.version \in Nat \ {0} /\ r.status \in CaseStatuses
    /\ r.owner \in DOMAIN r.participants
    /\ r.closed <=> r.status = "CLOSED"
    /\ r.tasks \in Seq(TaskStatuses)
    /\ r.history \in Seq(CaseStatuses \cup Notes) /\ endsIn(r.history, r.status)

\* What a row keeps from one version to the next.
RowKeeps(r, s) ==
    /\ s.version = r.version
    /\ r.incidents \subseteq s.incidents /\ r.comments \subseteq s.comments /\ r.observables \subseteq s.observables
    /\ DOMAIN r.participants \subseteq DOMAIN s.participants
    /\ \A t \in DOMAIN r.tasks : t \in DOMAIN s.tasks /\ (r.tasks[t] \in {"DONE", "CANCELLED"} => s.tasks[t] = r.tasks[t])
    /\ r.tasks # <<>> => s.tasks # <<>>
    /\ r.status = "CLOSED" => s.status = "CLOSED"

\* Two rows agree in every field but one.
SameBut(r, s, field) ==
    /\ field # "version" => r.version = s.version
    /\ field # "status" => r.status = s.status
    /\ field # "owner" => r.owner = s.owner
    /\ field # "closed" => r.closed = s.closed
    /\ field # "participants" => r.participants = s.participants
    /\ field # "incidents" => r.incidents = s.incidents
    /\ field # "tasks" => r.tasks = s.tasks
    /\ field # "comments" => r.comments = s.comments
    /\ field # "observables" => r.observables = s.observables
    /\ field # "history" => r.history = s.history

\* A note in the history does not change where the history ends; a change of
\* status does.
LEMMA HistoryEnds ==
  ASSUME NEW history \in Seq(CaseStatuses \cup Notes), NEW status \in CaseStatuses, NEW entry \in CaseStatuses \cup Notes
  PROVE  /\ Append(history, entry) \in Seq(CaseStatuses \cup Notes)
         /\ entry \in Notes /\ endsIn(history, status) => endsIn(Append(history, entry), status)
         /\ entry = status => endsIn(Append(history, entry), status)
  <1> DEFINE longer == Append(history, entry)
             moves == {i \in DOMAIN history : history[i] \in CaseStatuses}
             moves2 == {i \in DOMAIN longer : longer[i] \in CaseStatuses}
             n == Len(history) + 1
  <1>a. Len(history) \in Nat /\ DOMAIN history = 1 .. Len(history)
    OBVIOUS
  <1>b. longer \in Seq(CaseStatuses \cup Notes) /\ Len(longer) = n /\ longer[n] = entry
        /\ \A i \in 1 .. Len(history) : longer[i] = history[i]
    OBVIOUS
  <1>c. DOMAIN longer = 1 .. n
    BY <1>b
  <1>d. n \in Nat \ {0} /\ DOMAIN history = 1 .. n - 1
    BY <1>a
  <1>1. longer \in Seq(CaseStatuses \cup Notes) /\ DOMAIN longer = 1 .. n /\ longer[n] = entry
        /\ DOMAIN history = 1 .. n - 1 /\ n \in Nat \ {0} /\ \A i \in DOMAIN history : longer[i] = history[i]
    <2> HIDE DEF n, longer
    <2> QED BY <1>a, <1>b, <1>c, <1>d
  <1>2. endsIn(history, status) <=>
           IF moves = {} THEN status = "OPEN" ELSE \E i \in moves : history[i] = status /\ \A j \in moves : j <= i
    BY DEF endsIn
  <1>3. endsIn(longer, status) <=>
           IF moves2 = {} THEN status = "OPEN" ELSE \E i \in moves2 : longer[i] = status /\ \A j \in moves2 : j <= i
    BY DEF endsIn
  <1> HIDE DEF longer, n
  <1>4. ASSUME entry \in Notes PROVE moves2 = moves /\ \A i \in moves : longer[i] = history[i]
    <2>1. entry \notin CaseStatuses
      BY <1>4 DEF Notes, CaseStatuses
    <2> QED BY <1>1, <2>1
  <1>5. ASSUME entry = status PROVE n \in moves2 /\ longer[n] = status /\ \A j \in moves2 : j <= n
    BY <1>1, <1>5
  <1> HIDE DEF moves, moves2
  <1>6. entry \in Notes /\ endsIn(history, status) => endsIn(longer, status)
    BY <1>2, <1>3, <1>4
  <1>7. entry = status => endsIn(longer, status)
    BY <1>3, <1>5
  <1> QED BY <1>1, <1>6, <1>7 DEF longer

\* Nothing but the history changes when a note is added.
LEMMA NotedRow ==
  ASSUME NEW row, RowIsSound(row), NEW note \in Notes
  PROVE  /\ RowIsSound(newHistory(row, note)) /\ RowKeeps(row, newHistory(row, note))
         /\ SameBut(newHistory(row, note), row, "history")
  <1> DEFINE noted == newHistory(row, note)
  <1>a. DOMAIN row = RowFields
    BY DEF RowIsSound
  <1>b. noted = [row EXCEPT !.history = Append(row.history, note)] /\ "history" \in RowFields
    BY DEF newHistory, RowFields
  <1>1. DOMAIN noted = RowFields /\ noted.history = Append(row.history, note)
    BY <1>a, <1>b
  <1>4. SameBut(noted, row, "history")
    BY <1>a, <1>b DEF SameBut, RowFields
  <1>2. row.history \in Seq(CaseStatuses \cup Notes) /\ row.status \in CaseStatuses /\ endsIn(row.history, row.status)
    BY DEF RowIsSound
  <1>3. noted.history \in Seq(CaseStatuses \cup Notes) /\ endsIn(noted.history, row.status)
    <2>1. note \in CaseStatuses \cup Notes
      OBVIOUS
    <2>2. /\ Append(row.history, note) \in Seq(CaseStatuses \cup Notes)
          /\ endsIn(Append(row.history, note), row.status)
      BY <1>2, <2>1, HistoryEnds
    <2> QED BY <1>1, <2>2
  <1> HIDE DEF noted
  <1>5. RowIsSound(noted)
    BY <1>1, <1>3, <1>4 DEF RowIsSound, SameBut
  <1>6. RowKeeps(row, noted)
    BY <1>4 DEF RowKeeps, SameBut, RowIsSound
  <1> QED BY <1>4, <1>5, <1>6 DEF noted

\* A change of one of the fields that only grow, and the note about it.
LEMMA GrownRow ==
  ASSUME NEW row, RowIsSound(row), NEW grown, NEW note \in Notes, DOMAIN grown = RowFields,
         \/ SameBut(grown, row, "comments") /\ row.comments \subseteq grown.comments
         \/ SameBut(grown, row, "observables") /\ row.observables \subseteq grown.observables
         \/ SameBut(grown, row, "incidents") /\ row.incidents \subseteq grown.incidents
         \/ SameBut(grown, row, "participants") /\ DOMAIN row.participants \subseteq DOMAIN grown.participants
         \/ /\ SameBut(grown, row, "tasks") /\ grown.tasks \in Seq(TaskStatuses)
            /\ \A t \in DOMAIN row.tasks : t \in DOMAIN grown.tasks /\ (row.tasks[t] \in {"DONE", "CANCELLED"} => grown.tasks[t] = row.tasks[t])
            /\ row.tasks # <<>> => grown.tasks # <<>>
  PROVE  /\ RowIsSound(newHistory(grown, note)) /\ RowKeeps(row, newHistory(grown, note))
         /\ SameBut(newHistory(grown, note), grown, "history")
  <1>1. RowIsSound(grown)
    BY DEF RowIsSound, SameBut
  <1>2. RowKeeps(row, grown)
    BY DEF RowKeeps, SameBut, RowIsSound
  <1>3. RowIsSound(newHistory(grown, note)) /\ SameBut(newHistory(grown, note), grown, "history")
    BY <1>1, NotedRow
  <1> DEFINE noted == newHistory(grown, note)
  <1> HIDE DEF noted
  <1>4. RowKeeps(row, noted)
    BY <1>2, <1>3 DEF RowKeeps, SameBut, noted
  <1> QED BY <1>3, <1>4 DEF noted

\* Whoever takes part keeps taking part when the owner changes.
LEMMA AssignedRow ==
  ASSUME NEW row, RowIsSound(row), NEW owner
  PROVE  RowIsSound(assigned(row, owner)) /\ RowKeeps(row, assigned(row, owner)) /\ assigned(row, owner).status = row.status
  <1>1. CASE owner \in {"", row.owner}
    BY <1>1 DEF assigned, RowKeeps, RowIsSound
  <1>2. CASE owner \notin {"", row.owner}
    <2> DEFINE r1 == [row EXCEPT !.owner = owner]
               people == appendParticipant(row.participants, owner, "OWNER")
               r2 == [r1 EXCEPT !.participants = people]
    <2>1. DOMAIN row = RowFields
      BY DEF RowIsSound
    <2>2. DOMAIN r1 = RowFields /\ SameBut(r1, row, "owner") /\ r1.owner = owner
      BY <2>1 DEF RowFields, SameBut
    <2>3. DOMAIN people = DOMAIN row.participants \cup {owner}
      BY DEF appendParticipant
    <2>4. assigned(row, owner) = newHistory(r2, "case.assigned")
      BY <1>2, <2>2 DEF assigned, SameBut
    <2> HIDE DEF r1, people
    <2>5. DOMAIN r2 = RowFields /\ SameBut(r2, r1, "participants") /\ r2.participants = people
      BY <2>2 DEF RowFields, SameBut
    <2> HIDE DEF r2
    <2>6. RowIsSound(r2)
      BY <2>2, <2>3, <2>5 DEF RowIsSound, SameBut
    <2>7. RowKeeps(row, r2) /\ r2.status = row.status
      BY <2>2, <2>3, <2>5 DEF RowKeeps, SameBut
    <2>8. "case.assigned" \in Notes
      BY DEF Notes
    <2> DEFINE noted == newHistory(r2, "case.assigned")
    <2>9. RowIsSound(noted) /\ SameBut(noted, r2, "history")
      BY <2>6, <2>8, NotedRow
    <2> HIDE DEF noted
    <2>10. RowKeeps(row, noted) /\ noted.status = row.status
      BY <2>7, <2>9 DEF RowKeeps, SameBut
    <2> QED BY <2>4, <2>9, <2>10 DEF noted
  <1> QED BY <1>1, <1>2

\* A patch follows the transitions, and none leads out of a closed case.
LEMMA UpdatedRow ==
  ASSUME NEW row, RowIsSound(row), NEW patch, NEW item \in Update(row, patch)
  PROVE  RowIsSound(item) /\ RowKeeps(row, item) /\ (patch.status = "CLOSED" => item.status = "CLOSED")
  <1> DEFINE base == assigned(row, patch.owner)
             r1 == [base EXCEPT !.status = patch.status]
             moved == [r1 EXCEPT !.closed = @ \/ patch.status = "CLOSED"]
  <1>1. RowIsSound(base) /\ RowKeeps(row, base) /\ base.status = row.status
    BY AssignedRow
  <1> HIDE DEF base
  <1>2. \/ patch.status = "" /\ item = base
        \/ /\ patch.status # "" /\ (patch.status = row.status \/ patch.status \in AllowedTransitions(row.status))
           /\ item = IF patch.status = row.status THEN moved ELSE newHistory(moved, patch.status)
    BY DEF Update, base
  <1>3. CASE patch.status = "" /\ item = base
    BY <1>1, <1>3
  <1>4. CASE /\ patch.status # "" /\ (patch.status = row.status \/ patch.status \in AllowedTransitions(row.status))
             /\ item = IF patch.status = row.status THEN moved ELSE newHistory(moved, patch.status)
    <2>1. row.status \in CaseStatuses /\ patch.status \in CaseStatuses
      BY <1>4 DEF RowIsSound, AllowedTransitions, CaseStatuses
    <2>2. row.status = "CLOSED" => patch.status = "CLOSED"
      BY <1>4 DEF AllowedTransitions
    <2>3. DOMAIN base = RowFields
      BY <1>1 DEF RowIsSound
    <2>4. DOMAIN r1 = RowFields /\ SameBut(r1, base, "status") /\ r1.status = patch.status
      BY <2>3 DEF RowFields, SameBut
    <2> HIDE DEF r1
    <2>5. DOMAIN moved = RowFields /\ SameBut(moved, r1, "closed")
      BY <2>4 DEF RowFields, SameBut
    <2>6. moved.closed <=> r1.closed \/ patch.status = "CLOSED"
      BY <2>4 DEF RowFields
    <2> HIDE DEF moved
    <2>7. moved.closed <=> moved.status = "CLOSED"
      BY <1>1, <2>2, <2>4, <2>5, <2>6 DEF SameBut, RowIsSound
    <2>8. RowKeeps(row, moved) /\ moved.status = patch.status
      BY <1>1, <2>2, <2>4, <2>5 DEF SameBut, RowKeeps
    <2>9. CASE patch.status = row.status
      <3>1. RowIsSound(moved)
        BY <1>1, <2>1, <2>4, <2>5, <2>7, <2>8, <2>9 DEF SameBut, RowIsSound
      <3> QED BY <1>4, <2>8, <2>9, <3>1
    <2>10. CASE patch.status # row.status
      <3>1. item = [moved EXCEPT !.history = Append(moved.history, patch.status)]
        BY <1>4, <2>10 DEF newHistory
      <3>2. DOMAIN item = RowFields /\ SameBut(item, moved, "history") /\ item.history = Append(moved.history, patch.status)
        BY <2>5, <3>1 DEF RowFields, SameBut
      <3>3. moved.history \in Seq(CaseStatuses \cup Notes)
        BY <1>1, <2>4, <2>5 DEF SameBut, RowIsSound
      <3>4. item.history \in Seq(CaseStatuses \cup Notes) /\ endsIn(item.history, patch.status)
        <4>1. patch.status \in CaseStatuses \cup Notes
          BY <2>1
        <4>2. /\ Append(moved.history, patch.status) \in Seq(CaseStatuses \cup Notes)
              /\ endsIn(Append(moved.history, patch.status), patch.status)
          BY <2>1, <3>3, <4>1, HistoryEnds
        <4> QED BY <3>2, <4>2
      <3>5. RowIsSound(item)
        BY <1>1, <2>1, <2>4, <2>5, <2>7, <2>8, <3>2, <3>4 DEF SameBut, RowIsSound
      <3>6. item.status = patch.status /\ RowKeeps(row, item)
        BY <2>8, <3>2 DEF SameBut, RowKeeps
      <3> QED BY <3>5, <3>6
    <2> QED BY <2>9, <2>10
  <1> QED BY <1>2, <1>3, <1>4

\* A change leaves a sound row that keeps what it held and holds the change.
LEMMA MutatedRow ==
  ASSUME NEW row, RowIsSound(row), NEW change \in CaseChanges, NEW id, NEW item \in mutate(row, change, id)
  PROVE  RowIsSound(item) /\ RowKeeps(row, item) /\ holds(item, [id |-> id, change |-> change])
  <1> DEFINE done == [id |-> id, change |-> change]
  <1>a. done.id = id /\ done.change = change
    OBVIOUS
  <1> HIDE DEF done
  <1>b. DOMAIN row = RowFields /\ row.tasks \in Seq(TaskStatuses)
    BY DEF RowIsSound
  <1>c. change.kind \in {"update", "comment", "task", "task_update", "participant", "observable", "link"}
    BY CaseChangesAssumption
  <1>1. CASE change.kind = "update"
    <2>1. item \in Update(row, change)
      BY <1>1 DEF mutate
    <2>2. RowIsSound(item) /\ RowKeeps(row, item) /\ (change.status = "CLOSED" => item.status = "CLOSED")
      BY <2>1, UpdatedRow
    <2>3. holds(item, done)
      BY <1>1, <1>a, <2>2 DEF holds
    <2> QED BY <2>2, <2>3 DEF done
  <1>2. CASE change.kind = "comment"
    <2> DEFINE grown == [row EXCEPT !.comments = row.comments \cup {id}]
    <2>1. item = newHistory(grown, "case.comment_added")
      BY <1>2 DEF mutate, AddComment
    <2>2. DOMAIN grown = RowFields /\ SameBut(grown, row, "comments") /\ grown.comments = row.comments \cup {id}
      BY <1>b DEF RowFields, SameBut
    <2> HIDE DEF grown
    <2>3. "case.comment_added" \in Notes /\ row.comments \subseteq grown.comments
      BY <2>2 DEF Notes
    <2>4. RowIsSound(item) /\ RowKeeps(row, item) /\ SameBut(item, grown, "history")
      BY <2>1, <2>2, <2>3, GrownRow
    <2>5. holds(item, done)
      BY <1>2, <1>a, <2>2, <2>4 DEF holds, SameBut
    <2> QED BY <2>4, <2>5 DEF done
  <1>3. CASE change.kind = "observable"
    <2> DEFINE grown == [row EXCEPT !.observables = row.observables \cup {change.value}]
    <2>1. item = newHistory(grown, "case.observable_added")
      BY <1>3 DEF mutate, AddObservable
    <2>2. DOMAIN grown = RowFields /\ SameBut(grown, row, "observables") /\ grown.observables = row.observables \cup {change.value}
      BY <1>b DEF RowFields, SameBut
    <2> HIDE DEF grown
    <2>3. "case.observable_added" \in Notes /\ row.observables \subseteq grown.observables
      BY <2>2 DEF Notes
    <2>4. RowIsSound(item) /\ RowKeeps(row, item) /\ SameBut(item, grown, "history")
      BY <2>1, <2>2, <2>3, GrownRow
    <2>5. holds(item, done)
      BY <1>3, <1>a, <2>2, <2>4 DEF holds, SameBut
    <2> QED BY <2>4, <2>5 DEF done
  <1>4. CASE change.kind = "link"
    <2> DEFINE grown == [row EXCEPT !.incidents = row.incidents \cup {change.incident}]
    <2>1. item = newHistory(grown, "case.incident_linked")
      BY <1>4 DEF mutate, LinkIncident
    <2>2. DOMAIN grown = RowFields /\ SameBut(grown, row, "incidents") /\ grown.incidents = row.incidents \cup {change.incident}
      BY <1>b DEF RowFields, SameBut
    <2> HIDE DEF grown
    <2>3. "case.incident_linked" \in Notes /\ row.incidents \subseteq grown.incidents
      BY <2>2 DEF Notes
    <2>4. RowIsSound(item) /\ RowKeeps(row, item) /\ SameBut(item, grown, "history")
      BY <2>1, <2>2, <2>3, GrownRow
    <2>5. holds(item, done)
      BY <1>4, <1>a, <2>2, <2>4 DEF holds, SameBut
    <2> QED BY <2>4, <2>5 DEF done
  <1>5. CASE change.kind = "participant"
    <2> DEFINE people == appendParticipant(row.participants, change.user, change.role)
               grown == [row EXCEPT !.participants = people]
    <2>1. item = newHistory(grown, "case.participant_added")
      BY <1>5 DEF mutate, AddParticipant
    <2>2. DOMAIN people = DOMAIN row.participants \cup {change.user}
      BY DEF appendParticipant
    <2> HIDE DEF people
    <2>3. DOMAIN grown = RowFields /\ SameBut(grown, row, "participants") /\ grown.participants = people
      BY <1>b DEF RowFields, SameBut
    <2> HIDE DEF grown
    <2>4. "case.participant_added" \in Notes /\ DOMAIN row.participants \subseteq DOMAIN grown.participants
      BY <2>2, <2>3 DEF Notes
    <2>5. RowIsSound(item) /\ RowKeeps(row, item) /\ SameBut(item, grown, "history")
      BY <2>1, <2>3, <2>4, GrownRow
    <2>6. holds(item, done)
      BY <1>5, <1>a, <2>2, <2>3, <2>5 DEF holds, SameBut
    <2> QED BY <2>5, <2>6 DEF done
  <1>6. CASE change.kind = "task"
    <2> DEFINE tasks == Append(row.tasks, "OPEN")
               grown == [row EXCEPT !.tasks = tasks]
    <2>1. item = newHistory(grown, "case.task_created")
      BY <1>6 DEF mutate, AddTask
    <2>2. "OPEN" \in TaskStatuses
      BY DEF TaskStatuses
    <2>3. tasks \in Seq(TaskStatuses) /\ Len(tasks) = Len(row.tasks) + 1 /\ \A t \in 1 .. Len(row.tasks) : tasks[t] = row.tasks[t]
      BY <1>b, <2>2
    <2>4. DOMAIN row.tasks = 1 .. Len(row.tasks) /\ Len(row.tasks) \in Nat
      BY <1>b
    <2> HIDE DEF tasks
    <2>5. \A t \in DOMAIN row.tasks : t \in DOMAIN tasks /\ tasks[t] = row.tasks[t]
      BY <2>3, <2>4
    <2>6. tasks # <<>>
      BY <2>3, <2>4
    <2>7. DOMAIN grown = RowFields /\ SameBut(grown, row, "tasks") /\ grown.tasks = tasks
      BY <1>b DEF RowFields, SameBut
    <2> HIDE DEF grown
    <2>8. "case.task_created" \in Notes
      BY DEF Notes
    <2>9. RowIsSound(item) /\ RowKeeps(row, item) /\ SameBut(item, grown, "history")
      BY <2>1, <2>3, <2>5, <2>6, <2>7, <2>8, GrownRow
    <2>10. holds(item, done)
      BY <1>6, <1>a, <2>6, <2>7, <2>9 DEF holds, SameBut
    <2> QED BY <2>9, <2>10 DEF done
  <1>7. CASE change.kind = "task_update"
    <2> DEFINE task == change.task
               next == change.status
               tasks == [row.tasks EXCEPT ![task] = next]
               grown == [row EXCEPT !.tasks = tasks]
    <2>1. /\ task \in DOMAIN row.tasks /\ (next = row.tasks[task] \/ validTaskTransition(row.tasks[task], next))
          /\ item = newHistory(grown, "case.task_updated")
      BY <1>7 DEF mutate, UpdateTask
    <2> HIDE DEF task, next
    <2>2. next \in TaskStatuses /\ (row.tasks[task] \in {"DONE", "CANCELLED"} => next = row.tasks[task])
      BY <1>b, <2>1 DEF validTaskTransition, TaskStatuses
    <2>3. tasks \in Seq(TaskStatuses) /\ DOMAIN tasks = DOMAIN row.tasks /\ tasks[task] = next
          /\ \A t \in DOMAIN row.tasks : t # task => tasks[t] = row.tasks[t]
      BY <1>b, <2>1, <2>2
    <2> HIDE DEF tasks
    <2>4. \A t \in DOMAIN row.tasks : t \in DOMAIN tasks /\ (row.tasks[t] \in {"DONE", "CANCELLED"} => tasks[t] = row.tasks[t])
      BY <2>2, <2>3
    <2>5. tasks # <<>>
      BY <2>1, <2>3
    <2>6. DOMAIN grown = RowFields /\ SameBut(grown, row, "tasks") /\ grown.tasks = tasks
      BY <1>b DEF RowFields, SameBut
    <2> HIDE DEF grown
    <2>7. "case.task_updated" \in Notes
      BY DEF Notes
    <2>8. RowIsSound(item) /\ RowKeeps(row, item) /\ SameBut(item, grown, "history")
      BY <2>1, <2>3, <2>4, <2>5, <2>6, <2>7, GrownRow
    <2>9. holds(item, done)
      BY <1>7, <1>a, <2>1, <2>3, <2>6, <2>8 DEF holds, SameBut, task, next
    <2> QED BY <2>8, <2>9 DEF done
  <1> QED BY <1>c, <1>1, <1>2, <1>3, <1>4, <1>5, <1>6, <1>7

\* A request whose change is in the row and not yet answered.
pending(a) == caseCall[a].at \in {"committed", "audited"}

\* A row that a transaction has read is locked until it ends, and a change
\* that is committed stays in the row whatever is committed after it.
CallsKnow ==
    \A a \in Analysts :
        /\ caseCall[a].at \in {"idle", "locked", "committed", "audited"}
        /\ caseCall[a].at = "locked" => caseRow # NoCase /\ caseCall[a].row = caseRow /\ caseCall[a].change \in CaseChanges
        /\ pending(a) => /\ caseRow # NoCase
                         /\ holds(caseRow, [id |-> caseCall[a].id, change |-> caseCall[a].change])
                         /\ caseCall[a].id[2] \in 1 .. caseRow.version
        /\ caseCall[a].at = "audited" => caseCall[a].id \in caseAudit

OneLock == \A a, b \in Analysts : caseCall[a].at = "locked" /\ caseCall[b].at = "locked" => a = b

\* No two changes, answered or not, were made from the same version.
VersionsApart ==
    /\ \A a, b \in Analysts : pending(a) /\ pending(b) /\ caseCall[a].id[2] = caseCall[b].id[2] => a = b
    /\ \A a \in Analysts, d \in caseDone : pending(a) => caseCall[a].id[2] # d.id[2]
    /\ \A d, e \in caseDone : d.id[2] = e.id[2] => d = e

DoneIsKept ==
    \A d \in caseDone : caseRow # NoCase /\ holds(caseRow, d) /\ d.id \in caseAudit /\ d.id[2] \in 1 .. caseRow.version

CaseInv ==
    /\ caseRow # NoCase => RowIsSound(caseRow) /\ caseLinks = caseRow.incidents
    /\ DOMAIN caseCall = Analysts /\ CallsKnow /\ OneLock /\ VersionsApart /\ DoneIsKept

\* There is no case at the start.
LEMMA CaseInvInit == CaseInit => CaseInv
  <1>1. NoCaseCall.at = "idle"
    BY DEF NoCaseCall
  <1> QED BY <1>1 DEF CaseInit, CaseInv, CallsKnow, OneLock, VersionsApart, DoneIsKept, pending

\* What a row keeps, a change that it holds stays held.
LEMMA KeptIsHeld ==
  ASSUME NEW row, NEW item, NEW done, RowKeeps(row, item), holds(row, done)
  PROVE  holds(item, done)
  BY DEF RowKeeps, holds

\* Every statement of every request keeps the invariant.
LEMMA CaseInvStep == CaseInv /\ [CaseNext]_caseVars => CaseInv'
  <1> SUFFICES ASSUME CaseInv, [CaseNext]_caseVars PROVE CaseInv'
    OBVIOUS
  <1> USE DEF CaseInv
  <1>a. NoCaseCall.at = "idle"
    BY DEF NoCaseCall
  <1>b. ASSUME NEW a \in Analysts, NEW call, caseGoes(a, call)
        PROVE  DOMAIN caseCall' = Analysts /\ \A b \in Analysts : caseCall'[b] = IF b = a THEN call ELSE caseCall[b]
    BY <1>b DEF caseGoes
  \* The request ends, or fails; the row is as it was.
  <1>1. ASSUME NEW a \in Analysts, caseGoes(a, NoCaseCall), UNCHANGED <<caseRow, caseLinks, caseAudit, caseDone>>
        PROVE  CaseInv'
    <2>1. DOMAIN caseCall' = Analysts /\ \A b \in Analysts : caseCall'[b] = IF b = a THEN NoCaseCall ELSE caseCall[b]
      BY <1>b, <1>1
    <2>2. CallsKnow'
      BY <1>1, <1>a, <2>1 DEF CallsKnow, pending
    <2>3. OneLock'
      BY <1>a, <2>1 DEF OneLock
    <2>4. VersionsApart'
      BY <1>1, <1>a, <2>1 DEF VersionsApart, pending
    <2>5. DoneIsKept'
      BY <1>1 DEF DoneIsKept
    <2> QED BY <1>1, <2>1, <2>2, <2>3, <2>4, <2>5
  \* A transaction commits the next version of the row.
  <1>2. ASSUME NEW a \in Analysts, NEW id, NEW change, caseGoes(a, [at |-> "committed", id |-> id, change |-> change]),
               UNCHANGED <<caseAudit, caseDone>>, RowIsSound(caseRow'), caseLinks' = caseRow'.incidents, caseRow' # NoCase,
               \A b \in Analysts \ {a} : caseCall[b].at # "locked", ~pending(a),
               caseRow # NoCase => caseRow.version \in Nat,
               id[2] = caseRow'.version, caseRow # NoCase => id[2] = caseRow.version + 1,
               holds(caseRow', [id |-> id, change |-> change]),
               \A done : caseRow # NoCase /\ holds(caseRow, done) => holds(caseRow', done)
        PROVE  CaseInv'
    <2> DEFINE call == [at |-> "committed", id |-> id, change |-> change]
    <2>1. call.at = "committed" /\ call.id = id /\ call.change = change
      OBVIOUS
    <2>2. DOMAIN caseCall' = Analysts /\ \A b \in Analysts : caseCall'[b] = IF b = a THEN call ELSE caseCall[b]
      BY <1>b, <1>2
    <2> HIDE DEF call
    <2>3. caseRow'.version \in Nat \ {0}
      BY <1>2 DEF RowIsSound
    <2>4. CallsKnow'
      <3>1. ASSUME NEW b \in Analysts, b # a
            PROVE  /\ caseCall'[b].at \in {"idle", "committed", "audited"}
                   /\ pending(b)' => /\ holds(caseRow', [id |-> caseCall'[b].id, change |-> caseCall'[b].change])
                                     /\ caseCall'[b].id[2] \in 1 .. caseRow'.version
                   /\ caseCall'[b].at = "audited" => caseCall'[b].id \in caseAudit'
        <4>1. caseCall'[b] = caseCall[b]
          BY <2>2, <3>1
        <4>2. pending(b) => /\ caseRow # NoCase
                            /\ holds(caseRow, [id |-> caseCall[b].id, change |-> caseCall[b].change])
                            /\ caseCall[b].id[2] \in 1 .. caseRow.version
          BY DEF CallsKnow
        <4>3. caseCall[b].at \in {"idle", "committed", "audited"} /\ (caseCall[b].at = "audited" => caseCall[b].id \in caseAudit)
          BY <1>2, <3>1 DEF CallsKnow
        <4>4. pending(b) => holds(caseRow', [id |-> caseCall[b].id, change |-> caseCall[b].change])
          BY <1>2, <4>2
        <4>5. pending(b) => caseCall[b].id[2] \in 1 .. caseRow'.version
          BY <1>2, <4>2
        <4> QED BY <1>2, <4>1, <4>3, <4>4, <4>5 DEF pending
      <3>2. id[2] \in 1 .. caseRow'.version
        BY <1>2, <2>3
      <3> QED BY <1>2, <2>1, <2>2, <3>1, <3>2 DEF CallsKnow, pending
    <2>5. OneLock'
      BY <1>2, <2>1, <2>2 DEF OneLock
    <2>6. \A b \in Analysts : pending(b) => caseCall[b].id[2] # id[2]
      <3>1. ASSUME NEW b \in Analysts, pending(b) PROVE caseRow # NoCase /\ caseCall[b].id[2] \in 1 .. caseRow.version
        BY <3>1 DEF CallsKnow
      <3> QED BY <1>2, <3>1
    <2>7. \A d \in caseDone : d.id[2] # id[2]
      BY <1>2 DEF DoneIsKept
    <2>8. \A b \in Analysts : b # a => caseCall'[b] = caseCall[b] /\ (pending(b)' <=> pending(b))
      BY <2>2 DEF pending
    <2>9. caseCall'[a].id = id
      BY <2>1, <2>2
    <2>10. VersionsApart'
      <3>1. ASSUME NEW b \in Analysts, NEW c \in Analysts, pending(b)', pending(c)', caseCall'[b].id[2] = caseCall'[c].id[2] PROVE b = c
        BY <2>6, <2>8, <2>9, <3>1 DEF VersionsApart
      <3>2. ASSUME NEW b \in Analysts, NEW d \in caseDone, pending(b)' PROVE caseCall'[b].id[2] # d.id[2]
        BY <2>7, <2>8, <2>9, <3>2 DEF VersionsApart
      <3> QED BY <1>2, <3>1, <3>2 DEF VersionsApart
    <2>11. DoneIsKept'
      BY <1>2 DEF DoneIsKept
    <2> QED BY <1>2, <2>2, <2>4, <2>5, <2>10, <2>11
  <1>3. ASSUME NEW a \in Analysts, NEW incidents \in SUBSET CaseIncidents, CreateCase(a, incidents) PROVE CaseInv'
    <2> DEFINE row == newCase(a, incidents)
               change == [kind |-> "create", incidents |-> incidents]
               id == <<a, 1>>
    <2>1. caseRow = NoCase /\ caseRow' = row /\ caseLinks' = incidents /\ caseCall[a].at = "idle"
          /\ caseGoes(a, [at |-> "committed", id |-> id, change |-> change]) /\ UNCHANGED <<caseAudit, caseDone>>
      BY <1>3 DEF CreateCase, caseIdle
    <2>2. DOMAIN row = RowFields /\ row.version = 1 /\ row.status = "OPEN" /\ row.owner = a /\ ~row.closed
          /\ row.incidents = incidents /\ row.history = <<"case.created">>
      BY DEF newCase, RowFields
    <2>3. row.tasks = <<>> /\ a \in DOMAIN row.participants
      BY DEF newCase
    <2>4. id[2] = 1 /\ change.kind = "create" /\ change.incidents = incidents
      OBVIOUS
    <2> DEFINE done == [id |-> id, change |-> change]
    <2>5. done.change = change
      OBVIOUS
    <2> HIDE DEF row, change, id, done
    <2>6. row.tasks \in Seq(TaskStatuses)
      BY <2>3
    <2>7. row.history \in Seq(CaseStatuses \cup Notes) /\ endsIn(row.history, "OPEN")
      <3>1. "case.created" \in Notes /\ "case.created" \notin CaseStatuses
        BY DEF Notes, CaseStatuses
      <3>2. row.history \in Seq(CaseStatuses \cup Notes)
        BY <2>2, <3>1
      <3>3. {i \in DOMAIN row.history : row.history[i] \in CaseStatuses} = {}
        BY <2>2, <3>1
      <3> QED BY <3>2, <3>3 DEF endsIn
    <2>8. RowIsSound(row)
      <3>1. "OPEN" \in CaseStatuses
        BY DEF CaseStatuses
      <3> QED BY <2>2, <2>3, <2>6, <2>7, <3>1 DEF RowIsSound
    <2>9. row # NoCase
      BY <2>2 DEF NoCase
    <2>10. \A b \in Analysts : caseCall[b].at = "idle"
      BY <2>1 DEF CallsKnow, pending
    <2>11. holds(row, done)
      BY <2>2, <2>4, <2>5 DEF holds
    <2>12. /\ RowIsSound(caseRow') /\ caseLinks' = caseRow'.incidents /\ caseRow' # NoCase
           /\ \A b \in Analysts \ {a} : caseCall[b].at # "locked"
           /\ ~pending(a)
           /\ id[2] = caseRow'.version /\ holds(caseRow', [id |-> id, change |-> change])
      BY <2>1, <2>2, <2>4, <2>8, <2>9, <2>10, <2>11 DEF pending, done
    <2> QED BY <1>2, <2>1, <2>12
  <1>4. ASSUME NEW a \in Analysts, MutateCase(a) PROVE CaseInv'
    <2> DEFINE change == caseCall[a].change
               id == <<a, caseRow.version + 1>>
    <2>1. caseCall[a].at = "locked" /\ UNCHANGED <<caseAudit, caseDone>>
      BY <1>4 DEF MutateCase
    <2>2. caseRow # NoCase /\ caseCall[a].row = caseRow /\ change \in CaseChanges
      BY <2>1 DEF CallsKnow
    <2>3. caseGoes(a, [at |-> "committed", id |-> id, change |-> change])
      BY <1>4, <2>2 DEF MutateCase
    <2>4. PICK item \in mutate(caseRow, change, id) :
             caseRow' = [item EXCEPT !.version = caseRow.version + 1] /\ caseLinks' = item.incidents
      BY <1>4, <2>2 DEF MutateCase
    <2>5. id[2] = caseRow.version + 1
      OBVIOUS
    <2> HIDE DEF id, change
    <2>6. RowIsSound(item) /\ RowKeeps(caseRow, item) /\ holds(item, [id |-> id, change |-> change])
      BY <2>2, <2>4, MutatedRow
    <2>7. caseRow.version \in Nat \ {0}
      BY <2>2 DEF RowIsSound
    <2>8. DOMAIN caseRow' = RowFields /\ SameBut(caseRow', item, "version") /\ caseRow'.version = caseRow.version + 1
      <3>1. DOMAIN item = RowFields
        BY <2>6 DEF RowIsSound
      <3> QED BY <2>4, <3>1 DEF SameBut, RowFields
    <2>9. RowIsSound(caseRow') /\ caseLinks' = caseRow'.incidents
      BY <2>4, <2>6, <2>7, <2>8 DEF RowIsSound, SameBut
    <2>10. caseRow' # NoCase
      BY <2>7, <2>8 DEF NoCase
    <2>11. ASSUME NEW done, holds(item, done) PROVE holds(caseRow', done)
      BY <2>8, <2>11 DEF holds, SameBut
    <2>12. ASSUME NEW done, holds(caseRow, done) PROVE holds(caseRow', done)
      BY <2>6, <2>11, <2>12, KeptIsHeld
    <2>13. (\A b \in Analysts \ {a} : caseCall[b].at # "locked") /\ ~pending(a)
      BY <2>1 DEF OneLock, pending
    <2>14. holds(caseRow', [id |-> id, change |-> change])
      BY <2>6, <2>11
    <2> QED BY <1>2, <2>1, <2>3, <2>5, <2>7, <2>8, <2>9, <2>10, <2>12, <2>13, <2>14
  <1>5. ASSUME NEW a \in Analysts, GetCase(a) PROVE CaseInv'
    BY <1>5 DEF GetCase, CallsKnow, OneLock, VersionsApart, DoneIsKept, pending
  <1>6. ASSUME NEW a \in Analysts, NEW change \in CaseChanges, NEW version, selectCase(a, change, version) PROVE CaseInv'
    <2> DEFINE call == [at |-> "locked", row |-> caseRow, change |-> change]
    <2>1. caseCall[a].at = "idle" /\ caseRow # NoCase /\ (\A b \in Analysts \ {a} : caseCall[b].at # "locked")
          /\ caseGoes(a, call) /\ UNCHANGED <<caseRow, caseLinks, caseAudit, caseDone>>
      BY <1>6 DEF selectCase, caseIdle, caseLocked
    <2>2. call.at = "locked" /\ call.row = caseRow /\ call.change = change
      OBVIOUS
    <2>3. DOMAIN caseCall' = Analysts /\ \A b \in Analysts : caseCall'[b] = IF b = a THEN call ELSE caseCall[b]
      BY <1>b, <2>1
    <2> HIDE DEF call
    <2>4. CallsKnow'
      BY <2>1, <2>2, <2>3 DEF CallsKnow, pending
    <2>5. OneLock'
      BY <2>1, <2>2, <2>3 DEF OneLock
    <2>6. VersionsApart'
      BY <2>1, <2>2, <2>3 DEF VersionsApart, pending
    <2>7. DoneIsKept'
      BY <2>1 DEF DoneIsKept
    <2> QED BY <2>1, <2>3, <2>4, <2>5, <2>6, <2>7
  <1>7. ASSUME NEW a \in Analysts, caseRollsBack(a) \/ caseFails(a) PROVE CaseInv'
    BY <1>1, <1>7 DEF caseRollsBack, caseFails
  <1>8. ASSUME NEW a \in Analysts, audit(a) PROVE CaseInv'
    <2> DEFINE call == [at |-> "audited", id |-> caseCall[a].id, change |-> caseCall[a].change]
    <2>1. caseCall[a].at = "committed" /\ caseAudit' = caseAudit \cup {caseCall[a].id}
          /\ caseGoes(a, call) /\ UNCHANGED <<caseRow, caseLinks, caseDone>>
      BY <1>8 DEF audit
    <2>2. call.at = "audited" /\ call.id = caseCall[a].id /\ call.change = caseCall[a].change
      OBVIOUS
    <2>3. DOMAIN caseCall' = Analysts /\ \A b \in Analysts : caseCall'[b] = IF b = a THEN call ELSE caseCall[b]
      BY <1>b, <2>1
    <2> HIDE DEF call
    <2>4. CallsKnow'
      BY <2>1, <2>2, <2>3 DEF CallsKnow, pending
    <2>5. OneLock'
      BY <2>1, <2>2, <2>3 DEF OneLock
    <2>6. \A b \in Analysts : (pending(b)' <=> pending(b)) /\ caseCall'[b].id = caseCall[b].id
      BY <2>1, <2>2, <2>3 DEF pending
    <2>7. VersionsApart'
      BY <2>1, <2>6 DEF VersionsApart
    <2>8. DoneIsKept'
      BY <2>1 DEF DoneIsKept
    <2> QED BY <2>1, <2>3, <2>4, <2>5, <2>7, <2>8
  <1>9. ASSUME NEW a \in Analysts, answer(a) PROVE CaseInv'
    <2> DEFINE done == [id |-> caseCall[a].id, change |-> caseCall[a].change]
    <2>1. caseCall[a].at = "audited" /\ caseDone' = caseDone \cup {done} /\ caseGoes(a, NoCaseCall)
          /\ UNCHANGED <<caseRow, caseLinks, caseAudit>>
      BY <1>9 DEF answer
    <2>2. done.id = caseCall[a].id
      OBVIOUS
    <2>3. pending(a) /\ caseRow # NoCase /\ holds(caseRow, done) /\ done.id[2] \in 1 .. caseRow.version /\ done.id \in caseAudit
      BY <2>1 DEF CallsKnow, pending
    <2> HIDE DEF done
    <2>4. DOMAIN caseCall' = Analysts /\ \A b \in Analysts : caseCall'[b] = IF b = a THEN NoCaseCall ELSE caseCall[b]
      BY <1>b, <2>1
    <2>5. CallsKnow'
      BY <1>a, <2>1, <2>4 DEF CallsKnow, pending
    <2>6. OneLock'
      BY <1>a, <2>4 DEF OneLock
    <2>7. \A b \in Analysts : pending(b)' => b # a /\ pending(b) /\ caseCall'[b].id = caseCall[b].id
      BY <1>a, <2>4 DEF pending
    <2>8. \A d \in caseDone : d.id[2] # done.id[2]
      BY <2>2, <2>3 DEF VersionsApart
    <2>9. VersionsApart'
      <3>1. ASSUME NEW b \in Analysts, NEW c \in Analysts, pending(b)', pending(c)', caseCall'[b].id[2] = caseCall'[c].id[2] PROVE b = c
        BY <2>7, <3>1 DEF VersionsApart
      <3>2. ASSUME NEW b \in Analysts, NEW d \in caseDone', pending(b)' PROVE caseCall'[b].id[2] # d.id[2]
        BY <2>1, <2>2, <2>3, <2>7, <3>2 DEF VersionsApart
      <3>3. ASSUME NEW d \in caseDone', NEW e \in caseDone', d.id[2] = e.id[2] PROVE d = e
        BY <2>1, <2>8, <3>3 DEF VersionsApart
      <3> QED BY <3>1, <3>2, <3>3 DEF VersionsApart
    <2>10. DoneIsKept'
      BY <2>1, <2>3 DEF DoneIsKept
    <2> QED BY <2>1, <2>4, <2>5, <2>6, <2>9, <2>10
  <1>10. ASSUME UNCHANGED caseVars PROVE CaseInv'
    BY <1>10 DEF caseVars, CallsKnow, OneLock, VersionsApart, DoneIsKept, pending
  <1> QED BY <1>3, <1>4, <1>5, <1>6, <1>7, <1>8, <1>9, <1>10 DEF CaseNext

\* However requests overlap and fail, the case holds every change that was
\* answered with success, with its audit entry, and agrees with itself.
THEOREM CaseRecordIsKept == CaseSpec => []CaseKeepsItsRecord
  <1>1. CaseInv => CaseKeepsItsRecord
    BY DEF CaseInv, CaseKeepsItsRecord, DoneIsKept, VersionsApart, RowIsSound
  <1> QED BY <1>1, CaseInvInit, CaseInvStep, PTL DEF CaseSpec

-----------------------------------------------------------------------------
(* The desk.  The chain rests on the head's lock (HeadIsLocked): the hash a   *)
(* transaction read stays the head until it appends.  What an incident says  *)
(* of its alerts rests on what its request has read and linked so far        *)
(* (Knows), while detection and other analysts change the same rows; those   *)
(* only ever grow (AlertsGrow), and a new row never takes the place of       *)
(* another because rows are numbered without gaps (RowsInOrder).             *)

AlertRow == [status : AlertStatuses \union {"NONE"}, version : Nat, events : SUBSET Events,
             lastSeen : Nat, disposition : Texts, acked : BOOLEAN]
IncidentRow == [status : IncidentStatuses \union {"NONE"}, version : Nat, links : SUBSET Alerts,
                events : SUBSET Events, disposition : Texts, reason : Texts, acked : BOOLEAN,
                timeline : Seq(IncidentStatuses \union {"note"})]
Session == [at : {"away", "alert", "incident", "gather", "link", "audit", "append"}, id : Nat,
            view : AlertRow \union IncidentRow, links : SUBSET Alerts, todo : SUBSET Alerts,
            events : SUBSET Events, what : {"updated", "created"}, prev : Nat]
Entry == [prev : Nat, hash : Nat, what : {"updated", "created"}, id : Nat]

DeskType ==
    /\ alert \in [Alerts -> AlertRow] /\ incident \in [Incidents -> IncidentRow]
    /\ auditEntries \in Seq(Entry) /\ head \in Nat
    /\ session \in [Clients -> Session]
    /\ changes \in Nat /\ unaudited \in Nat

RowsInOrder ==
    /\ \E n \in Nat : Rows(alert) = 1..n
    /\ \E n \in Nat : Rows(incident) = 1..n

\* Whoever appends holds the head's lock and has read the head.
HeadIsLocked ==
    \A c \in Clients : session[c].at = "append" => lockedBy = {c} /\ session[c].prev = head

\* Out of the queue of new alerts, and never back in it.
Handled(a) == alert[a].status \in {"IN_PROGRESS", "CLOSED"}

\* The events of an incident are those of its alerts.
BackedBy(events, links) == \A e \in events : \E a \in links : e \in alert[a].events

\* What a request has on its screen, has gathered, linked or is to record.
Knows(c) ==
    /\ session[c].at = "alert" =>
          /\ session[c].id \in Rows(alert)
          /\ session[c].view.version <= alert[session[c].id].version
          /\ session[c].view.version = alert[session[c].id].version =>
                alert[session[c].id] = session[c].view
    /\ session[c].at = "incident" =>
          /\ session[c].id \in Rows(incident)
          /\ session[c].view.version <= incident[session[c].id].version
          /\ session[c].view.version = incident[session[c].id].version =>
                incident[session[c].id] = session[c].view
    /\ session[c].at \in {"gather", "link"} => session[c].todo \subseteq session[c].links
    /\ session[c].at = "gather" =>
          session[c].links \subseteq Rows(alert) /\ BackedBy(session[c].events, session[c].links)
    /\ session[c].at = "link" =>
          /\ session[c].id \in Rows(incident)
          /\ session[c].links = incident[session[c].id].links
          /\ \A a \in session[c].links \ session[c].todo : Handled(a)
    /\ session[c].at \in {"audit", "append"} /\ session[c].what = "created" =>
          /\ session[c].id \in Rows(incident)
          /\ \A a \in incident[session[c].id].links : Handled(a)

RequestsKnow == \A c \in Clients : Knows(c)

IncidentsBacked ==
    /\ \A i \in Rows(incident) :
          /\ incident[i].links \subseteq Rows(alert)
          /\ BackedBy(incident[i].events, incident[i].links)
    /\ \A k \in 1..Len(auditEntries) : auditEntries[k].what = "created" =>
          /\ auditEntries[k].id \in Rows(incident)
          /\ \A a \in incident[auditEntries[k].id].links : Handled(a)

\* The inductive invariant of the desk.
DeskInv ==
    /\ DeskType /\ RowsInOrder
    /\ HeadIsLocked /\ ChainIntact /\ AuditAccounts
    /\ RequestsKnow /\ IncidentsBacked /\ IncidentStory

\* What a step may do to a row: it stays, an alert's events only grow, a handled
\* alert stays handled, and the version grows with every change.
AlertsGrow ==
    \A a \in Rows(alert) :
       /\ a \in Rows(alert') /\ alert[a].events \subseteq alert'[a].events
       /\ alert[a].status \in {"IN_PROGRESS", "CLOSED"} => alert'[a].status \in {"IN_PROGRESS", "CLOSED"}
       /\ alert[a].version <= alert'[a].version
       /\ alert'[a].version = alert[a].version => alert'[a] = alert[a]
IncidentsGrow ==
    \A i \in Rows(incident) :
       /\ i \in Rows(incident') /\ incident'[i].links = incident[i].links
       /\ incident'[i].events = incident[i].events
       /\ incident[i].version <= incident'[i].version
       /\ incident'[i].version = incident[i].version => incident'[i] = incident[i]

\* The rows that are not there and a request that is over are of their types.
LEMMA DeskResting ==
  /\ NoAlert \in AlertRow /\ NoIncident \in IncidentRow
  /\ Away \in Session
<1>1. NoAlert \in AlertRow
  BY DEF NoAlert, AlertRow, Texts
<1>2. NoIncident \in IncidentRow
  BY DEF NoIncident, IncidentRow, Texts
<1>3. Away \in Session
  BY <1>1 DEF Away, Session
<1> QED
  BY <1>1, <1>2, <1>3

\* Rows are the ids whose row has a status.
LEMMA RowFacts ==
  ASSUME DeskType
  PROVE  /\ \A a : a \in Rows(alert) <=> a \in Alerts /\ alert[a].status # "NONE"
         /\ \A i : i \in Rows(incident) <=> i \in Incidents /\ incident[i].status # "NONE"
BY DEF DeskType, Rows

\* The same after the step.
LEMMA RowFactsAfter ==
  ASSUME DeskType'
  PROVE  /\ \A a : a \in Rows(alert') <=> a \in Alerts /\ alert'[a].status # "NONE"
         /\ \A i : i \in Rows(incident') <=> i \in Incidents /\ incident'[i].status # "NONE"
BY DEF DeskType, Rows

\* Ids are numbered without gaps, so the next one is free.
LEMMA NextId ==
  ASSUME NEW n \in Nat
  PROVE  Cardinality(1..n) + 1 = n + 1
<1>1. Cardinality(1..n) = IF 1 > n THEN 0 ELSE n - 1 + 1
  BY FS_Interval
<1> QED
  BY <1>1

\* An empty desk.
LEMMA DeskStarts == DeskInit => DeskInv
<1> SUFFICES ASSUME DeskInit PROVE DeskInv
  OBVIOUS
<1>1. DeskType
  BY DeskResting DEF DeskInit, DeskType
<1>2. Rows(alert) = {} /\ Rows(incident) = {}
  BY DEF DeskInit, Rows, NoAlert, NoIncident
<1>3. RowsInOrder
  <2>1. 1..0 = {} /\ 0 \in Nat
    OBVIOUS
  <2> QED
    BY <1>2, <2>1 DEF RowsInOrder
<1>4. \A c \in Clients : session[c].at = "away"
  BY DEF DeskInit, Away
<1>5. HeadIsLocked /\ RequestsKnow
  BY <1>4 DEF HeadIsLocked, RequestsKnow, Knows
<1>6. auditEntries = <<>> /\ Len(auditEntries) = 0 /\ head = 0 /\ changes = 0 /\ unaudited = 0
  BY DEF DeskInit
<1>7. ChainIntact
  BY <1>6 DEF ChainIntact
<1>8. AuditAccounts
  <2>1. Owing = {}
    BY <1>4 DEF Owing
  <2> QED
    BY <2>1, <1>6, FS_EmptySet DEF AuditAccounts
<1>9. IncidentsBacked /\ IncidentStory
  BY <1>2, <1>6 DEF IncidentsBacked, IncidentStory
<1> QED
  BY <1>1, <1>3, <1>5, <1>7, <1>8, <1>9 DEF DeskInv

\* A request that does not move knows what it knew: the rows only grew.
LEMMA OthersKnow ==
  ASSUME DeskType, DeskType', AlertsGrow, IncidentsGrow, IncidentsBacked,
         NEW c \in Clients, Knows(c), session'[c] = session[c]
  PROVE  Knows(c)'
<1> DEFINE s == session[c]
<1>s. session'[c] = s /\ s.links \subseteq Alerts
  BY DEF DeskType, Session
<1>h. \A a \in Alerts : Handled(a) => Handled(a)'
  BY RowFacts DEF AlertsGrow, Handled
<1>i. \A i \in Rows(incident) : /\ i \in Rows(incident') /\ incident'[i].links = incident[i].links
                                /\ incident[i].links \subseteq Alerts
  BY RowFacts DEF IncidentsGrow, IncidentsBacked, DeskType, Rows
<1>a. \A a \in Rows(alert) : a \in Rows(alert')
  BY DEF AlertsGrow
<1>1. CASE s.at = "alert"
  <2>1. s.view.version \in Nat /\ s.id \in Rows(alert)
    BY <1>1 DEF DeskType, Session, AlertRow, IncidentRow, Knows
  <2>2. alert[s.id].version \in Nat /\ alert'[s.id].version \in Nat
    BY <2>1, RowFacts DEF DeskType, AlertRow
  <2> QED
    BY <1>1, <2>1, <2>2 DEF Knows, AlertsGrow
<1>2. CASE s.at = "incident"
  <2>1. s.view.version \in Nat /\ s.id \in Rows(incident)
    BY <1>2 DEF DeskType, Session, AlertRow, IncidentRow, Knows
  <2>2. incident[s.id].version \in Nat /\ incident'[s.id].version \in Nat
    BY <2>1, RowFacts DEF DeskType, IncidentRow
  <2> QED
    BY <1>2, <2>1, <2>2 DEF Knows, IncidentsGrow
<1>3. CASE s.at = "gather"
  <2>1. s.todo \subseteq s.links /\ s.links \subseteq Rows(alert) /\ BackedBy(s.events, s.links)
    BY <1>3 DEF Knows
  <2>2. \A e \in s.events : \E a \in s.links : e \in alert'[a].events
    BY <2>1 DEF BackedBy, AlertsGrow
  <2> QED
    BY <1>3, <1>a, <2>1, <2>2 DEF Knows, BackedBy
<1>4. CASE s.at = "link"
  <2>1. /\ s.todo \subseteq s.links /\ s.id \in Rows(incident) /\ s.links = incident[s.id].links
        /\ \A a \in s.links \ s.todo : Handled(a)
    BY <1>4 DEF Knows
  <2> QED
    BY <1>4, <1>s, <1>h, <1>i, <2>1 DEF Knows
<1>5. CASE s.at \in {"audit", "append"}
  <2>1. s.what = "created" => /\ s.id \in Rows(incident)
                              /\ \A a \in incident[s.id].links : Handled(a)
    BY <1>5 DEF Knows
  <2> QED
    BY <1>5, <1>s, <1>h, <1>i, <2>1 DEF Knows
<1>6. CASE s.at = "away"
  BY <1>6 DEF Knows
<1>7. s.at \in {"away", "alert", "incident", "gather", "link", "audit", "append"}
  BY DEF DeskType, Session
<1> QED
  BY <1>1, <1>2, <1>3, <1>4, <1>5, <1>6, <1>7

\* Incidents stay backed while rows grow and no entry is added.
LEMMA BackedStays ==
  ASSUME DeskType, DeskType', AlertsGrow, IncidentsGrow, IncidentsBacked,
         UNCHANGED auditEntries,
         \A i \in Rows(incident') : i \notin Rows(incident) =>
            /\ incident'[i].links \subseteq Rows(alert')
            /\ \A e \in incident'[i].events : \E a \in incident'[i].links : e \in alert'[a].events
  PROVE  IncidentsBacked'
<1>1. \A i \in Rows(incident) :
        /\ incident'[i].links = incident[i].links /\ incident'[i].events = incident[i].events
        /\ incident[i].links \subseteq Rows(alert) /\ i \in Rows(incident')
        /\ \A e \in incident[i].events : \E a \in incident[i].links : e \in alert[a].events
  BY DEF IncidentsGrow, IncidentsBacked, BackedBy
<1>2. \A a \in Rows(alert) : a \in Rows(alert') /\ alert[a].events \subseteq alert'[a].events
  BY DEF AlertsGrow
<1>3. \A a \in Alerts : Handled(a) => Handled(a)'
  BY RowFacts DEF AlertsGrow, Handled
<1>4. Rows(alert) \subseteq Alerts
  BY RowFacts
<1>5. ASSUME NEW i \in Rows(incident')
      PROVE  /\ incident'[i].links \subseteq Rows(alert')
             /\ \A e \in incident'[i].events : \E a \in incident'[i].links : e \in alert'[a].events
  BY <1>1, <1>2
<1>6. ASSUME NEW k \in 1..Len(auditEntries), auditEntries[k].what = "created"
      PROVE  /\ auditEntries[k].id \in Rows(incident')
             /\ \A a \in incident'[auditEntries[k].id].links : Handled(a)'
  <2>1. /\ auditEntries[k].id \in Rows(incident)
        /\ \A a \in incident[auditEntries[k].id].links : Handled(a)
    BY <1>6 DEF IncidentsBacked
  <2> QED
    BY <1>1, <1>3, <1>4, <2>1
<1> QED
  BY <1>5, <1>6 DEF IncidentsBacked, BackedBy

\* One request moves: the number of those that owe an entry follows it.
LEMMA OwingMoves ==
  ASSUME NEW c \in Clients, \A d \in Clients : d # c => session'[d] = session[d]
  PROVE  /\ Cardinality(Owing) \in Nat
         /\ c \notin Owing /\ c \in Owing' => Cardinality(Owing') = Cardinality(Owing) + 1
         /\ c \in Owing /\ c \notin Owing' => Cardinality(Owing') = Cardinality(Owing) - 1
         /\ (c \in Owing <=> c \in Owing') => Cardinality(Owing') = Cardinality(Owing)
<1>1. IsFiniteSet(Owing)
  BY FS_Subset, DeskAssumption DEF Owing
<1>2. Cardinality(Owing) \in Nat
  BY <1>1, FS_CardinalityType
<1>3. ASSUME c \notin Owing, c \in Owing' PROVE Cardinality(Owing') = Cardinality(Owing) + 1
  <2>1. Owing' = Owing \union {c}
    BY <1>3 DEF Owing
  <2> QED
    BY <1>1, <1>3, <2>1, FS_AddElement
<1>4. ASSUME c \in Owing, c \notin Owing' PROVE Cardinality(Owing') = Cardinality(Owing) - 1
  <2>1. Owing' = Owing \ {c}
    BY <1>4 DEF Owing
  <2> QED
    BY <1>1, <1>4, <2>1, FS_RemoveElement
<1>5. ASSUME c \in Owing <=> c \in Owing' PROVE Cardinality(Owing') = Cardinality(Owing)
  <2>1. Owing' = Owing
    BY <1>5 DEF Owing
  <2> QED
    BY <2>1
<1> QED
  BY <1>2, <1>3, <1>4, <1>5

\* A transaction that rewrites an alert's row.
LEMMA AlertRewritten ==
  ASSUME DeskType, NEW a \in Rows(alert), NEW row \in AlertRow,
         alert' = [alert EXCEPT ![a] = row],
         row.status # "NONE", alert[a].events \subseteq row.events,
         Handled(a) => row.status \in {"IN_PROGRESS", "CLOSED"},
         row.version = alert[a].version + 1
  PROVE  /\ alert' \in [Alerts -> AlertRow] /\ AlertsGrow
         /\ Rows(alert') = Rows(alert)
<1>1. a \in Alerts /\ alert \in [Alerts -> AlertRow]
  BY RowFacts DEF DeskType
<1>2. alert' \in [Alerts -> AlertRow]
  BY <1>1
<1>3. alert'[a] = row /\ \A b \in Alerts : b # a => alert'[b] = alert[b]
  BY <1>1
<1>4. Rows(alert') = Rows(alert)
  BY <1>1, <1>2, <1>3, RowFacts DEF Rows
<1>5. \A b \in Alerts : alert[b].version \in Nat
  BY <1>1 DEF AlertRow
<1>6. AlertsGrow
  BY <1>1, <1>3, <1>4, <1>5, RowFacts DEF AlertsGrow, Handled
<1> QED
  BY <1>2, <1>4, <1>6

\* Detection opens or extends an alert.
LEMMA UpsertGrows ==
  ASSUME DeskType, RowsInOrder, NEW e \in Events, UpsertAlert(e)
  PROVE  /\ alert' \in [Alerts -> AlertRow] /\ AlertsGrow
         /\ \E n \in Nat : Rows(alert') = 1..n
<1>t. alert \in [Alerts -> AlertRow] /\ SeenAt[e] \in Nat
  BY DeskAssumption DEF DeskType
<1>1. ASSUME NEW a \in Alerts, Aggregates(a, e),
             alert' = [alert EXCEPT ![a].events = @ \union {e}, ![a].lastSeen = SeenAt[e],
                                    ![a].version = @ + 1]
      PROVE  /\ alert' \in [Alerts -> AlertRow] /\ AlertsGrow
             /\ \E n \in Nat : Rows(alert') = 1..n
  <2>1. alert[a] \in AlertRow /\ a \in Rows(alert)
    BY <1>1, <1>t, RowFacts DEF Aggregates, OpenAlerts
  <2>2. PICK row : row = alert'[a]
    OBVIOUS
  <2>3. alert' = [alert EXCEPT ![a] = row]
    BY <1>1, <1>t, <2>2
  <2>4. /\ row \in AlertRow /\ row.status = alert[a].status /\ alert[a].events \subseteq row.events
        /\ row.version = alert[a].version + 1
    BY <1>1, <1>t, <2>1, <2>2 DEF AlertRow
  <2>5. row.status # "NONE" /\ (Handled(a) => row.status \in {"IN_PROGRESS", "CLOSED"})
    BY <2>1, <2>4, RowFacts DEF Handled
  <2>6. /\ alert' \in [Alerts -> AlertRow] /\ AlertsGrow
        /\ Rows(alert') = Rows(alert)
    BY <2>1, <2>3, <2>4, <2>5, AlertRewritten
  <2> QED
    BY <2>6 DEF RowsInOrder
<1>2. ASSUME NEW a \in Alerts, a = Cardinality(Rows(alert)) + 1,
             alert' = [alert EXCEPT ![a] = [NoAlert EXCEPT !.status = "NEW", !.version = 1,
                                              !.events = {e}, !.lastSeen = SeenAt[e]]]
      PROVE  /\ alert' \in [Alerts -> AlertRow] /\ AlertsGrow
             /\ \E n \in Nat : Rows(alert') = 1..n
  <2>1. PICK n \in Nat : Rows(alert) = 1..n
    BY DEF RowsInOrder
  <2>2. a = n + 1
    BY <1>2, <2>1, NextId
  <2>3. PICK row : row = [NoAlert EXCEPT !.status = "NEW", !.version = 1,
                            !.events = {e}, !.lastSeen = SeenAt[e]]
    OBVIOUS
  <2>4. row \in AlertRow /\ row.status = "NEW"
    BY <2>3, <1>t DEF NoAlert, AlertRow, AlertStatuses, Texts
  <2>5. alert' = [alert EXCEPT ![a] = row]
    BY <1>2, <2>3
  <2>6. /\ alert' \in [Alerts -> AlertRow] /\ alert'[a] = row
        /\ \A b \in Alerts : b # a => alert'[b] = alert[b]
    BY <2>4, <2>5, <1>t
  <2>7. Rows(alert') = Rows(alert) \union {a}
    BY <2>4, <2>6, <1>t DEF Rows
  <2>8. Rows(alert') = 1..(n + 1) /\ n + 1 \in Nat /\ a \notin Rows(alert)
    BY <2>1, <2>2, <2>7
  <2>9. \A b \in Rows(alert) : alert'[b] = alert[b] /\ alert[b].version \in Nat
    BY <2>6, <2>8, <1>t, RowFacts DEF AlertRow
  <2>10. AlertsGrow
    BY <2>7, <2>9 DEF AlertsGrow
  <2> QED
    BY <2>6, <2>8, <2>10
<1> QED
  BY <1>1, <1>2 DEF UpsertAlert

\* A patch of an alert moves it only forward.
LEMMA UpdateAlertGrows ==
  ASSUME DeskType, RowsInOrder, NEW c \in Clients, Knows(c), UpdateAlert(c)
  PROVE  /\ alert' \in [Alerts -> AlertRow] /\ AlertsGrow
         /\ \E n \in Nat : Rows(alert') = 1..n
<1>1. PICK a : a = session[c].id
  OBVIOUS
<1>2. a \in Rows(alert) /\ a \in Alerts /\ alert[a] \in AlertRow
  BY <1>1, RowFacts DEF Knows, UpdateAlert, DeskType
<1>3. PICK next \in AlertStatuses \union {"none"}, text \in PatchTexts :
        /\ next # "none" => validAlertTransition(alert[session[c].id].status, next)
        /\ alert' = [alert EXCEPT
              ![session[c].id].status = IF next = "none" THEN @ ELSE next,
              ![session[c].id].acked = @ \/ next \in AlertStatuses \ {"NEW"},
              ![session[c].id].disposition = IF text = "none" THEN @ ELSE text,
              ![session[c].id].version = @ + 1]
  BY Zenon DEF UpdateAlert
<1>4. PICK row : row = alert'[a]
  OBVIOUS
<1>5. alert' = [alert EXCEPT ![a] = row]
  BY <1>1, <1>2, <1>3, <1>4 DEF DeskType
<1>6. /\ alert[a].status \in AlertStatuses /\ PatchTexts \subseteq Texts
      /\ alert[a].version \in Nat /\ alert[a].disposition \in Texts
  BY <1>2, RowFacts, DeskAssumption DEF AlertRow, Texts
<1>7. row.acked \in BOOLEAN
  BY <1>1, <1>2, <1>3, <1>4 DEF DeskType, AlertRow
<1>8. /\ row.status = IF next = "none" THEN alert[a].status ELSE next
      /\ row.disposition = IF text = "none" THEN alert[a].disposition ELSE text
      /\ row.version = alert[a].version + 1 /\ row.events = alert[a].events
      /\ row.lastSeen = alert[a].lastSeen
  BY <1>1, <1>2, <1>3, <1>4 DEF DeskType, AlertRow
<1>9. row.status \in AlertStatuses /\ (Handled(a) => row.status \in {"IN_PROGRESS", "CLOSED"})
  BY <1>1, <1>3, <1>6, <1>8 DEF AlertStatuses, Handled, validAlertTransition
<1>10. row \in AlertRow
  <2>1. row = [status |-> row.status, version |-> row.version, events |-> row.events,
               lastSeen |-> row.lastSeen, disposition |-> row.disposition, acked |-> row.acked]
    BY <1>1, <1>2, <1>3, <1>4 DEF DeskType, AlertRow
  <2>2. /\ row.version \in Nat /\ row.disposition \in Texts
        /\ row.events \subseteq Events /\ row.lastSeen \in Nat
    BY <1>2, <1>6, <1>8 DEF AlertRow
  <2> QED
    BY <2>1, <2>2, <1>7, <1>9 DEF AlertRow
<1>11. row.status # "NONE"
  BY <1>9 DEF AlertStatuses
<1>12. /\ alert' \in [Alerts -> AlertRow] /\ AlertsGrow /\ Rows(alert') = Rows(alert)
  BY <1>2, <1>5, <1>8, <1>9, <1>10, <1>11, AlertRewritten
<1> QED
  BY <1>12 DEF RowsInOrder

\* A link moves an alert out of the queue and leaves it handled.
LEMMA LinkAlertGrows ==
  ASSUME DeskType, RowsInOrder, NEW c \in Clients, NEW a \in Rows(alert),
         alert' = [alert EXCEPT
            ![a].status = IF @ \in {"NEW", "ACKNOWLEDGED"} THEN "IN_PROGRESS" ELSE @,
            ![a].version = @ + 1]
  PROVE  /\ alert' \in [Alerts -> AlertRow] /\ AlertsGrow
         /\ \E n \in Nat : Rows(alert') = 1..n
         /\ alert'[a].status \in {"IN_PROGRESS", "CLOSED"}
<1>1. a \in Alerts /\ alert \in [Alerts -> AlertRow] /\ alert[a] \in AlertRow
  BY RowFacts DEF DeskType
<1>2. PICK row : row = alert'[a]
  OBVIOUS
<1>3. alert[a].status \in AlertStatuses
  BY <1>1, RowFacts DEF AlertRow
<1>4. /\ row \in AlertRow /\ row.events = alert[a].events
      /\ row.status = IF alert[a].status \in {"NEW", "ACKNOWLEDGED"} THEN "IN_PROGRESS"
                                                                     ELSE alert[a].status
      /\ row.version = alert[a].version + 1
  BY <1>1, <1>2 DEF AlertRow, AlertStatuses
<1>5. alert' = [alert EXCEPT ![a] = row]
  BY <1>1, <1>2
<1>6. row.status \in {"IN_PROGRESS", "CLOSED"}
  BY <1>3, <1>4 DEF AlertStatuses
<1>7. /\ alert' \in [Alerts -> AlertRow] /\ AlertsGrow /\ Rows(alert') = Rows(alert)
  BY <1>4, <1>5, <1>6, AlertRewritten
<1> QED
  BY <1>2, <1>6, <1>7 DEF RowsInOrder

\* Transitions lead to other statuses than NEW.
LEMMA TransitionFacts ==
  ASSUME NEW status \in IncidentStatuses
  PROVE  IncidentTransitions(status) \subseteq IncidentStatuses \ {"NEW"}
BY DEF IncidentStatuses, IncidentTransitions

\* A note leaves the story as it is, a move along IncidentTransitions continues it.
LEMMA TellsMore ==
  ASSUME NEW told \in Seq(IncidentStatuses \union {"note"}), NEW status, Tells(told, status),
         NEW entry
  PROVE  /\ entry = "note" => Tells(Append(told, entry), status)
         /\ entry \in IncidentTransitions(status) /\ entry # "note" => Tells(Append(told, entry), entry)
<1> DEFINE n == Len(told)
           more == Append(told, entry)
<1>1. n \in Nat /\ n > 0 /\ told[1] = "NEW"
  BY DEF Tells
<1>2. Len(more) = n + 1 /\ more[n + 1] = entry /\ \A k \in 1..n : more[k] = told[k]
  OBVIOUS
<1>3. more # <<>> /\ more[1] = "NEW"
  BY <1>1, <1>2
<1>4. \A m \in 1..n : \A k \in 1..m : SaysStatus(told, m, k) => SaysStatus(more, m, k)
  BY <1>1, <1>2 DEF SaysStatus
<1>5. PICK last \in 1..n : SaysStatus(told, n, last) /\ told[last] = status
  BY DEF Tells
<1> HIDE DEF n, more
<1>6. \A m \in 2..n : more[m] # "note" =>
        \E k \in 1..(m - 1) : SaysStatus(more, m - 1, k) /\ more[m] \in IncidentTransitions(more[k])
  <2> SUFFICES ASSUME NEW m \in 2..n, more[m] # "note"
               PROVE  \E k \in 1..(m - 1) : /\ SaysStatus(more, m - 1, k)
                                            /\ more[m] \in IncidentTransitions(more[k])
    OBVIOUS
  <2>1. m \in 1..n /\ m - 1 \in 1..n /\ more[m] = told[m]
    BY <1>1, <1>2
  <2>2. PICK k \in 1..(m - 1) : SaysStatus(told, m - 1, k) /\ told[m] \in IncidentTransitions(told[k])
    BY <2>1 DEF Tells, n
  <2>3. more[k] = told[k] /\ SaysStatus(more, m - 1, k)
    BY <1>1, <1>2, <1>4, <2>1, <2>2
  <2> QED
    BY <2>1, <2>2, <2>3
<1>7. SaysStatus(more, n, last) /\ more[last] = status
  BY <1>1, <1>2, <1>4, <1>5
<1>8. ASSUME entry = "note" PROVE Tells(more, status)
  <2>1. SaysStatus(more, n + 1, last)
    BY <1>1, <1>2, <1>5, <1>7, <1>8 DEF SaysStatus
  <2>2. \A m \in 2..(n + 1) : more[m] # "note" => m \in 2..n
    BY <1>1, <1>2, <1>8
  <2>3. last \in 1..(n + 1)
    BY <1>1
  <2> QED
    BY <1>2, <1>3, <1>6, <1>7, <2>1, <2>2, <2>3 DEF Tells
<1>9. ASSUME entry \in IncidentTransitions(status), entry # "note" PROVE Tells(more, entry)
  <2>1. SaysStatus(more, n + 1, n + 1)
    BY <1>1, <1>2, <1>9 DEF SaysStatus
  <2>2. ASSUME NEW m \in 2..(n + 1), more[m] # "note"
        PROVE  \E k \in 1..(m - 1) : SaysStatus(more, m - 1, k) /\ more[m] \in IncidentTransitions(more[k])
    <3>1. CASE m = n + 1
      BY <1>1, <1>2, <1>5, <1>7, <1>9, <3>1
    <3>2. CASE m # n + 1
      BY <1>1, <1>6, <2>2, <3>2
    <3> QED
      BY <3>1, <3>2
  <2>3. n + 1 \in 1..(n + 1)
    BY <1>1
  <2> QED
    BY <1>2, <1>3, <2>1, <2>2, <2>3 DEF Tells
<1> QED
  BY <1>8, <1>9 DEF more

\* A patched incident: its row is in order, keeps its alerts and continues its story.
LEMMA PatchedFacts ==
  ASSUME NEW row \in IncidentRow, row.status # "NONE", Tells(row.timeline, row.status),
         row.acked <=> row.status # "NEW",
         NEW next \in IncidentStatuses \union {"none"}, NEW disposition \in PatchTexts,
         NEW reason \in PatchTexts, NEW note \in BOOLEAN,
         next \in IncidentTransitions(row.status) \union {"none", row.status}
  PROVE  LET new == Patched(row, next, disposition, reason, note) IN
         /\ new \in IncidentRow /\ new.status # "NONE"
         /\ new.links = row.links /\ new.events = row.events /\ new.version = row.version + 1
         /\ Tells(new.timeline, new.status)
         /\ new.acked <=> new.status # "NEW"
<1> DEFINE new == Patched(row, next, disposition, reason, note)
           T == IncidentStatuses \union {"note"}
           moved == IF next \in {"none", row.status} THEN <<>> ELSE <<next>>
           noted == IF note THEN <<"note">> ELSE <<>>
           status == IF next = "none" THEN row.status ELSE next
<1>1. /\ row.status \in IncidentStatuses /\ row.version \in Nat /\ row.timeline \in Seq(T)
      /\ row.links \subseteq Alerts /\ row.events \subseteq Events
      /\ row.disposition \in Texts /\ row.reason \in Texts
  BY DEF IncidentRow
<1>2. /\ status \in IncidentStatuses
      /\ status = row.status \/ (status \in IncidentTransitions(row.status) /\ status # "note")
  BY <1>1, TransitionFacts DEF IncidentStatuses
<1>3. /\ new.status = status /\ new.version = row.version + 1 /\ new.links = row.links
      /\ new.events = row.events /\ new.timeline = row.timeline \o moved \o noted
  BY DEF Patched
<1>4. /\ row.timeline \o moved \in Seq(T) /\ Tells(row.timeline \o moved, status)
  <2>1. CASE next \in {"none", row.status}
    <3>1. row.timeline \o moved = row.timeline
      BY <1>1, <2>1, ConcatEmptySeq
    <3>2. status = row.status
      BY <2>1
    <3> QED
      BY <1>1, <3>1, <3>2
  <2>2. CASE next \notin {"none", row.status}
    <3>1. moved = <<next>> /\ status = next /\ next \in IncidentStatuses
      BY <2>2
    <3>t. next \in T
      BY <3>1
    <3>2. row.timeline \o moved = Append(row.timeline, next)
      <4> HIDE DEF T
      <4>1. Append(row.timeline, next) = row.timeline \o <<next>>
        BY <1>1, <3>t, AppendIsConcat
      <4> QED
        BY <4>1, <3>1
    <3>3. next \in IncidentTransitions(row.status) /\ next # "note"
      BY <1>2, <2>2, <3>1
    <3> HIDE DEF moved, status
    <3>4. Append(row.timeline, next) \in Seq(T)
      BY <1>1, <3>1
    <3> QED
      BY <1>1, <3>1, <3>2, <3>3, <3>4, TellsMore
  <2> QED
    BY <2>1, <2>2
<1> DEFINE half == row.timeline \o moved
<1>5. half \o noted \in Seq(T) /\ Tells(half \o noted, status)
  <2>0. half \in Seq(T) /\ Tells(half, status)
    BY <1>4
  <2> HIDE DEF half, status
  <2>1. CASE note
    <3>1. half \o noted = Append(half, "note")
      BY <2>0, <2>1, AppendIsConcat
    <3>2. Append(half, "note") \in Seq(T)
      BY <2>0
    <3> QED
      BY <2>0, <3>1, <3>2, TellsMore
  <2>2. CASE ~note
    <3>1. half \o noted = half
      BY <2>0, <2>2, ConcatEmptySeq
    <3> QED
      BY <2>0, <3>1
  <2> QED
    BY <2>1, <2>2
<1>6. new.timeline \in Seq(T) /\ Tells(new.timeline, new.status)
  BY <1>3, <1>5
<1>7. /\ new.disposition \in Texts /\ new.reason \in Texts
  BY <1>1, DeskAssumption DEF Patched, Texts
<1>8. /\ new.acked \in BOOLEAN /\ (new.acked <=> new.status # "NEW")
  <2>1. new.acked = (row.acked \/ next \notin {"none", "NEW"})
    BY DEF Patched
  <2>2. status # "NEW" <=> row.status # "NEW" \/ next \notin {"none", "NEW"}
    BY <1>1, TransitionFacts
  <2>3. new.status = status
    BY <1>3
  <2> HIDE DEF new, status
  <2> QED
    BY <2>1, <2>2, <2>3, Zenon
<1>9. new = [status |-> new.status, version |-> new.version, links |-> new.links,
             events |-> new.events, disposition |-> new.disposition, reason |-> new.reason,
             acked |-> new.acked, timeline |-> new.timeline]
  BY DEF Patched
<1>10. new.status # "NONE" /\ new.status \in IncidentStatuses /\ new.version \in Nat
  BY <1>1, <1>2, <1>3 DEF IncidentStatuses
<1> HIDE DEF new, status, moved, noted, half
<1>11. new \in IncidentRow
  BY <1>1, <1>3, <1>6, <1>7, <1>8, <1>9, <1>10 DEF IncidentRow
<1> QED
  BY <1>3, <1>6, <1>8, <1>10, <1>11 DEF new


\* The next row continues the numbering.
LEMMA OneMoreRow ==
  ASSUME NEW n \in Nat
  PROVE  (1..n) \union {n + 1} = 1..(n + 1) /\ n + 1 \in Nat /\ n + 1 \notin 1..n
OBVIOUS

\* A transaction that rewrites an incident's row, or inserts the next one.
LEMMA IncidentWritten ==
  ASSUME DeskType, RowsInOrder, IncidentStory, NEW i \in Incidents, NEW row \in IncidentRow,
         incident' = [incident EXCEPT ![i] = row],
         row.status # "NONE", Tells(row.timeline, row.status), row.acked <=> row.status # "NEW",
         \/ i \in Rows(incident) /\ row.links = incident[i].links /\ row.events = incident[i].events
               /\ row.version = incident[i].version + 1
         \/ i = Cardinality(Rows(incident)) + 1
  PROVE  /\ incident' \in [Incidents -> IncidentRow] /\ IncidentsGrow /\ IncidentStory'
         /\ Rows(incident') = Rows(incident) \union {i}
         /\ \E n \in Nat : Rows(incident') = 1..n
<1>1. incident \in [Incidents -> IncidentRow]
  BY DEF DeskType
<1>2. incident' \in [Incidents -> IncidentRow]
  BY <1>1
<1>3. incident'[i] = row /\ \A j \in Incidents : j # i => incident'[j] = incident[j]
  BY <1>1
<1>4. Rows(incident') = Rows(incident) \union {i}
  BY <1>1, <1>2, <1>3 DEF Rows
<1>5. \A j \in Incidents : incident[j].version \in Nat
  BY <1>1 DEF IncidentRow
<1>6. Rows(incident) \subseteq Incidents
  BY RowFacts
<1>7. IncidentStory'
  BY <1>3, <1>4, <1>6 DEF IncidentStory
<1>8. PICK n \in Nat : Rows(incident) = 1..n
  BY DEF RowsInOrder
<1>9. ASSUME NEW j \in Rows(incident),
             i \in Rows(incident) => /\ row.links = incident[i].links
                                     /\ row.events = incident[i].events
                                     /\ row.version = incident[i].version + 1
       PROVE  /\ j \in Rows(incident') /\ incident'[j].links = incident[j].links
              /\ incident'[j].events = incident[j].events
              /\ incident[j].version <= incident'[j].version
              /\ incident'[j].version = incident[j].version => incident'[j] = incident[j]
  <2>0. j \in Incidents /\ j \in Rows(incident') /\ incident[j].version \in Nat
    BY <1>4, <1>5, <1>6
  <2>1. CASE j = i
    <3>1. /\ incident'[j].links = incident[j].links /\ incident'[j].events = incident[j].events
          /\ incident'[j].version = incident[j].version + 1
      BY <1>3, <1>9, <2>1
    <3> QED
      BY <2>0, <3>1
  <2>2. CASE j # i
    <3>1. incident'[j] = incident[j]
      BY <1>3, <2>0, <2>2
    <3> QED
      BY <2>0, <3>1
  <2> QED
    BY <2>1, <2>2
<1>10. CASE i \in Rows(incident) /\ row.links = incident[i].links /\ row.events = incident[i].events
               /\ row.version = incident[i].version + 1
  <2>1. Rows(incident') = 1..n
    BY <1>4, <1>8, <1>10
  <2>2. IncidentsGrow
    BY <1>10, <1>9 DEF IncidentsGrow
  <2> QED
    BY <1>2, <1>4, <1>7, <2>1, <2>2
<1>11. CASE i = Cardinality(Rows(incident)) + 1
  <2>1. i = n + 1
    BY <1>8, <1>11, NextId
  <2>2. Rows(incident') = 1..(n + 1) /\ n + 1 \in Nat /\ i \notin Rows(incident)
    BY <1>4, <1>8, <2>1, OneMoreRow
  <2>3. IncidentsGrow
    BY <1>9, <2>2 DEF IncidentsGrow
  <2> QED
    BY <1>2, <1>4, <1>7, <2>2, <2>3
<1> QED
  BY <1>10, <1>11

\* A patch of an incident continues its story.
LEMMA UpdateIncidentGrows ==
  ASSUME DeskType, RowsInOrder, IncidentStory, NEW c \in Clients, Knows(c), UpdateIncident(c)
  PROVE  /\ incident' \in [Incidents -> IncidentRow] /\ IncidentsGrow /\ IncidentStory'
         /\ Rows(incident') = Rows(incident)
         /\ \E n \in Nat : Rows(incident') = 1..n
<1>1. PICK i : i = session[c].id
  OBVIOUS
<1>2. i \in Rows(incident) /\ i \in Incidents /\ incident[i] \in IncidentRow
  BY <1>1, RowFacts DEF Knows, UpdateIncident, DeskType
<1>3. PICK version \in {0, session[c].view.version}, next \in IncidentStatuses \union {"none"},
      disposition, reason \in PatchTexts, note \in BOOLEAN :
      /\ Expected(version, incident[session[c].id])
      /\ next \in IncidentTransitions(incident[session[c].id].status)
                     \union {"none", incident[session[c].id].status}
      /\ next = "CLOSED" => /\ "given" \in {disposition, incident[session[c].id].disposition}
                            /\ "given" \in {reason, incident[session[c].id].reason}
      /\ incident' = [incident EXCEPT ![session[c].id] =
                        Patched(incident[session[c].id], next, disposition, reason, note)]
      /\ Owes(c)
  BY Zenon DEF UpdateIncident
<1>4. PICK old : old = incident[i]
  OBVIOUS
<1>5. PICK row : row = Patched(old, next, disposition, reason, note)
  OBVIOUS
<1>6. incident' = [incident EXCEPT ![i] = row]
  BY <1>1, <1>3, <1>4, <1>5
<1>7. /\ old \in IncidentRow /\ old.status # "NONE" /\ Tells(old.timeline, old.status)
      /\ old.acked <=> old.status # "NEW"
      /\ next \in IncidentTransitions(old.status) \union {"none", old.status}
  BY <1>1, <1>2, <1>3, <1>4, RowFacts DEF IncidentStory
<1>8. /\ row \in IncidentRow /\ row.status # "NONE"
      /\ row.links = old.links /\ row.events = old.events /\ row.version = old.version + 1
      /\ Tells(row.timeline, row.status)
      /\ row.acked <=> row.status # "NEW"
  <2>1. LET new == Patched(old, next, disposition, reason, note) IN
        /\ new \in IncidentRow /\ new.status # "NONE"
        /\ new.links = old.links /\ new.events = old.events /\ new.version = old.version + 1
        /\ Tells(new.timeline, new.status)
        /\ new.acked <=> new.status # "NEW"
    BY <1>7, PatchedFacts
  <2> QED
    BY <1>5, <2>1
<1>9. /\ incident' \in [Incidents -> IncidentRow] /\ IncidentsGrow /\ IncidentStory'
      /\ Rows(incident') = Rows(incident) \union {i}
      /\ \E n \in Nat : Rows(incident') = 1..n
  BY <1>2, <1>4, <1>6, <1>8, IncidentWritten
<1> QED
  BY <1>2, <1>9

\* The counts follow one request, whether it begins to owe, pays or fails.
LEMMA AccountsMove ==
  ASSUME DeskType, AuditAccounts, NEW c \in Clients,
         \A d \in Clients : d # c => session'[d] = session[d],
         \/ /\ c \notin Owing /\ c \in Owing' /\ changes' = changes + 1
            /\ Len(auditEntries') = Len(auditEntries) /\ unaudited' = unaudited
         \/ /\ c \in Owing /\ c \notin Owing' /\ changes' = changes
            /\ Len(auditEntries') = Len(auditEntries) + 1 /\ unaudited' = unaudited
         \/ /\ c \in Owing /\ c \notin Owing' /\ changes' = changes
            /\ Len(auditEntries') = Len(auditEntries) /\ unaudited' = unaudited + 1
         \/ /\ c \in Owing <=> c \in Owing'
            /\ changes' = changes /\ Len(auditEntries') = Len(auditEntries) /\ unaudited' = unaudited
  PROVE  AuditAccounts'
<1>1. /\ Len(auditEntries) \in Nat /\ changes \in Nat /\ unaudited \in Nat
  BY DEF DeskType
<1>2. changes = Len(auditEntries) + Cardinality(Owing) + unaudited
  BY DEF AuditAccounts
<1>3. changes' = Len(auditEntries') + Cardinality(Owing') + unaudited'
  BY <1>1, <1>2, OwingMoves, SMTT(20)
<1> QED
  BY <1>3 DEF AuditAccounts

\* One request moves and does not come to hold the head: its own lock may go,
\* nobody else's does.
LEMMA OneMoves ==
  ASSUME DeskType, HeadIsLocked, NEW c \in Clients, NEW s \in Session,
         session' = [session EXCEPT ![c] = s], s.at # "append",
         head' = head, lockedBy' = lockedBy \/ lockedBy' = lockedBy \ {c}
  PROVE  /\ session' \in [Clients -> Session] /\ session'[c] = s
         /\ \A d \in Clients : d # c => session'[d] = session[d]
         /\ HeadIsLocked'
<1>1. /\ session' \in [Clients -> Session] /\ session'[c] = s
      /\ \A d \in Clients : d # c => session'[d] = session[d]
  BY DEF DeskType
<1>2. HeadIsLocked'
  BY <1>1 DEF HeadIsLocked
<1> QED
  BY <1>1, <1>2

\* Rows nobody wrote.
LEMMA TablesStay ==
  ASSUME DeskType
  PROVE  /\ UNCHANGED alert => AlertsGrow
         /\ UNCHANGED incident => IncidentsGrow
<1>1. /\ \A a \in Rows(alert) : alert[a].version \in Nat
      /\ \A i \in Rows(incident) : incident[i].version \in Nat
  BY DEF DeskType, Rows, AlertRow, IncidentRow
<1> QED
  BY <1>1 DEF AlertsGrow, IncidentsGrow

\* A step that appends no entry: rows grow, who moves knows what it needs, and
\* the rest of the record follows.
LEMMA DeskStep ==
  ASSUME DeskInv, DeskType', RowsInOrder', AlertsGrow, IncidentsGrow,
         UNCHANGED <<auditEntries, head>>,
         \A i \in Rows(incident') : i \notin Rows(incident) =>
            /\ incident'[i].links \subseteq Rows(alert')
            /\ \A e \in incident'[i].events : \E a \in incident'[i].links : e \in alert'[a].events,
         IncidentStory', HeadIsLocked', AuditAccounts',
         \A d \in Clients : session'[d] = session[d] \/ Knows(d)'
  PROVE  DeskInv'
<1>1. IncidentsBacked'
  BY BackedStays DEF DeskInv
<1>2. ChainIntact'
  BY DEF DeskInv, ChainIntact
<1>3. RequestsKnow'
  <2> SUFFICES ASSUME NEW d \in Clients PROVE Knows(d)'
    BY DEF RequestsKnow
  <2>1. CASE session'[d] = session[d]
    BY <2>1, OthersKnow DEF DeskInv, RequestsKnow
  <2> QED
    BY <2>1
<1> QED
  BY <1>1, <1>2, <1>3 DEF DeskInv

\* Detection's transaction.
LEMMA UpsertAlertKeeps ==
  ASSUME DeskInv, NEW e \in Events, UpsertAlert(e)
  PROVE  DeskInv'
<1>1. /\ alert' \in [Alerts -> AlertRow] /\ AlertsGrow
      /\ \E n \in Nat : Rows(alert') = 1..n
  BY UpsertGrows DEF DeskInv
<1>2. UNCHANGED <<incident, auditEntries, head, lockedBy, session, changes, unaudited>>
  BY DEF UpsertAlert
<1>3. DeskType' /\ RowsInOrder'
  BY <1>1, <1>2 DEF DeskInv, DeskType, RowsInOrder
<1>4. IncidentsGrow
  BY <1>2, TablesStay DEF DeskInv
<1>5. IncidentStory' /\ HeadIsLocked' /\ AuditAccounts'
  BY <1>2 DEF DeskInv, IncidentStory, HeadIsLocked, AuditAccounts, Owing
<1> QED
  BY <1>1, <1>2, <1>3, <1>4, <1>5, DeskStep

\* A step of a request that writes no table and no entry.
LEMMA SessionStep ==
  ASSUME DeskInv, NEW c \in Clients, NEW s \in Session,
         session' = [session EXCEPT ![c] = s], s.at # "append", Knows(c)',
         UNCHANGED <<alert, incident, auditEntries, head, changes>>,
         lockedBy' = lockedBy \/ lockedBy' = lockedBy \ {c},
         \/ /\ session[c].at \in {"link", "audit", "append"} <=> s.at \in {"link", "audit"}
            /\ unaudited' = unaudited
         \/ session[c].at \in {"link", "audit", "append"} /\ s = Away /\ unaudited' = unaudited + 1
  PROVE  DeskInv'
<1>1. /\ session' \in [Clients -> Session] /\ session'[c] = s
      /\ \A d \in Clients : d # c => session'[d] = session[d]
      /\ HeadIsLocked'
  BY OneMoves DEF DeskInv
<1>2. DeskType' /\ RowsInOrder' /\ IncidentStory'
  BY <1>1 DEF DeskInv, DeskType, RowsInOrder, IncidentStory
<1>3. AlertsGrow /\ IncidentsGrow
  BY TablesStay DEF DeskInv
<1>4. /\ c \in Owing <=> session[c].at \in {"link", "audit", "append"}
      /\ c \in Owing' <=> s.at \in {"link", "audit"}
  BY <1>1 DEF Owing
<1>5. s = Away => s.at = "away"
  BY DEF Away
<1>6. AuditAccounts'
  BY <1>1, <1>4, <1>5, AccountsMove DEF DeskInv
<1> QED
  BY <1>1, <1>2, <1>3, <1>6, DeskStep

\* The screen: a row is read as it is, and forgotten.
LEMMA ScreenKeeps ==
  ASSUME DeskInv, NEW c \in Clients,
         \/ \E a \in Alerts : GetAlertRow(c, a)
         \/ \E i \in Incidents : GetIncidentRow(c, i)
         \/ Leave(c)
  PROVE  DeskInv'
<1>1. ASSUME NEW a \in Alerts, GetAlertRow(c, a) PROVE DeskInv'
  <2>1. PICK row : row = alert[a]
    OBVIOUS
  <2>2. row \in AlertRow /\ a \in Rows(alert) /\ a \in Nat /\ row.version \in Nat
    <3>1. alert \in [Alerts -> AlertRow]
      BY DEF DeskInv, DeskType
    <3>2. row \in AlertRow /\ a \in Rows(alert)
      BY <1>1, <2>1, <3>1 DEF GetAlertRow
    <3>3. a \in Nat /\ row.version \in Nat
      BY <3>2 DEF Alerts, AlertRow
    <3> QED
      BY <3>2, <3>3
  <2>3. PICK s : s = [Away EXCEPT !.at = "alert", !.id = a, !.view = row]
    OBVIOUS
  <2>4. s \in Session /\ s.at = "alert" /\ s.id = a /\ s.view = row
    BY <2>2, <2>3, DeskResting DEF Away, Session
  <2>5. /\ session' = [session EXCEPT ![c] = s] /\ session[c].at = "away"
        /\ UNCHANGED <<alert, incident, auditEntries, head, lockedBy, changes, unaudited>>
    <3>1. session[c] = Away /\ session' = [session EXCEPT ![c] = s]
      BY <1>1, <2>1, <2>3 DEF GetAlertRow, Become
    <3>2. session[c].at = "away"
      BY <3>1 DEF Away
    <3> QED
      BY <1>1, <3>1, <3>2 DEF GetAlertRow
  <2>6. session'[c] = s
    BY <2>5 DEF DeskInv, DeskType
  <2>7. Knows(c)'
    BY <2>1, <2>2, <2>4, <2>5, <2>6 DEF Knows
  <2> QED
    BY <2>4, <2>5, <2>7, SessionStep
<1>2. ASSUME NEW i \in Incidents, GetIncidentRow(c, i) PROVE DeskInv'
  <2>1. PICK row : row = incident[i]
    OBVIOUS
  <2>2. row \in IncidentRow /\ i \in Rows(incident) /\ i \in Nat /\ row.version \in Nat
    <3>1. incident \in [Incidents -> IncidentRow]
      BY DEF DeskInv, DeskType
    <3>2. row \in IncidentRow /\ i \in Rows(incident)
      BY <1>2, <2>1, <3>1 DEF GetIncidentRow
    <3>3. i \in Nat /\ row.version \in Nat
      BY <3>2 DEF Incidents, IncidentRow
    <3> QED
      BY <3>2, <3>3
  <2>3. PICK s : s = [Away EXCEPT !.at = "incident", !.id = i, !.view = row]
    OBVIOUS
  <2>4. s \in Session /\ s.at = "incident" /\ s.id = i /\ s.view = row
    BY <2>2, <2>3, DeskResting DEF Away, Session
  <2>5. /\ session' = [session EXCEPT ![c] = s] /\ session[c].at = "away"
        /\ UNCHANGED <<alert, incident, auditEntries, head, lockedBy, changes, unaudited>>
    <3>1. session[c] = Away /\ session' = [session EXCEPT ![c] = s]
      BY <1>2, <2>1, <2>3 DEF GetIncidentRow, Become
    <3>2. session[c].at = "away"
      BY <3>1 DEF Away
    <3> QED
      BY <1>2, <3>1, <3>2 DEF GetIncidentRow
  <2>6. session'[c] = s
    BY <2>5 DEF DeskInv, DeskType
  <2>7. Knows(c)'
    BY <2>1, <2>2, <2>4, <2>5, <2>6 DEF Knows
  <2> QED
    BY <2>4, <2>5, <2>7, SessionStep
<1>3. ASSUME Leave(c) PROVE DeskInv'
  <2>1. PICK s : s = Away
    OBVIOUS
  <2>2. s \in Session /\ s.at = "away"
    BY <2>1, DeskResting DEF Away
  <2>3. /\ session' = [session EXCEPT ![c] = s] /\ session[c].at \in {"alert", "incident"}
        /\ UNCHANGED <<alert, incident, auditEntries, head, lockedBy, changes, unaudited>>
    BY <1>3, <2>1 DEF Leave, Become
  <2>4. session'[c] = s
    BY <2>3 DEF DeskInv, DeskType
  <2>5. Knows(c)'
    BY <2>2, <2>4 DEF Knows
  <2> QED
    BY <2>2, <2>3, <2>5, SessionStep
<1> QED
  BY <1>1, <1>2, <1>3

\* An edit changes one row and comes to owe one entry.
LEMMA OwesFacts ==
  ASSUME DeskInv, NEW c \in Clients, Owes(c), session[c].at \notin {"link", "audit", "append"},
         UNCHANGED <<auditEntries, head, lockedBy, unaudited>>
  PROVE  /\ session' \in [Clients -> Session] /\ changes' \in Nat
         /\ Knows(c)' /\ \A d \in Clients : d # c => session'[d] = session[d]
         /\ HeadIsLocked' /\ AuditAccounts'
<1>1. PICK s : s = [Away EXCEPT !.at = "audit"]
  OBVIOUS
<1>2. s \in Session /\ s.at = "audit" /\ s.what = "updated"
  BY <1>1, DeskResting DEF Away, Session
<1>3. session' = [session EXCEPT ![c] = s] /\ changes' = changes + 1
  BY <1>1 DEF Owes, Become
<1>4. /\ session' \in [Clients -> Session] /\ session'[c] = s
      /\ \A d \in Clients : d # c => session'[d] = session[d]
      /\ HeadIsLocked'
  BY <1>2, <1>3, OneMoves DEF DeskInv
<1>5. Knows(c)'
  BY <1>2, <1>4 DEF Knows
<1>6. c \notin Owing /\ c \in Owing'
  BY <1>2, <1>4 DEF Owing
<1>7. AuditAccounts'
  BY <1>3, <1>4, <1>6, AccountsMove DEF DeskInv
<1> QED
  BY <1>3, <1>4, <1>5, <1>7 DEF DeskInv, DeskType

\* The edits of alerts and incidents.
LEMMA EditKeeps ==
  ASSUME DeskInv, NEW c \in Clients, UpdateAlert(c) \/ UpdateIncident(c)
  PROVE  DeskInv'
<1>k. Knows(c)
  BY DEF DeskInv, RequestsKnow
<1>1. ASSUME UpdateAlert(c) PROVE DeskInv'
  <2>1. /\ alert' \in [Alerts -> AlertRow] /\ AlertsGrow /\ \E n \in Nat : Rows(alert') = 1..n
    BY <1>1, <1>k, UpdateAlertGrows DEF DeskInv
  <2>2. /\ Owes(c) /\ session[c].at = "alert"
        /\ UNCHANGED <<incident, auditEntries, head, lockedBy, unaudited>>
    BY <1>1 DEF UpdateAlert
  <2>3. /\ session' \in [Clients -> Session] /\ changes' \in Nat
        /\ Knows(c)' /\ \A d \in Clients : d # c => session'[d] = session[d]
        /\ HeadIsLocked' /\ AuditAccounts'
    BY <2>2, OwesFacts
  <2>4. DeskType' /\ RowsInOrder' /\ IncidentStory'
    BY <2>1, <2>2, <2>3 DEF DeskInv, DeskType, RowsInOrder, IncidentStory
  <2>5. IncidentsGrow
    BY <2>2, TablesStay DEF DeskInv
  <2> QED
    BY <2>1, <2>2, <2>3, <2>4, <2>5, DeskStep
<1>2. ASSUME UpdateIncident(c) PROVE DeskInv'
  <2>1. /\ incident' \in [Incidents -> IncidentRow] /\ IncidentsGrow /\ IncidentStory'
        /\ Rows(incident') = Rows(incident) /\ \E n \in Nat : Rows(incident') = 1..n
    BY <1>2, <1>k, UpdateIncidentGrows DEF DeskInv
  <2>2. /\ Owes(c) /\ session[c].at = "incident"
        /\ UNCHANGED <<alert, auditEntries, head, lockedBy, unaudited>>
    BY <1>2 DEF UpdateIncident
  <2>3. /\ session' \in [Clients -> Session] /\ changes' \in Nat
        /\ Knows(c)' /\ \A d \in Clients : d # c => session'[d] = session[d]
        /\ HeadIsLocked' /\ AuditAccounts'
    BY <2>2, OwesFacts
  <2>4. DeskType' /\ RowsInOrder'
    BY <2>1, <2>2, <2>3 DEF DeskInv, DeskType, RowsInOrder
  <2>5. AlertsGrow
    BY <2>2, TablesStay DEF DeskInv
  <2> QED
    BY <2>1, <2>2, <2>3, <2>4, <2>5, DeskStep
<1> QED
  BY <1>1, <1>2

\* Gathering the alerts of a new incident.
LEMMA GatherKeeps ==
  ASSUME DeskInv, NEW c \in Clients, CreateIncident(c) \/ GetAlert(c)
  PROVE  DeskInv'
<1>k. Knows(c)
  BY DEF DeskInv, RequestsKnow
<1>t. session[c] \in Session
  BY DEF DeskInv, DeskType
<1>1. ASSUME CreateIncident(c) PROVE DeskInv'
  <2>1. PICK links \in SUBSET Rows(alert) :
          session' = [session EXCEPT ![c] = [Away EXCEPT !.at = "gather", !.links = links, !.todo = links]]
    BY <1>1 DEF CreateIncident, Become
  <2>2. PICK s : s = [Away EXCEPT !.at = "gather", !.links = links, !.todo = links]
    OBVIOUS
  <2>3. links \subseteq Alerts /\ links \subseteq Rows(alert)
    BY <2>1, RowFacts DEF DeskInv
  <2>4. s \in Session /\ s.at = "gather" /\ s.links = links /\ s.todo = links /\ s.events = {}
    BY <2>2, <2>3, DeskResting DEF Away, Session
  <2>5. /\ session' = [session EXCEPT ![c] = s] /\ session[c].at = "away"
        /\ UNCHANGED <<alert, incident, auditEntries, head, lockedBy, changes, unaudited>>
    <3>1. session[c] = Away /\ session' = [session EXCEPT ![c] = s]
      BY <1>1, <2>1, <2>2 DEF CreateIncident
    <3>2. session[c].at = "away"
      BY <3>1 DEF Away
    <3> QED
      BY <1>1, <3>1, <3>2 DEF CreateIncident
  <2>6. session'[c] = s
    BY <2>5 DEF DeskInv, DeskType
  <2>7. Knows(c)'
    BY <2>3, <2>4, <2>5, <2>6 DEF Knows, BackedBy
  <2> QED
    BY <2>4, <2>5, <2>7, SessionStep
<1>2. ASSUME GetAlert(c) PROVE DeskInv'
  <2>1. PICK a \in session[c].todo :
          session' = [session EXCEPT ![c].todo = @ \ {a}, ![c].events = @ \union alert[a].events]
    BY <1>2 DEF GetAlert
  <2>2. /\ session[c].at = "gather"
        /\ UNCHANGED <<alert, incident, auditEntries, head, lockedBy, changes, unaudited>>
    BY <1>2 DEF GetAlert
  <2>3. /\ session[c].todo \subseteq session[c].links /\ session[c].links \subseteq Rows(alert)
        /\ BackedBy(session[c].events, session[c].links)
    BY <1>k, <2>2 DEF Knows
  <2>4. a \in session[c].links /\ a \in Alerts /\ alert[a].events \subseteq Events
    BY <2>1, <2>3, RowFacts DEF DeskInv, DeskType, AlertRow
  <2>5. PICK s : s = session'[c]
    OBVIOUS
  <2>6. /\ s \in Session /\ s.at = "gather" /\ s.links = session[c].links
        /\ s.todo = session[c].todo \ {a} /\ s.events = session[c].events \union alert[a].events
    BY <1>t, <2>1, <2>2, <2>4, <2>5 DEF Session, DeskInv, DeskType
  <2>7. session' = [session EXCEPT ![c] = s]
    BY <2>1, <2>5 DEF DeskInv, DeskType
  <2>8. \A e \in s.events : \E b \in s.links : e \in alert[b].events
    BY <2>3, <2>4, <2>6 DEF BackedBy
  <2>9. Knows(c)'
    BY <2>2, <2>3, <2>5, <2>6, <2>8 DEF Knows, BackedBy
  <2> QED
    BY <2>2, <2>6, <2>7, <2>9, SessionStep
<1> QED
  BY <1>1, <1>2

\* The insert of a new incident: its request has gathered what backs it.
LEMMA InsertKeeps ==
  ASSUME DeskInv, NEW c \in Clients, InsertIncident(c)
  PROVE  DeskInv'
<1>1. /\ session[c].at = "gather" /\ session[c].todo = {} /\ changes' = changes + 1
      /\ UNCHANGED <<alert, auditEntries, head, lockedBy, unaudited>>
  BY DEF InsertIncident
<1>2. PICK i \in Incidents :
        /\ i = Cardinality(Rows(incident)) + 1
        /\ incident' = [incident EXCEPT ![i] =
              [NoIncident EXCEPT !.status = "NEW", !.version = 1, !.links = session[c].links,
                                 !.events = session[c].events, !.timeline = <<"NEW">>]]
        /\ session' = [session EXCEPT ![c] =
              [Away EXCEPT !.at = "link", !.id = i, !.links = session[c].links,
                           !.todo = session[c].links]]
  BY DEF InsertIncident, Become
<1>3. PICK links, events : links = session[c].links /\ events = session[c].events
  OBVIOUS
<1>4. /\ links \subseteq Rows(alert) /\ links \subseteq Alerts /\ events \subseteq Events
      /\ \A e \in events : \E a \in links : e \in alert[a].events
  BY <1>1, <1>3 DEF DeskInv, DeskType, Session, RequestsKnow, Knows, BackedBy
<1>5. PICK row : row = [NoIncident EXCEPT !.status = "NEW", !.version = 1, !.links = links,
                                          !.events = events, !.timeline = <<"NEW">>]
  OBVIOUS
<1>6. PICK s : s = [Away EXCEPT !.at = "link", !.id = i, !.links = links, !.todo = links]
  OBVIOUS
<1>7. /\ incident' = [incident EXCEPT ![i] = row] /\ session' = [session EXCEPT ![c] = s]
  BY <1>2, <1>3, <1>5, <1>6
<1>8. /\ row.status = "NEW" /\ row.version = 1 /\ row.links = links /\ row.events = events
      /\ row.timeline = <<"NEW">> /\ row.acked = FALSE
  BY <1>5 DEF NoIncident
<1>9. <<"NEW">> \in Seq(IncidentStatuses \union {"note"}) /\ "NEW" \in IncidentStatuses
  BY DEF IncidentStatuses
<1>10. row \in IncidentRow
  BY <1>4, <1>5, <1>9 DEF NoIncident, IncidentRow, Texts
<1>11. Tells(row.timeline, row.status)
  <2>1. SaysStatus(<<"NEW">>, 1, 1)
    BY DEF SaysStatus
  <2> QED
    BY <1>8, <2>1 DEF Tells
<1>12. row.status # "NONE" /\ (row.acked <=> row.status # "NEW")
  BY <1>8
<1>13. /\ incident' \in [Incidents -> IncidentRow] /\ IncidentsGrow /\ IncidentStory'
       /\ Rows(incident') = Rows(incident) \union {i}
       /\ \E n \in Nat : Rows(incident') = 1..n
  BY <1>2, <1>7, <1>10, <1>11, <1>12, IncidentWritten DEF DeskInv
<1>14. s \in Session /\ s.at = "link" /\ s.id = i /\ s.links = links /\ s.todo = links
  <2>1. i \in Nat
    BY DEF Incidents
  <2> QED
    BY <1>4, <1>6, <2>1, DeskResting DEF Away, Session
<1>15. /\ session' \in [Clients -> Session] /\ session'[c] = s
       /\ \A d \in Clients : d # c => session'[d] = session[d]
       /\ HeadIsLocked'
  BY <1>1, <1>7, <1>14, OneMoves DEF DeskInv
<1>16. incident'[i] = row
  BY <1>7 DEF DeskInv, DeskType
<1>17. Knows(c)'
  BY <1>8, <1>13, <1>14, <1>15, <1>16 DEF Knows
<1>18. c \notin Owing /\ c \in Owing'
  BY <1>1, <1>14, <1>15 DEF Owing
<1>19. AuditAccounts'
  BY <1>1, <1>15, <1>18, AccountsMove DEF DeskInv
<1>20. DeskType' /\ RowsInOrder'
  BY <1>1, <1>13, <1>15 DEF DeskInv, DeskType, RowsInOrder
<1>21. AlertsGrow
  BY <1>1, TablesStay DEF DeskInv
<1>22. \A j \in Rows(incident') : j \notin Rows(incident) =>
         /\ incident'[j].links \subseteq Rows(alert')
         /\ \A e \in incident'[j].events : \E a \in incident'[j].links : e \in alert'[a].events
  BY <1>1, <1>4, <1>8, <1>13, <1>16
<1> QED
  BY <1>1, <1>13, <1>15, <1>17, <1>19, <1>20, <1>21, <1>22, DeskStep

\* Linking: one alert leaves the queue, and at the end all have.
LEMMA LinkKeeps ==
  ASSUME DeskInv, NEW c \in Clients, LinkAlert(c) \/ LinksDone(c)
  PROVE  DeskInv'
<1>k. session[c].at = "link"
  BY DEF LinkAlert, LinksDone
<1>t. session[c] \in Session /\ session \in [Clients -> Session]
  BY DEF DeskInv, DeskType
<1>l. /\ session[c].todo \subseteq session[c].links /\ session[c].id \in Rows(incident)
      /\ session[c].links = incident[session[c].id].links
      /\ session[c].links \subseteq Rows(alert)
      /\ \A a \in session[c].links \ session[c].todo : Handled(a)
  BY <1>k DEF DeskInv, RequestsKnow, Knows, IncidentsBacked
<1>1. ASSUME LinkAlert(c) PROVE DeskInv'
  <2>1. PICK a \in session[c].todo :
          /\ alert' = [alert EXCEPT
                ![a].status = IF @ \in {"NEW", "ACKNOWLEDGED"} THEN "IN_PROGRESS" ELSE @,
                ![a].version = @ + 1]
          /\ session' = [session EXCEPT ![c].todo = @ \ {a}]
    BY <1>1 DEF LinkAlert
  <2>2. UNCHANGED <<incident, auditEntries, head, lockedBy, changes, unaudited>>
    BY <1>1 DEF LinkAlert
  <2>3. a \in Rows(alert)
    BY <1>l
  <2>4. /\ alert' \in [Alerts -> AlertRow] /\ AlertsGrow
        /\ \E n \in Nat : Rows(alert') = 1..n
        /\ alert'[a].status \in {"IN_PROGRESS", "CLOSED"}
    BY <2>1, <2>3, LinkAlertGrows DEF DeskInv
  <2>5. PICK s : s = session'[c]
    OBVIOUS
  <2>6. /\ s \in Session /\ s.at = "link" /\ s.id = session[c].id /\ s.links = session[c].links
        /\ s.todo = session[c].todo \ {a}
    BY <1>k, <1>t, <2>1, <2>5 DEF Session
  <2>7. session' = [session EXCEPT ![c] = s]
    BY <1>t, <2>1, <2>5
  <2>8. /\ session' \in [Clients -> Session] /\ session'[c] = s
        /\ \A d \in Clients : d # c => session'[d] = session[d]
        /\ HeadIsLocked'
    BY <2>2, <2>6, <2>7, OneMoves DEF DeskInv
  <2>9. \A b \in s.links \ s.todo : Handled(b)'
    BY <1>l, <2>4, <2>6 DEF AlertsGrow, Handled
  <2>10. Knows(c)'
    BY <1>l, <2>2, <2>6, <2>8, <2>9 DEF Knows
  <2>11. c \in Owing /\ c \in Owing'
    BY <1>k, <2>6, <2>8 DEF Owing
  <2>12. AuditAccounts'
    BY <2>2, <2>8, <2>11, AccountsMove DEF DeskInv
  <2>13. DeskType' /\ RowsInOrder' /\ IncidentStory'
    BY <2>2, <2>4, <2>8 DEF DeskInv, DeskType, RowsInOrder, IncidentStory
  <2>14. IncidentsGrow
    BY <2>2, TablesStay DEF DeskInv
  <2> QED
    BY <2>2, <2>4, <2>8, <2>10, <2>12, <2>13, <2>14, DeskStep
<1>2. ASSUME LinksDone(c) PROVE DeskInv'
  <2>1. PICK s : s = [Away EXCEPT !.at = "audit", !.what = "created", !.id = session[c].id]
    OBVIOUS
  <2>2. s \in Session /\ s.at = "audit" /\ s.what = "created" /\ s.id = session[c].id
    BY <1>t, <2>1, DeskResting DEF Away, Session
  <2>3. /\ session' = [session EXCEPT ![c] = s] /\ session[c].todo = {}
        /\ UNCHANGED <<alert, incident, auditEntries, head, lockedBy, changes, unaudited>>
    BY <1>2, <2>1 DEF LinksDone, Become
  <2>4. session'[c] = s
    BY <1>t, <2>3
  <2>5. Knows(c)'
    BY <1>l, <2>2, <2>3, <2>4 DEF Knows, Handled
  <2> QED
    BY <1>k, <2>2, <2>3, <2>5, SessionStep
<1> QED
  BY <1>1, <1>2

\* The head is locked by one transaction at a time, which reads it as it is.
LEMMA LockKeeps ==
  ASSUME DeskInv, NEW c \in Clients, LockAuditHead(c)
  PROVE  DeskInv'
<1>1. /\ session[c].at = "audit" /\ lockedBy = {} /\ lockedBy' = {c}
      /\ session' = [session EXCEPT ![c].at = "append", ![c].prev = head]
      /\ UNCHANGED <<alert, incident, auditEntries, head, changes, unaudited>>
  BY DEF LockAuditHead
<1>t. session[c] \in Session /\ session \in [Clients -> Session] /\ head \in Nat
  BY DEF DeskInv, DeskType
<1>2. /\ session' \in [Clients -> Session] /\ session'[c].at = "append" /\ session'[c].prev = head
      /\ session'[c].what = session[c].what /\ session'[c].id = session[c].id
      /\ \A d \in Clients : d # c => session'[d] = session[d]
  BY <1>1, <1>t DEF Session
<1>3. HeadIsLocked'
  <2>1. \A d \in Clients : session[d].at # "append"
    BY <1>1 DEF DeskInv, HeadIsLocked
  <2> QED
    BY <1>1, <1>2, <2>1 DEF HeadIsLocked
<1>4. Knows(c)
  BY DEF DeskInv, RequestsKnow
<1>5. Knows(c)'
  BY <1>1, <1>2, <1>4 DEF Knows, Handled
<1>6. c \in Owing /\ c \in Owing'
  BY <1>1, <1>2 DEF Owing
<1>7. AuditAccounts'
  BY <1>1, <1>2, <1>6, AccountsMove DEF DeskInv
<1>8. DeskType' /\ RowsInOrder' /\ IncidentStory'
  BY <1>1, <1>2 DEF DeskInv, DeskType, RowsInOrder, IncidentStory
<1>9. AlertsGrow /\ IncidentsGrow
  BY <1>1, TablesStay DEF DeskInv
<1> QED
  BY <1>1, <1>2, <1>3, <1>5, <1>7, <1>8, <1>9, DeskStep

\* The append: whoever holds the lock read the head that the entry follows.
LEMMA AppendKeeps ==
  ASSUME DeskInv, NEW c \in Clients, AppendAudit(c)
  PROVE  DeskInv'
<1>1. PICK entry : entry = [prev |-> session[c].prev, hash |-> Len(auditEntries) + 1,
                            what |-> session[c].what, id |-> session[c].id]
  OBVIOUS
<1>2. /\ session[c].at = "append" /\ auditEntries' = Append(auditEntries, entry)
      /\ head' = Len(auditEntries) + 1 /\ session' = [session EXCEPT ![c] = Away]
      /\ lockedBy' = lockedBy \ {c} /\ UNCHANGED <<alert, incident, changes, unaudited>>
  BY <1>1 DEF AppendAudit, Become
<1>t. /\ session[c] \in Session /\ session \in [Clients -> Session]
      /\ auditEntries \in Seq(Entry) /\ Len(auditEntries) \in Nat
  BY DEF DeskInv, DeskType
<1>3. /\ entry \in Entry /\ entry.prev = session[c].prev /\ entry.hash = Len(auditEntries) + 1
      /\ entry.what = session[c].what /\ entry.id = session[c].id
  BY <1>1, <1>t DEF Session, Entry
<1>4. /\ auditEntries' \in Seq(Entry) /\ Len(auditEntries') = Len(auditEntries) + 1
      /\ auditEntries'[Len(auditEntries) + 1] = entry /\ auditEntries' # <<>>
      /\ \A k \in 1..Len(auditEntries) : auditEntries'[k] = auditEntries[k]
  BY <1>2, <1>3, <1>t
<1>5. /\ session' \in [Clients -> Session] /\ session'[c].at = "away"
      /\ \A d \in Clients : d # c => session'[d] = session[d]
  BY <1>2, <1>t, DeskResting DEF Away
<1>6. lockedBy = {c} /\ session[c].prev = head
  BY <1>2 DEF DeskInv, HeadIsLocked
<1>7. HeadIsLocked'
  <2>1. \A d \in Clients : d # c => session[d].at # "append"
    BY <1>6 DEF DeskInv, HeadIsLocked
  <2> QED
    BY <1>5, <2>1 DEF HeadIsLocked
<1>8. ChainIntact'
  <2>1. \A k \in 1..Len(auditEntries) :
          auditEntries[k].prev = IF k = 1 THEN 0 ELSE auditEntries[k - 1].hash
    BY DEF DeskInv, ChainIntact
  <2>2. head = IF Len(auditEntries) = 0 THEN 0 ELSE auditEntries[Len(auditEntries)].hash
    BY <1>t DEF DeskInv, ChainIntact
  <2>3. ASSUME NEW k \in 1..Len(auditEntries')
        PROVE  auditEntries'[k].prev = IF k = 1 THEN 0 ELSE auditEntries'[k - 1].hash
    <3>1. CASE k = Len(auditEntries) + 1
      <4>1. auditEntries'[k].prev = head
        BY <1>3, <1>4, <1>6, <3>1
      <4>2. k = 1 <=> Len(auditEntries) = 0
        BY <1>t, <3>1
      <4>3. k # 1 => auditEntries'[k - 1] = auditEntries[Len(auditEntries)]
        BY <1>t, <1>4, <3>1
      <4> QED
        BY <2>2, <4>1, <4>2, <4>3
    <3>2. CASE k # Len(auditEntries) + 1
      <4>1. k \in 1..Len(auditEntries) /\ (k # 1 => k - 1 \in 1..Len(auditEntries))
        BY <1>t, <1>4, <3>2
      <4> QED
        BY <1>4, <2>1, <4>1
    <3> QED
      BY <3>1, <3>2
  <2>4. head' = auditEntries'[Len(auditEntries')].hash
    BY <1>2, <1>3, <1>4
  <2> QED
    BY <1>4, <2>3, <2>4 DEF ChainIntact
<1>9. c \in Owing /\ c \notin Owing'
  BY <1>2, <1>5 DEF Owing
<1>10. AuditAccounts'
  BY <1>2, <1>4, <1>5, <1>9, AccountsMove DEF DeskInv
<1>11. DeskType' /\ RowsInOrder' /\ IncidentStory'
  <2>1. head' \in Nat
    BY <1>2, <1>t
  <2>2. DeskType'
    BY <1>2, <1>4, <1>5, <2>1 DEF DeskInv, DeskType
  <2> QED
    BY <1>2, <2>2 DEF DeskInv, RowsInOrder, IncidentStory
<1>12. AlertsGrow /\ IncidentsGrow
  BY <1>2, TablesStay DEF DeskInv
<1>13. RequestsKnow'
  <2> SUFFICES ASSUME NEW d \in Clients PROVE Knows(d)'
    BY DEF RequestsKnow
  <2>1. CASE d = c
    BY <1>5, <2>1 DEF Knows
  <2>2. CASE d # c
    BY <1>5, <1>11, <1>12, <2>2, OthersKnow DEF DeskInv, RequestsKnow
  <2> QED
    BY <2>1, <2>2
<1>14. entry.what = "created" => /\ entry.id \in Rows(incident)
                                 /\ \A a \in incident[entry.id].links : Handled(a)
  BY <1>2, <1>3, Zenon DEF DeskInv, RequestsKnow, Knows
<1>15. IncidentsBacked'
  <2>1. ASSUME NEW k \in 1..Len(auditEntries'), auditEntries'[k].what = "created"
        PROVE  /\ auditEntries'[k].id \in Rows(incident)
               /\ \A a \in incident[auditEntries'[k].id].links : Handled(a)
    <3>1. CASE k = Len(auditEntries) + 1
      BY <1>4, <1>14, <2>1, <3>1
    <3>2. CASE k # Len(auditEntries) + 1
      <4>1. k \in 1..Len(auditEntries)
        BY <1>t, <1>4, <3>2
      <4> QED
        BY <1>4, <2>1, <4>1 DEF DeskInv, IncidentsBacked
    <3> QED
      BY <3>1, <3>2
  <2>2. \A i \in Rows(incident) :
          /\ incident[i].links \subseteq Rows(alert)
          /\ BackedBy(incident[i].events, incident[i].links)
    BY DEF DeskInv, IncidentsBacked
  <2> QED
    BY <1>2, <2>1, <2>2 DEF IncidentsBacked, BackedBy, Handled
<1> QED
  BY <1>7, <1>8, <1>10, <1>11, <1>13, <1>15 DEF DeskInv

\* A request that fails leaves the record as it is.
LEMMA FailsKeeps ==
  ASSUME DeskInv, NEW c \in Clients, RequestFails(c)
  PROVE  DeskInv'
<1>1. PICK s : s = Away
  OBVIOUS
<1>2. s \in Session /\ s.at = "away"
  BY <1>1, DeskResting DEF Away
<1>3. /\ session' = [session EXCEPT ![c] = s] /\ lockedBy' = lockedBy \ {c}
      /\ UNCHANGED <<alert, incident, auditEntries, head, changes>>
      /\ \/ session[c].at = "gather" /\ unaudited' = unaudited
         \/ session[c].at \in {"link", "audit", "append"} /\ unaudited' = unaudited + 1
  BY <1>1 DEF RequestFails, Become, Owing
<1>4. session'[c] = s
  BY <1>3 DEF DeskInv, DeskType
<1>5. Knows(c)'
  BY <1>2, <1>4 DEF Knows
<1> QED
  BY <1>1, <1>2, <1>3, <1>5, SessionStep

\* Every step of the desk keeps its invariant.
LEMMA DeskSteps == DeskInv /\ [DeskNext]_deskVars => DeskInv'
<1> SUFFICES ASSUME DeskInv, [DeskNext]_deskVars PROVE DeskInv'
  OBVIOUS
<1>1. CASE UNCHANGED deskVars
  <2>1. UNCHANGED <<alert, incident, auditEntries, head, lockedBy, session, changes, unaudited>>
    BY <1>1 DEF deskVars
  <2>2. AlertsGrow /\ IncidentsGrow
    BY <2>1, TablesStay DEF DeskInv
  <2>3. /\ DeskType' /\ RowsInOrder' /\ IncidentStory' /\ HeadIsLocked' /\ AuditAccounts'
    BY <2>1 DEF DeskInv, DeskType, RowsInOrder, IncidentStory, HeadIsLocked, AuditAccounts, Owing
  <2> QED
    BY <2>1, <2>2, <2>3, DeskStep
<1>2. CASE DeskNext
  <2>1. ASSUME NEW e \in Events, UpsertAlert(e) PROVE DeskInv'
    BY <2>1, UpsertAlertKeeps
  <2>2. ASSUME NEW c \in Clients,
               \/ \E a \in Alerts : GetAlertRow(c, a)
               \/ \E i \in Incidents : GetIncidentRow(c, i)
               \/ Leave(c)
        PROVE  DeskInv'
    BY <2>2, ScreenKeeps
  <2>3. ASSUME NEW c \in Clients, UpdateAlert(c) \/ UpdateIncident(c) PROVE DeskInv'
    BY <2>3, EditKeeps
  <2>4. ASSUME NEW c \in Clients, CreateIncident(c) \/ GetAlert(c) PROVE DeskInv'
    BY <2>4, GatherKeeps
  <2>5. ASSUME NEW c \in Clients, InsertIncident(c) PROVE DeskInv'
    BY <2>5, InsertKeeps
  <2>6. ASSUME NEW c \in Clients, LinkAlert(c) \/ LinksDone(c) PROVE DeskInv'
    BY <2>6, LinkKeeps
  <2>7. ASSUME NEW c \in Clients, LockAuditHead(c) PROVE DeskInv'
    BY <2>7, LockKeeps
  <2>8. ASSUME NEW c \in Clients, AppendAudit(c) PROVE DeskInv'
    BY <2>8, AppendKeeps
  <2>9. ASSUME NEW c \in Clients, RequestFails(c) PROVE DeskInv'
    BY <2>9, FailsKeeps
  <2> QED
    BY <1>2, <2>1, <2>2, <2>3, <2>4, <2>5, <2>6, <2>7, <2>8, <2>9 DEF DeskNext
<1> QED
  BY <1>1, <1>2

\* The desk's record can be relied on, for any number of requests, alerts and
\* incidents: the audit chain is unbroken and accounts for every change but those
\* whose own request failed between the change and its entry, an incident is
\* backed by its alerts and its timeline explains its status, and a version that
\* still matches names the row that the client saw (Service.UpdateAlert,
\* UpdateIncident, CreateIncident, appendAuditTx).
THEOREM DeskRecordStays == DeskSpec => []DeskKeepsItsRecord
<1>1. DeskInv => DeskKeepsItsRecord
  <2> SUFFICES ASSUME DeskInv PROVE DeskKeepsItsRecord
    OBVIOUS
  <2>1. \A i \in Rows(incident) :
          /\ incident[i].links \subseteq Rows(alert)
          /\ incident[i].events \subseteq UNION {alert[a].events : a \in incident[i].links}
    BY DEF DeskInv, IncidentsBacked, BackedBy
  <2>2. IncidentIsBacked
    BY <2>1 DEF DeskInv, IncidentsBacked, IncidentIsBacked, Handled
  <2>3. SeenVersionNamesRow
    BY DEF DeskInv, RequestsKnow, Knows, SeenVersionNamesRow
  <2> QED
    BY <2>2, <2>3 DEF DeskInv, DeskKeepsItsRecord
<1> QED
  BY DeskStarts, DeskSteps, <1>1, PTL DEF DeskSpec

-----------------------------------------------------------------------------
(* Hunting.  A row has a rank among the rows a page may show, and the ranks  *)
(* are the numbers up to how many there are (RankFinds), so a page is the    *)
(* first rows in order and its end tells what is left (PageIsFirst).  An     *)
(* event that has a row has one that is shown (StoredIsVisible), with the    *)
(* time and the fields it always had.  HuntInv follows a hunt through its    *)
(* pages: an event asked for that has been there since the first page is     *)
(* among those seen or behind the cursor.                                    *)

\* Every set of numbers that is not empty has a least one.
LEMMA LeastNumber ==
  ASSUME NEW T, T \subseteq Nat, T # {}
  PROVE  \E n \in T : \A m \in T : n <= m
<1> DEFINE R == OpToRel(<, Nat)
<1>1. \E x \in T : \A y \in T : ~(<<y, x>> \in R)
  <2>1. IsWellFoundedOn(R, Nat)
    BY NatLessThanWellFounded
  <2> HIDE DEF R
  <2> QED
    BY <2>1, WFMin
<1>2. \A x, y \in Nat : x < y => <<x, y>> \in R
  BY DEF OpToRel
<1> HIDE DEF R
<1>3. PICK x \in T : \A y \in T : ~(<<y, x>> \in R)
  BY <1>1
<1>4. \A y \in T : x <= y
  <2> TAKE y \in T
  <2>1. x \in Nat /\ y \in Nat /\ ~(<<y, x>> \in R)
    BY <1>3
  <2>2. ~(y < x)
    BY <2>1, <1>2
  <2> QED
    BY <2>1, <2>2
<1> QED
  BY <1>4

\* Rows that an order of time and id tells apart.
Told(rows) ==
    /\ rows \subseteq StoredEvents /\ IsFiniteSet(rows)
    /\ \A r, s \in rows : r.id = s.id => r = s

\* A query asks for a row; a page lists its event; where a page ends.
asks(q, row) == q.start <= row.time /\ row.time < q.end /\ \A x \in q.expression : Meets(x, row.fields)
listed(seq, row) == \E i \in 1 .. Len(seq) : seq[i].id = row.id
endOf(seq) == {[time |-> seq[Len(seq)].time, id |-> seq[Len(seq)].id]}

\* What has been seen is in order, and only what was asked for.
SeenOf(q, seen) ==
    /\ seen \in Seq(StoredEvents)
    /\ \A i \in 1 .. Len(seen) - 1 : before(seen[i], seen[i + 1])
    /\ \A i \in 1 .. Len(seen) : asks(q, seen[i])

\* What has been there since the first page still is, in some version.
HeldOf(kept) ==
    /\ kept \subseteq StoredEvents
    /\ \A row \in kept : \E r \in eventRows : r.id = row.id

\* A hunt with more to come: the cursor is where the last page ended, and what
\* was asked for and has been there is listed or behind it.
OpenAt(q, seen, cursor, kept) ==
    /\ Len(seen) > 0 /\ cursor = endOf(seen)
    /\ \A row \in kept : asks(q, row) => listed(seen, row) \/ before(seen[Len(seen)], row)

\* What the query was compiled to is what it means.
Understood(q) == \A x \in q.expression : \A e \in StoredEvents : Meets(x, e.fields) <=> Means(x, e.fields)

RowsType == eventRows \subseteq StoredEvents /\ IsFiniteSet(eventRows)

HuntInv ==
    /\ RowsType
    /\ putting \in [HuntWriters -> {{}} \cup {{e} : e \in StoredEvents}]
    /\ hunt # NoHunt =>
        /\ hunt = [at |-> hunt.at, query |-> hunt.query, cursor |-> hunt.cursor, seen |-> hunt.seen, kept |-> hunt.kept]
        /\ hunt.at \in {"paging", "done"}
        /\ hunt.query.limit \in Nat \ {0} /\ Understood(hunt.query)
        /\ SeenOf(hunt.query, hunt.seen)
        /\ HeldOf(hunt.kept)
        /\ hunt.at = "paging" => OpenAt(hunt.query, hunt.seen, hunt.cursor, hunt.kept)
        /\ hunt.at = "done" => \A row \in hunt.kept : asks(hunt.query, row) => listed(hunt.seen, row)

-----------------------------------------------------------------------------
\* The order of a page is strict and total on rows that it tells apart.
LEMMA OrderIsStrict ==
  /\ \A r, s \in StoredEvents : before(r, s) => ~before(s, r) /\ r # s
  /\ \A r, s, t \in StoredEvents : before(r, s) /\ before(s, t) => before(r, t)
  /\ \A r, s \in StoredEvents : r.id # s.id => before(r, s) \/ before(s, r)
<1>1. \A r \in StoredEvents : r.time \in Nat /\ r.id \in Nat
  BY HuntAssumption
<1> QED
  BY <1>1 DEF before

\* A row is behind those that come before one that comes before it, and
\* behind that one: its rank is higher.
LEMMA RankGrows ==
  ASSUME NEW rows, Told(rows), NEW r \in rows, NEW s \in rows, before(r, s)
  PROVE  place(r, rows) \in 1 .. Cardinality(rows) /\ place(r, rows) < place(s, rows)
<1> DEFINE A == {x \in rows : before(x, r)}
           B == {x \in rows : before(x, s)}
<1>0. rows \subseteq StoredEvents /\ IsFiniteSet(rows)
  BY DEF Told
<1>1. A \subseteq B /\ r \in B \ A
  BY <1>0, OrderIsStrict
<1>2. B \subseteq rows
  OBVIOUS
<1>3. place(r, rows) = Cardinality(A) + 1 /\ place(s, rows) = Cardinality(B) + 1
  BY DEF place
<1> HIDE DEF A, B
<1>4. IsFiniteSet(B) /\ Cardinality(B) \in Nat /\ Cardinality(B) <= Cardinality(rows) /\ Cardinality(rows) \in Nat
  BY <1>0, <1>2, FS_Subset, FS_CardinalityType
<1>5. IsFiniteSet(A) /\ Cardinality(A) \in Nat /\ Cardinality(A) <= Cardinality(B) /\ Cardinality(A) # Cardinality(B)
  BY <1>1, <1>4, FS_Subset, FS_CardinalityType
<1> QED
  BY <1>3, <1>4, <1>5

\* The ranks of rows are the numbers up to how many there are, each once.
LEMMA RankFinds ==
  ASSUME NEW rows, Told(rows)
  PROVE  /\ Cardinality(rows) \in Nat
         /\ \A i \in 1 .. Cardinality(rows) : \E r \in rows : place(r, rows) = i
         /\ \A r \in rows : place(r, rows) \in 1 .. Cardinality(rows)
         /\ \A r, s \in rows : before(r, s) => place(r, rows) < place(s, rows)
         /\ \A r, s \in rows : r # s => before(r, s) \/ before(s, r)
<1> DEFINE n == Cardinality(rows)
           f == [r \in rows |-> place(r, rows)]
<1>0. rows \subseteq StoredEvents /\ IsFiniteSet(rows) /\ n \in Nat
  BY FS_CardinalityType DEF Told
<1>1. \A r \in rows : place(r, rows) \in 1 .. n
  <2> SUFFICES ASSUME NEW r \in rows PROVE place(r, rows) \in 1 .. n
    OBVIOUS
  <2> DEFINE A == {x \in rows : before(x, r)}
  <2>1. A \subseteq rows /\ r \in rows \ A
    BY <1>0, OrderIsStrict
  <2>2. place(r, rows) = Cardinality(A) + 1
    BY DEF place
  <2> HIDE DEF A
  <2>3. Cardinality(A) \in Nat /\ Cardinality(A) <= n /\ Cardinality(A) # n
    BY <1>0, <2>1, FS_Subset, FS_CardinalityType
  <2> QED
    BY <1>0, <2>2, <2>3
<1>2. \A r, s \in rows : before(r, s) => place(r, rows) < place(s, rows)
  BY RankGrows
<1>3. \A r, s \in rows : r # s => before(r, s) \/ before(s, r)
  BY <1>0, OrderIsStrict DEF Told
<1>4. \A r, s \in rows : r # s => place(r, rows) # place(s, rows)
  <2> SUFFICES ASSUME NEW r \in rows, NEW s \in rows, r # s PROVE place(r, rows) # place(s, rows)
    OBVIOUS
  <2>1. place(r, rows) < place(s, rows) \/ place(s, rows) < place(r, rows)
    BY <1>2, <1>3
  <2>2. place(r, rows) \in Nat /\ place(s, rows) \in Nat
    BY <1>1
  <2> QED
    BY <2>1, <2>2
<1>5. f \in Injection(rows, 1 .. n)
  BY <1>1, <1>4 DEF Injection, IsInjective
<1>6. IsFiniteSet(1 .. n) /\ Cardinality(1 .. n) = n
  BY <1>0, FS_Interval
<1>7. f \in Surjection(rows, 1 .. n)
  <2> HIDE DEF f
  <2> QED
    BY <1>5, <1>6, FS_Injection
<1>8. \A i \in 1 .. n : \E r \in rows : place(r, rows) = i
  BY <1>7 DEF Surjection
<1> QED
  BY <1>0, <1>1, <1>2, <1>3, <1>8

\* A page holds the first rows in order, and tells where it ends when there
\* are more.
LEMMA PageIsFirst ==
  ASSUME NEW q, q.limit \in Nat \ {0}, NEW cursor, Told(matching(q, cursor))
  PROVE  LET rows == matching(q, cursor) items == page(q, cursor).items IN
         /\ items \in Seq(rows)
         /\ \A i \in 1 .. Len(items) - 1 : before(items[i], items[i + 1])
         /\ page(q, cursor).cursor = {} => \A r \in rows : \E i \in 1 .. Len(items) : items[i] = r
         /\ page(q, cursor).cursor # {} =>
               /\ Len(items) > 0 /\ page(q, cursor).cursor = endOf(items)
               /\ \A r \in rows : (\E i \in 1 .. Len(items) : items[i] = r) \/ before(items[Len(items)], r)
<1> DEFINE rows == matching(q, cursor)
           more == Cardinality(rows) > q.limit
           count == IF more THEN q.limit ELSE Cardinality(rows)
           items == [i \in 1 .. count |-> CHOOSE row \in rows : place(row, rows) = i]
           found == page(q, cursor)
<1>1. found = [items |-> items, cursor |-> IF more THEN {[time |-> items[count].time, id |-> items[count].id]} ELSE {}]
  BY DEF page
<1>2. Told(rows)
  OBVIOUS
<1> HIDE DEF rows
<1>3. /\ Cardinality(rows) \in Nat
      /\ \A i \in 1 .. Cardinality(rows) : \E r \in rows : place(r, rows) = i
      /\ \A r \in rows : place(r, rows) \in 1 .. Cardinality(rows)
      /\ \A r, s \in rows : before(r, s) => place(r, rows) < place(s, rows)
      /\ \A r, s \in rows : r # s => before(r, s) \/ before(s, r)
  BY <1>2, RankFinds
<1>4. count \in Nat /\ count <= Cardinality(rows) /\ (more => count > 0) /\ (~more => count = Cardinality(rows))
  BY <1>3
<1>5. \A i \in 1 .. count : items[i] \in rows /\ place(items[i], rows) = i
  <2> SUFFICES ASSUME NEW i \in 1 .. count PROVE items[i] \in rows /\ place(items[i], rows) = i
    OBVIOUS
  <2>1. \E r \in rows : place(r, rows) = i
    BY <1>3, <1>4
  <2>2. items[i] = CHOOSE row \in rows : place(row, rows) = i
    OBVIOUS
  <2> HIDE DEF items
  <2> QED
    BY <2>1, <2>2
<1>6. items \in [1 .. count -> rows]
  <2>1. items = [i \in 1 .. count |-> items[i]]
    OBVIOUS
  <2> HIDE DEF items
  <2> QED
    BY <1>5, <2>1
<1> HIDE DEF items, count, more
<1>7. items \in Seq(rows) /\ Len(items) = count
  BY <1>4, <1>6
<1>8. \A r, s \in rows : place(r, rows) < place(s, rows) => before(r, s)
  <2> SUFFICES ASSUME NEW r \in rows, NEW s \in rows, place(r, rows) < place(s, rows) PROVE before(r, s)
    OBVIOUS
  <2>1. place(r, rows) \in Nat /\ place(s, rows) \in Nat
    BY <1>3
  <2>2. r # s /\ ~(place(s, rows) < place(r, rows))
    BY <2>1
  <2> QED
    BY <2>2, <1>3
<1>9. \A r \in rows : place(r, rows) \in 1 .. count => \E i \in 1 .. count : items[i] = r
  <2> SUFFICES ASSUME NEW r \in rows, place(r, rows) \in 1 .. count PROVE items[place(r, rows)] = r
    OBVIOUS
  <2>1. items[place(r, rows)] \in rows /\ place(items[place(r, rows)], rows) = place(r, rows)
    BY <1>5
  <2>2. place(r, rows) \in Nat
    OBVIOUS
  <2> QED
    BY <2>1, <2>2, <1>3
<1>10. \A i \in 1 .. count - 1 : before(items[i], items[i + 1])
  BY <1>4, <1>5, <1>8
<1>11. found.cursor = {} => ~more
  <2>1. found.cursor = IF more THEN {[time |-> items[count].time, id |-> items[count].id]} ELSE {}
    BY <1>1
  <2>2. \A c : {c} # {}
    OBVIOUS
  <2> QED
    BY <2>1, <2>2
<1>12. found.cursor # {} => more /\ found.cursor = endOf(items)
  BY <1>1, <1>7 DEF endOf
<1>13. \A r \in rows : (\E i \in 1 .. count : items[i] = r) \/ (count > 0 => before(items[count], r))
  <2> SUFFICES ASSUME NEW r \in rows, place(r, rows) \notin 1 .. count, count > 0 PROVE before(items[count], r)
    BY <1>9
  <2>1. place(r, rows) > count
    BY <1>3, <1>4
  <2> QED
    BY <2>1, <1>4, <1>5, <1>8
<1>14. found.items = items
  BY <1>1
<1> QED
  BY <1>3, <1>4, <1>7, <1>9, <1>10, <1>11, <1>12, <1>13, <1>14 DEF rows

\* The rows a read shows are one for each id.
LEMMA VisibleIsTold ==
  ASSUME RowsType
  PROVE  /\ visible \subseteq eventRows
         /\ \A rows \in SUBSET visible : Told(rows)
<1>1. visible \subseteq eventRows
  BY DEF visible
<1>2. \A r, s \in visible : r.id = s.id => r = s
  <2> SUFFICES ASSUME NEW r \in visible, NEW s \in visible, r.id = s.id PROVE r = s
    OBVIOUS
  <2>1. r.version <= s.version /\ s.version <= r.version
    BY DEF visible
  <2>2. r \in StoredEvents /\ s \in StoredEvents
    BY <1>1 DEF RowsType
  <2>3. r.version \in Nat /\ s.version \in Nat
    BY <2>2, HuntAssumption
  <2>4. r.version = s.version
    BY <2>1, <2>3
  <2> QED
    BY <2>2, <2>4, HuntAssumption
<1>3. \A rows \in SUBSET visible : IsFiniteSet(rows)
  BY <1>1, FS_Subset DEF RowsType
<1> QED
  BY <1>1, <1>2, <1>3 DEF Told, RowsType

\* An event that has a row is shown: among its rows, which are finitely many,
\* one has the highest version.
LEMMA StoredIsVisible ==
  ASSUME RowsType, NEW r \in eventRows
  PROVE  \E v \in visible : v.id = r.id
<1> DEFINE G == {s \in eventRows : s.id = r.id}
           above(x) == {s \in G : s.version > x.version}
           T == {Cardinality(above(x)) : x \in G}
<1>0. G \subseteq eventRows /\ r \in G
  OBVIOUS
<1>1. IsFiniteSet(G)
  BY <1>0, FS_Subset DEF RowsType
<1>2. \A x \in G : x.version \in Nat
  BY HuntAssumption DEF RowsType
<1>3. \A x \in G : above(x) \subseteq G
  OBVIOUS
<1> HIDE DEF G
<1>4. \A x \in G : IsFiniteSet(above(x)) /\ Cardinality(above(x)) \in Nat
  <2> SUFFICES ASSUME NEW x \in G PROVE IsFiniteSet(above(x)) /\ Cardinality(above(x)) \in Nat
    OBVIOUS
  <2>1. above(x) \subseteq G
    OBVIOUS
  <2> HIDE DEF above
  <2> QED
    BY <2>1, <1>1, FS_Subset, FS_CardinalityType
<1>5. \A x, y \in G : y.version > x.version => Cardinality(above(y)) < Cardinality(above(x))
  <2> SUFFICES ASSUME NEW x \in G, NEW y \in G, y.version > x.version
               PROVE  Cardinality(above(y)) < Cardinality(above(x))
    OBVIOUS
  <2>1. above(y) \subseteq above(x) /\ y \in above(x) \ above(y)
    BY <1>2
  <2> HIDE DEF above
  <2>2. Cardinality(above(y)) <= Cardinality(above(x)) /\ Cardinality(above(y)) # Cardinality(above(x))
    BY <2>1, <1>4, FS_Subset
  <2> QED
    BY <2>2, <1>4
<1> HIDE DEF above
<1>6. T \subseteq Nat /\ T # {}
  BY <1>0, <1>4
<1>7. PICK n \in T : \A m \in T : n <= m
  <2> HIDE DEF T
  <2> QED
    BY <1>6, LeastNumber
<1>8. PICK v \in G : n = Cardinality(above(v))
  OBVIOUS
<1>9. \A s \in G : s.version <= v.version
  <2> SUFFICES ASSUME NEW s \in G, ~(s.version <= v.version) PROVE FALSE
    OBVIOUS
  <2>1. s.version > v.version
    BY <1>2
  <2>2. Cardinality(above(s)) < Cardinality(above(v)) /\ Cardinality(above(v)) <= Cardinality(above(s))
    BY <2>1, <1>5, <1>7, <1>8
  <2> QED
    BY <2>2, <1>4
<1> QED
  BY <1>9 DEF visible, G

\* A page after what has been seen is a continuation: still in order and
\* only what is asked, and of what has been there ever since the first page
\* all is seen or behind the new end.
LEMMA PageExtends ==
  ASSUME RowsType,
         NEW q, q.limit \in Nat \ {0}, NEW seen, SeenOf(q, seen), NEW kept, HeldOf(kept),
         NEW cursor, (seen = <<>> /\ cursor = {}) \/ OpenAt(q, seen, cursor, kept)
  PROVE  LET found == page(q, cursor) all == seen \o found.items IN
         /\ SeenOf(q, all)
         /\ found.cursor = {} => \A row \in kept : asks(q, row) => listed(all, row)
         /\ found.cursor # {} => OpenAt(q, all, found.cursor, kept)
<1> DEFINE rows == matching(q, cursor)
           found == page(q, cursor)
           items == found.items
           all == seen \o items
<1>1. rows \subseteq visible
  BY DEF matching
<1>2. Told(rows) /\ rows \subseteq StoredEvents
  BY <1>1, VisibleIsTold DEF RowsType
<1>3. /\ items \in Seq(rows)
      /\ \A i \in 1 .. Len(items) - 1 : before(items[i], items[i + 1])
      /\ found.cursor = {} => \A r \in rows : \E i \in 1 .. Len(items) : items[i] = r
      /\ found.cursor # {} =>
            /\ Len(items) > 0 /\ found.cursor = endOf(items)
            /\ \A r \in rows : (\E i \in 1 .. Len(items) : items[i] = r) \/ before(items[Len(items)], r)
  BY <1>2, PageIsFirst
<1>4. \A r \in rows : asks(q, r) /\ (Len(seen) > 0 => before(seen[Len(seen)], r))
  <2> SUFFICES ASSUME NEW r \in rows PROVE asks(q, r) /\ (Len(seen) > 0 => before(seen[Len(seen)], r))
    OBVIOUS
  <2>1. asks(q, r) /\ afterCursor(r, cursor)
    BY DEF matching, asks
  <2>2. CASE seen = <<>>
    BY <2>1, <2>2
  <2>3. CASE seen # <<>>
    <3>1. cursor = endOf(seen)
      BY <2>3 DEF OpenAt
    <3> QED
      BY <2>1, <3>1 DEF afterCursor, endOf, before
  <2> QED
    BY <2>2, <2>3
<1>5. \A row \in kept : asks(q, row) =>
         \/ listed(seen, row)
         \/ \E v \in rows : v.id = row.id /\ v.time = row.time
  <2> SUFFICES ASSUME NEW row \in kept, asks(q, row), ~listed(seen, row)
               PROVE  \E v \in rows : v.id = row.id /\ v.time = row.time
    OBVIOUS
  <2>1. PICK r \in eventRows : r.id = row.id
    BY DEF HeldOf
  <2>2. PICK v \in visible : v.id = row.id
    BY <2>1, StoredIsVisible
  <2>3. v \in StoredEvents /\ row \in StoredEvents
    BY VisibleIsTold DEF RowsType, HeldOf
  <2>4. v.time = row.time /\ v.fields = row.fields
    BY <2>2, <2>3, HuntAssumption
  <2>5. afterCursor(v, cursor)
    <3>1. CASE cursor = {}
      BY <3>1 DEF afterCursor
    <3>2. CASE OpenAt(q, seen, cursor, kept)
      <4>1. before(seen[Len(seen)], row) /\ cursor = endOf(seen)
        BY <3>2 DEF OpenAt
      <4> QED
        BY <4>1, <2>2, <2>4 DEF afterCursor, endOf, before
    <3> QED
      BY <3>1, <3>2
  <2>6. v \in rows
    BY <2>2, <2>4, <2>5 DEF matching, asks
  <2> QED
    BY <2>2, <2>4, <2>6
<1> HIDE DEF found, rows
<1>6. items \in Seq(StoredEvents) /\ seen \in Seq(StoredEvents)
  BY <1>2, <1>3 DEF SeenOf
<1>7. \A i \in 1 .. Len(items) : items[i] \in rows
  BY <1>3
<1> HIDE DEF items
<1>8. /\ all \in Seq(StoredEvents)
      /\ Len(all) = Len(seen) + Len(items)
      /\ Len(seen) \in Nat /\ Len(items) \in Nat
      /\ \A i \in 1 .. Len(seen) : all[i] = seen[i]
      /\ \A i \in 1 .. Len(items) : all[Len(seen) + i] = items[i]
  BY <1>6
<1> HIDE DEF all
<1>9. \A i \in 1 .. Len(all) : asks(q, all[i])
  <2> SUFFICES ASSUME NEW i \in 1 .. Len(all) PROVE asks(q, all[i])
    OBVIOUS
  <2>1. CASE i <= Len(seen)
    BY <2>1, <1>8 DEF SeenOf
  <2>2. CASE i > Len(seen)
    <3>1. i - Len(seen) \in 1 .. Len(items) /\ i = Len(seen) + (i - Len(seen))
      BY <2>2, <1>8
    <3>2. all[i] = items[i - Len(seen)]
      BY <3>1, <1>8
    <3> QED
      BY <3>1, <3>2, <1>4, <1>7
  <2> QED
    BY <2>1, <2>2, <1>8
<1>10. \A i \in 1 .. Len(all) - 1 : before(all[i], all[i + 1])
  <2> SUFFICES ASSUME NEW i \in 1 .. Len(all) - 1 PROVE before(all[i], all[i + 1])
    OBVIOUS
  <2>1. CASE i < Len(seen)
    <3>1. i \in 1 .. Len(seen) - 1 /\ all[i] = seen[i] /\ all[i + 1] = seen[i + 1]
      BY <2>1, <1>8
    <3> QED
      BY <3>1 DEF SeenOf
  <2>2. CASE i = Len(seen)
    <3>1. 1 \in 1 .. Len(items) /\ Len(seen) > 0 /\ all[i] = seen[Len(seen)] /\ all[i + 1] = items[1]
      BY <2>2, <1>8
    <3> QED
      BY <3>1, <1>4, <1>7
  <2>3. CASE i > Len(seen)
    <3> DEFINE j == i - Len(seen)
    <3>1. j \in 1 .. Len(items) - 1 /\ i = Len(seen) + j /\ i + 1 = Len(seen) + (j + 1)
      BY <2>3, <1>8
    <3> HIDE DEF j
    <3>2. j \in 1 .. Len(items) /\ j + 1 \in 1 .. Len(items)
      BY <3>1, <1>8
    <3>3. all[Len(seen) + j] = items[j] /\ all[Len(seen) + (j + 1)] = items[j + 1]
      BY <3>2, <1>8
    <3> QED
      BY <3>1, <3>3, <1>3
  <2> QED
    BY <2>1, <2>2, <2>3, <1>8
<1>11. \A row : listed(seen, row) => listed(all, row)
  BY <1>8 DEF listed
<1>12. \A row, i : i \in 1 .. Len(items) /\ items[i].id = row.id => listed(all, row)
  <2> SUFFICES ASSUME NEW row, NEW i \in 1 .. Len(items), items[i].id = row.id PROVE listed(all, row)
    OBVIOUS
  <2>1. Len(seen) + i \in 1 .. Len(all) /\ all[Len(seen) + i].id = row.id
    BY <1>8
  <2> QED
    BY <2>1 DEF listed
<1>13. found.cursor = {} => \A row \in kept : asks(q, row) => listed(all, row)
  <2> SUFFICES ASSUME found.cursor = {}, NEW row \in kept, asks(q, row), ~listed(seen, row) PROVE listed(all, row)
    BY <1>11
  <2>1. PICK v \in rows : v.id = row.id
    BY <1>5
  <2>2. PICK i \in 1 .. Len(items) : items[i] = v
    BY <1>3, <2>1
  <2> QED
    BY <2>1, <2>2, <1>12
<1>14. found.cursor # {} => OpenAt(q, all, found.cursor, kept)
  <2> SUFFICES ASSUME found.cursor # {} PROVE OpenAt(q, all, found.cursor, kept)
    OBVIOUS
  <2>1. Len(items) > 0 /\ Len(all) > 0 /\ all[Len(all)] = items[Len(items)]
    BY <1>3, <1>8
  <2>2. found.cursor = endOf(all)
    BY <2>1, <1>3 DEF endOf
  <2>3. ASSUME NEW row \in kept, asks(q, row)
        PROVE  listed(all, row) \/ before(all[Len(all)], row)
    <3>1. CASE listed(seen, row)
      BY <3>1, <1>11
    <3>2. CASE ~listed(seen, row)
      <4>1. PICK v \in rows : v.id = row.id /\ v.time = row.time
        BY <3>2, <2>3, <1>5
      <4>2. CASE \E i \in 1 .. Len(items) : items[i] = v
        BY <4>1, <4>2, <1>12
      <4>3. CASE before(items[Len(items)], v)
        BY <4>1, <4>3, <2>1 DEF before
      <4> QED
        BY <1>3, <4>2, <4>3
    <3> QED
      BY <3>1, <3>2
  <2> QED
    BY <2>1, <2>2, <2>3 DEF OpenAt
<1> QED
  BY <1>8, <1>9, <1>10, <1>13, <1>14 DEF SeenOf, found, items, all

-----------------------------------------------------------------------------
\* A hunt has not begun, and nothing is stored.
LEMMA HuntInvInit == HuntInit => HuntInv
<1> SUFFICES ASSUME HuntInit PROVE HuntInv
  OBVIOUS
<1>1. RowsType
  BY FS_EmptySet DEF HuntInit, RowsType
<1> QED
  BY <1>1 DEF HuntInit, HuntInv

\* Storing an event leaves the hunt alone, and what it relies on in place.
LEMMA StoringKeepsHunt ==
  ASSUME HuntInv, NEW w \in HuntWriters, (\E event \in StoredEvents : PutEvent(w, event)) \/ InsertEvent(w)
  PROVE  HuntInv'
<1>1. CASE \E event \in StoredEvents : PutEvent(w, event)
  <2>1. PICK event \in StoredEvents : PutEvent(w, event)
    BY <1>1
  <2>2. eventRows' = eventRows /\ hunt' = hunt
    BY <2>1 DEF PutEvent
  <2>3. putting' \in [HuntWriters -> {{}} \cup {{e} : e \in StoredEvents}]
    BY <2>1 DEF PutEvent, HuntInv
  <2> QED
    BY <2>2, <2>3 DEF HuntInv, RowsType, HeldOf
<1>2. CASE InsertEvent(w)
  <2>1. eventRows' = eventRows \cup putting[w] /\ hunt' = hunt
    BY <1>2 DEF InsertEvent
  <2>2. putting' \in [HuntWriters -> {{}} \cup {{e} : e \in StoredEvents}]
    BY <1>2 DEF InsertEvent, HuntInv
  <2>3. putting[w] \in {{}} \cup {{e} : e \in StoredEvents}
    BY DEF HuntInv
  <2>4. putting[w] \subseteq StoredEvents /\ IsFiniteSet(putting[w])
    <3>1. CASE putting[w] = {}
      BY <3>1, FS_EmptySet
    <3>2. CASE putting[w] # {}
      <4>1. PICK e \in StoredEvents : putting[w] = {e}
        BY <2>3, <3>2
      <4> QED
        BY <4>1, FS_Singleton
    <3> QED
      BY <3>1, <3>2
  <2>5. RowsType'
    BY <2>1, <2>4, FS_Union DEF HuntInv, RowsType
  <2>6. \A kept : HeldOf(kept) => HeldOf(kept)'
    BY <2>1 DEF HeldOf
  <2> QED
    BY <2>1, <2>2, <2>5, <2>6 DEF HuntInv
<1> QED
  BY <1>1, <1>2

\* An event that expires has been there no longer ever since the first page.
LEMMA ExpiryKeepsHunt ==
  ASSUME HuntInv, NEW id, Expires(id)
  PROVE  HuntInv'
<1>1. PICK left : left = {row \in hunt.kept : row.id # id}
  OBVIOUS
<1>2. /\ eventRows' = {row \in eventRows : row.id # id}
      /\ putting' = putting /\ hunt.at = "paging"
      /\ hunt' = [hunt EXCEPT !.kept = left]
  BY <1>1 DEF Expires
<1>3. hunt # NoHunt
  BY <1>2 DEF NoHunt
<1>4. /\ hunt = [at |-> hunt.at, query |-> hunt.query, cursor |-> hunt.cursor, seen |-> hunt.seen, kept |-> hunt.kept]
      /\ hunt.query.limit \in Nat \ {0} /\ Understood(hunt.query)
      /\ SeenOf(hunt.query, hunt.seen) /\ HeldOf(hunt.kept)
      /\ OpenAt(hunt.query, hunt.seen, hunt.cursor, hunt.kept)
  BY <1>2, <1>3 DEF HuntInv
<1>5. hunt' = [at |-> "paging", query |-> hunt.query, cursor |-> hunt.cursor, seen |-> hunt.seen, kept |-> left]
  BY <1>2, <1>4
<1>6. RowsType'
  BY <1>2, FS_Subset DEF HuntInv, RowsType
<1>7. HeldOf(left)'
  BY <1>1, <1>2, <1>4 DEF HeldOf
<1>8. OpenAt(hunt.query, hunt.seen, hunt.cursor, left)
  BY <1>1, <1>4 DEF OpenAt
<1>9. HeldOf(hunt.kept)'
  BY <1>5, <1>7 DEF HeldOf
<1> QED
  BY <1>2, <1>4, <1>5, <1>6, <1>8, <1>9 DEF HuntInv

\* A page after what has been seen carries on with it.
LEMMA PageKeepsHunt ==
  ASSUME HuntInv, UNCHANGED <<eventRows, putting>>,
         NEW q, q.limit \in Nat \ {0}, Understood(q),
         NEW seen, SeenOf(q, seen), NEW kept, HeldOf(kept),
         NEW cursor, (seen = <<>> /\ cursor = {}) \/ OpenAt(q, seen, cursor, kept),
         hunted(q, page(q, cursor), seen, kept)
  PROVE  HuntInv'
<1>1. \E found, all :
         /\ hunt' = [at |-> IF found.cursor = {} THEN "done" ELSE "paging", query |-> q,
                     cursor |-> found.cursor, seen |-> all, kept |-> kept]
         /\ SeenOf(q, all)
         /\ found.cursor = {} => \A row \in kept : asks(q, row) => listed(all, row)
         /\ found.cursor # {} => OpenAt(q, all, found.cursor, kept)
  <2> DEFINE found == page(q, cursor)
             all == seen \o found.items
  <2>1. RowsType
    BY DEF HuntInv
  <2>2. /\ SeenOf(q, all)
        /\ found.cursor = {} => \A row \in kept : asks(q, row) => listed(all, row)
        /\ found.cursor # {} => OpenAt(q, all, found.cursor, kept)
    BY <2>1, PageExtends
  <2>3. hunt' = [at |-> IF found.cursor = {} THEN "done" ELSE "paging", query |-> q,
                 cursor |-> found.cursor, seen |-> all, kept |-> kept]
    BY DEF hunted
  <2> HIDE DEF found, all
  <2> QED
    BY <2>2, <2>3
<1>2. PICK found, all :
         /\ hunt' = [at |-> IF found.cursor = {} THEN "done" ELSE "paging", query |-> q,
                     cursor |-> found.cursor, seen |-> all, kept |-> kept]
         /\ SeenOf(q, all)
         /\ found.cursor = {} => \A row \in kept : asks(q, row) => listed(all, row)
         /\ found.cursor # {} => OpenAt(q, all, found.cursor, kept)
  BY <1>1
<1>3. eventRows' = eventRows /\ putting' = putting
  OBVIOUS
<1>4. RowsType' /\ HeldOf(kept)'
  BY <1>3 DEF HuntInv, RowsType, HeldOf
<1>5. /\ hunt'.at = IF found.cursor = {} THEN "done" ELSE "paging"
      /\ hunt'.query = q /\ hunt'.cursor = found.cursor /\ hunt'.seen = all /\ hunt'.kept = kept
      /\ hunt' = [at |-> hunt'.at, query |-> hunt'.query, cursor |-> hunt'.cursor, seen |-> hunt'.seen, kept |-> hunt'.kept]
  BY <1>2
<1>6. /\ hunt'.at \in {"paging", "done"}
      /\ hunt'.at = "paging" => found.cursor # {}
      /\ hunt'.at = "done" => found.cursor = {}
  BY <1>5
<1>7. putting' \in [HuntWriters -> {{}} \cup {{e} : e \in StoredEvents}]
  BY <1>3 DEF HuntInv
<1>8. hunt'.at = "paging" => OpenAt(hunt'.query, hunt'.seen, hunt'.cursor, hunt'.kept)
  BY <1>2, <1>5, <1>6
<1>9. hunt'.at = "done" => \A row \in hunt'.kept : asks(hunt'.query, row) => listed(hunt'.seen, row)
  BY <1>2, <1>5, <1>6
<1>10. SeenOf(hunt'.query, hunt'.seen) /\ hunt'.query.limit \in Nat \ {0} /\ Understood(hunt'.query)
  BY <1>2, <1>5
<1>11. HeldOf(hunt.kept)'
  BY <1>4, <1>5 DEF HeldOf
<1> QED
  BY <1>4, <1>5, <1>6, <1>7, <1>8, <1>9, <1>10, <1>11 DEF HuntInv

\* A first page begins with nothing seen, and a next one where the last ended.
LEMMA PagesKeepHunt ==
  ASSUME HuntInv, (\E q \in HuntRequests, now \in HuntTimes : searchHunt(q, now)) \/ nextPage
  PROVE  HuntInv'
<1>1. CASE \E q \in HuntRequests, now \in HuntTimes : searchHunt(q, now)
  <2>1. PICK q \in HuntRequests, now \in HuntTimes : searchHunt(q, now)
    BY <1>1
  <2>2. PICK n \in Normalize(q, now) : hunted(n, page(n, {}), <<>>, visible)
    BY <2>1 DEF searchHunt
  <2>3. n.limit \in Nat \ {0} /\ Understood(n)
    <3>1. n.limit = q.limit /\ n.expression = q.expression /\ \A x \in q.expression : Accepts(x)
      BY <2>2 DEF Normalize
    <3>2. q.limit \in Nat \ {0}
      BY HuntAssumption
    <3> QED
      BY <3>1, <3>2, HuntAssumption DEF Understood
  <2>4. UNCHANGED <<eventRows, putting>> /\ RowsType
    BY <2>1 DEF searchHunt, HuntInv
  <2>5. SeenOf(n, <<>>)
    BY DEF SeenOf
  <2>6. PICK kept : kept = visible
    OBVIOUS
  <2>7. HeldOf(kept)
    BY <2>4, <2>6, VisibleIsTold DEF HeldOf, RowsType
  <2>8. hunted(n, page(n, {}), <<>>, kept)
    BY <2>2, <2>6
  <2> QED
    BY <2>3, <2>4, <2>5, <2>7, <2>8, PageKeepsHunt
<1>2. CASE nextPage
  <2>1. hunt # NoHunt /\ hunt.at = "paging"
    BY <1>2 DEF nextPage, NoHunt
  <2>2. PICK q, seen, cursor, kept : q = hunt.query /\ seen = hunt.seen /\ cursor = hunt.cursor /\ kept = hunt.kept
    OBVIOUS
  <2>3. q.limit \in Nat \ {0} /\ Understood(q) /\ SeenOf(q, seen) /\ HeldOf(kept) /\ OpenAt(q, seen, cursor, kept)
    BY <2>1, <2>2 DEF HuntInv
  <2>4. UNCHANGED <<eventRows, putting>> /\ hunted(q, page(q, cursor), seen, kept)
    BY <1>2, <2>2 DEF nextPage
  <2> QED
    BY <2>3, <2>4, PageKeepsHunt
<1> QED
  BY <1>1, <1>2

\* Every step keeps the invariant.
LEMMA HuntInvNext ==
  ASSUME HuntInv, [HuntNext]_huntVars
  PROVE  HuntInv'
<1>1. CASE \E w \in HuntWriters : (\E event \in StoredEvents : PutEvent(w, event)) \/ InsertEvent(w)
  BY <1>1, StoringKeepsHunt
<1>2. CASE \E row \in eventRows : Expires(row.id)
  <2>1. PICK id : Expires(id)
    BY <1>2
  <2> QED
    BY <2>1, ExpiryKeepsHunt
<1>3. CASE (\E q \in HuntRequests, now \in HuntTimes : searchHunt(q, now)) \/ nextPage
  BY <1>3, PagesKeepHunt
<1>4. CASE UNCHANGED huntVars
  BY <1>4 DEF huntVars, HuntInv, RowsType, HeldOf
<1> QED
  BY <1>1, <1>2, <1>3, <1>4 DEF HuntNext

\* The invariant says that a hunt is complete.
LEMMA HuntInvCompletes == HuntInv => HuntIsComplete
<1> SUFFICES ASSUME HuntInv, hunt.at \in {"paging", "done"} PROVE HuntIsComplete
  BY DEF HuntIsComplete
<1>1. hunt # NoHunt
  BY DEF NoHunt
<1>2. /\ SeenOf(hunt.query, hunt.seen) /\ HeldOf(hunt.kept) /\ Understood(hunt.query)
      /\ hunt.at = "done" => \A row \in hunt.kept : asks(hunt.query, row) => listed(hunt.seen, row)
  BY <1>1 DEF HuntInv
<1>3. DOMAIN hunt.seen = 1 .. Len(hunt.seen) /\ \A i \in DOMAIN hunt.seen : hunt.seen[i] \in StoredEvents
  BY <1>2 DEF SeenOf
<1>4. \A row \in StoredEvents : wanted(row) <=> asks(hunt.query, row)
  BY <1>2 DEF wanted, asks, Understood
<1>5. hunt.kept \subseteq StoredEvents
  BY <1>2 DEF HeldOf
<1>6. \A i \in 1 .. Len(hunt.seen) - 1 : before(hunt.seen[i], hunt.seen[i + 1])
  BY <1>2 DEF SeenOf
<1>7. \A i \in DOMAIN hunt.seen : wanted(hunt.seen[i])
  BY <1>2, <1>3, <1>4 DEF SeenOf
<1>8. hunt.at = "done" => \A row \in hunt.kept : wanted(row) => \E i \in DOMAIN hunt.seen : hunt.seen[i].id = row.id
  BY <1>2, <1>3, <1>4, <1>5 DEF listed
<1> QED
  BY <1>6, <1>7, <1>8 DEF HuntIsComplete

\* However events are stored, stored twice and expire between the pages of a
\* hunt, for any queries that are compiled to what they mean, limits and times,
\* HuntEvents' pages run backwards in time, repeat nothing, hold only what the
\* query means and in the end all of it that was there from the first page on.
THEOREM HuntStaysComplete == HuntSpec => []HuntIsComplete
<1>1. HuntInv /\ [HuntNext]_huntVars => HuntInv'
  BY HuntInvNext
<1> QED
  BY HuntInvInit, <1>1, HuntInvCompletes, PTL DEF HuntSpec
=============================================================================
