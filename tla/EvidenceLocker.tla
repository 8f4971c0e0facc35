---------------------------- MODULE EvidenceLocker ----------------------------
(***************************************************************************)
(* One evidence upload, identified by its idempotency key: the row that    *)
(* reserves it, the immutable object, and the chain of custody.            *)
(* internal/evidence/service.go, blob.go, internal/store/evidence.go,      *)
(* internal/httpapi/evidence.go.  Row and object live in two systems; a    *)
(* client whose upload failed repeats it with the same key.  The hash of a *)
(* custody entry is the entry's own name: entries have fresh ids.          *)
(***************************************************************************)
EXTENDS Integers, Sequences

CONSTANTS
    Uploaders,        \* requests with this key, also by different clients
    Contents,         \* what they carry
    MaxCustody        \* bound on the chain

VARIABLES
    evidenceRow,      \* evidence_items: [status, content, verified, head]
    blob,             \* the object under the key of the row: content or {}
    custody,          \* evidence_custody_entries, by sequence
    upload,           \* uploader -> the request in progress
    uploadedOk,       \* contents whose upload was answered with success
    custodyCheck,     \* VerifyEvidenceCustody: what it has read so far
    checkResult       \* its last answer: "", "valid", "invalid", "raced"

evidenceVars == <<evidenceRow, blob, custody, upload, uploadedOk, custodyCheck, checkResult>>

NoRow == [status |-> "ABSENT"]
NoUpload == [at |-> "idle"]
NoCheck == [at |-> "idle"]

EvidenceInit ==
    /\ evidenceRow = NoRow /\ blob = {} /\ custody = <<>>
    /\ upload = [u \in Uploaders |-> NoUpload]
    /\ uploadedOk = {} /\ custodyCheck = NoCheck /\ checkResult = ""

uploadGoes(u, call) == upload' = [upload EXCEPT ![u] = call]

(* The row is locked, the entry points to the head and becomes the head.   *)
appendEvidenceCustody(row, action) ==
    LET id == Len(custody) + 1 IN
    /\ Len(custody) < MaxCustody
    /\ custody' = Append(custody, [id |-> id, action |-> action, previous |-> row.head])
    /\ evidenceRow' = [row EXCEPT !.head = id]

-----------------------------------------------------------------------------
(* Upload, once the content is spooled and hashed: the insert reserves the *)
(* key, or finds who did.                                                  *)
ReserveEvidence(u, content) ==
    /\ upload[u].at = "idle" /\ evidenceRow = NoRow
    /\ appendEvidenceCustody([status |-> "PENDING", content |-> content, verified |-> FALSE, head |-> 0], "reserved")
    /\ uploadGoes(u, [at |-> "reserved", content |-> content])
    /\ UNCHANGED <<blob, uploadedOk, custodyCheck, checkResult>>

anyContent(content) == TRUE
sameContent(content) == evidenceRow.content = content

(* Another content under the key, and a key whose upload failed, are       *)
(* errors and change nothing.                                              *)
repeatUpload(u, content) ==
    /\ upload[u].at = "idle" /\ evidenceRow # NoRow
    /\ sameContent(content)
    /\ \/ evidenceRow.status = "AVAILABLE" /\ uploadGoes(u, [at |-> "finalized", content |-> content])
       \/ evidenceRow.status = "PENDING" /\ uploadGoes(u, [at |-> "pending", content |-> content])
    /\ UNCHANGED <<evidenceRow, blob, custody, uploadedOk, custodyCheck, checkResult>>

Put(u) ==
    /\ upload[u].at = "reserved"
    /\ blob' = {upload[u].content}
    /\ uploadGoes(u, [upload[u] EXCEPT !.at = "evidence.uploaded"])
    /\ UNCHANGED <<evidenceRow, custody, uploadedOk, custodyCheck, checkResult>>

(* Put reports an error; the object may be there all the same.             *)
putFails(u) ==
    /\ upload[u].at = "reserved"
    /\ blob' \in {blob, {upload[u].content}}
    /\ uploadGoes(u, [upload[u] EXCEPT !.at = "failing"])
    /\ UNCHANGED <<evidenceRow, custody, uploadedOk, custodyCheck, checkResult>>

(* A pending upload of somebody else is completed if its object is there.  *)
Stat(u) ==
    /\ upload[u].at = "pending"
    /\ uploadGoes(u, IF blob # {} THEN [upload[u] EXCEPT !.at = "evidence.recovered"] ELSE NoUpload)
    /\ UNCHANGED <<evidenceRow, blob, custody, uploadedOk, custodyCheck, checkResult>>

(* Only one of those who try takes the row out of PENDING; the others are  *)
(* told that its state is wrong.                                           *)
transitionEvidence(status, action) ==
    IF evidenceRow.status = "PENDING"
    THEN appendEvidenceCustody([evidenceRow EXCEPT !.status = status], action)
    ELSE UNCHANGED <<evidenceRow, custody>>

FinalizeEvidence(u) ==
    /\ upload[u].at \in {"evidence.uploaded", "evidence.recovered"}
    /\ transitionEvidence("AVAILABLE", upload[u].at)
    /\ uploadGoes(u, IF evidenceRow.status = "PENDING" THEN [upload[u] EXCEPT !.at = "finalized"] ELSE NoUpload)
    /\ UNCHANGED <<blob, uploadedOk, custodyCheck, checkResult>>

FailEvidence(u) ==
    /\ upload[u].at = "failing"
    /\ transitionEvidence("FAILED", "evidence.upload_failed")
    /\ uploadGoes(u, NoUpload)
    /\ UNCHANGED <<blob, uploadedOk, custodyCheck, checkResult>>

(* The audit entry is made, then the client has its answer.                *)
uploadEvidence(u) ==
    /\ upload[u].at = "finalized"
    /\ uploadedOk' = uploadedOk \cup {upload[u].content}
    /\ uploadGoes(u, NoUpload)
    /\ UNCHANGED <<evidenceRow, blob, custody, custodyCheck, checkResult>>

(* The client is gone, a database call fails or the process ends.          *)
uploadAborts(u) ==
    /\ upload[u].at # "idle"
    /\ uploadGoes(u, NoUpload)
    /\ UNCHANGED <<evidenceRow, blob, custody, uploadedOk, custodyCheck, checkResult>>

-----------------------------------------------------------------------------
(* Open: the object must be the one of the row, and the access is in the   *)
(* chain before the reader is handed out.                                  *)
Open ==
    /\ evidenceRow.status = "AVAILABLE" /\ blob = {evidenceRow.content}
    /\ appendEvidenceCustody(evidenceRow, "evidence.accessed")
    /\ UNCHANGED <<blob, upload, uploadedOk, custodyCheck, checkResult>>

Verify ==
    LET valid == blob = {evidenceRow.content} IN
    /\ evidenceRow.status = "AVAILABLE" /\ blob # {}
    /\ appendEvidenceCustody([evidenceRow EXCEPT !.verified = @ \/ valid],
                             IF valid THEN "evidence.verified" ELSE "evidence.verification_failed")
    /\ UNCHANGED <<blob, upload, uploadedOk, custodyCheck, checkResult>>

(* VerifyEvidenceCustody reads the entries, then the head: two statements. *)
ListEvidenceCustody ==
    /\ custodyCheck.at = "idle" /\ custody # <<>>
    /\ custodyCheck' = [at |-> "listed", items |-> custody]
    /\ UNCHANGED <<evidenceRow, blob, custody, upload, uploadedOk, checkResult>>

chained(items) == \A i \in DOMAIN items : items[i].previous = IF i = 1 THEN 0 ELSE items[i - 1].id

headsMatch(items) == evidenceRow.head = items[Len(items)].id

VerifyEvidenceCustody ==
    LET items == custodyCheck.items IN
    /\ custodyCheck.at = "listed"
    /\ checkResult' = IF chained(items) /\ headsMatch(items) THEN "valid" ELSE IF items # custody THEN "raced" ELSE "invalid"
    /\ custodyCheck' = NoCheck
    /\ UNCHANGED <<evidenceRow, blob, custody, upload, uploadedOk>>

EvidenceNext ==
    \/ \E u \in Uploaders :
          \/ \E content \in Contents : ReserveEvidence(u, content) \/ repeatUpload(u, content)
          \/ Put(u) \/ putFails(u) \/ Stat(u) \/ FinalizeEvidence(u) \/ FailEvidence(u)
          \/ uploadEvidence(u) \/ uploadAborts(u)
    \/ Open \/ Verify \/ ListEvidenceCustody \/ VerifyEvidenceCustody

EvidenceSpec == EvidenceInit /\ [][EvidenceNext]_evidenceVars

-----------------------------------------------------------------------------
Settlements == {"evidence.uploaded", "evidence.recovered", "evidence.upload_failed"}
settledAt == {i \in DOMAIN custody : custody[i].action \in Settlements}

(* An upload that was answered with success is available with the content  *)
(* that was sent, whoever completed it; what is available has its object;  *)
(* the chain of custody is unbroken, tells the outcome of the upload once, *)
(* and is reported as broken only when an entry was added while it was     *)
(* being checked.                                                          *)
EvidenceIsKept ==
    /\ \A content \in uploadedOk : evidenceRow.status = "AVAILABLE" /\ evidenceRow.content = content
    /\ evidenceRow.status = "AVAILABLE" => blob = {evidenceRow.content}
    /\ evidenceRow # NoRow => chained(custody) /\ headsMatch(custody)
    /\ settledAt # {} <=> evidenceRow.status \in {"AVAILABLE", "FAILED"}
    /\ \A i, j \in settledAt : i = j
    /\ checkResult # "invalid"
=============================================================================
