---------------------------- MODULE BackupRestore ----------------------------
(***************************************************************************)
(* Disaster recovery: snapshots in the backup bucket, written object by    *)
(* object, pruned object by object, and restored into targets that must    *)
(* not exist.  internal/dr, cmd/dr/main.go.  A process may end between any *)
(* two steps; its lock (flock) ends with it, its files do not.  Targets    *)
(* and work directories are named after the backup (no names configured),  *)
(* so restores of different backups share nothing: one backup is restored. *)
(* Nobody else creates databases under its names while a restore runs.     *)
(***************************************************************************)
EXTENDS Integers, Sequences, FiniteSets

CONSTANTS
    DrProcesses,        \* the scheduler and an operator's command
    MaxBackups,         \* bound: backups 1 .. MaxBackups, later is newer
    MinimumBackups,     \* kept whatever their age
    RestoredBackup      \* the backup that is restored

ASSUME BackupRestoreAssumption == MaxBackups \in Nat /\ MinimumBackups \in Nat

VARIABLES
    snapshot,      \* backup -> the objects under its prefix
    aged,          \* backups older than the retention
    drJob,         \* process -> what it is doing
    completed,     \* backups that have been complete
    target,        \* restore target -> "none", "foreign", "partial", "restored"
    workDir,       \* work directories of restores that are there, by mode
    drReport       \* the last report: "", "SUCCEEDED", "TARGET_MISSED", "FAILED"

drVars == <<snapshot, aged, drJob, completed, target, workDir, drReport>>

Backups == 1 .. MaxBackups
Targets == {"postgres", "clickhouse", "bucket"}
NoJob == [at |-> "idle"]

(* The order in which Backup puts the objects of a snapshot.               *)
UploadOrder == <<"minio", "postgres", "clickhouse", "config", "manifest.json", "manifest.hmac", "_SUCCESS">>

(* removePrefix deletes in the order the listing gives, which is that of   *)
(* the keys; upper case and the underscore come before lower case.         *)
removalBackwards == <<"postgres", "minio", "manifest.json", "manifest.hmac", "config", "clickhouse", "_SUCCESS">>
RemovalOrder == <<"_SUCCESS", "clickhouse", "config", "manifest.hmac", "manifest.json", "minio", "postgres">>

Whole == {UploadOrder[i] : i \in DOMAIN UploadOrder}

(* What is taken before anything is uploaded, into a private directory.    *)
DumpOrder == <<"postgres", "clickhouse", "config">>

DrInit ==
    /\ snapshot = [b \in Backups |-> {}] /\ aged = {} /\ completed = {}
    /\ drJob = [p \in DrProcesses |-> NoJob]
    /\ target \in [Targets -> {"none", "foreign"}]
    /\ workDir = {} /\ drReport = ""

drGoes(p, job) == drJob' = [drJob EXCEPT ![p] = job]

acquireLock(p) == \A q \in DrProcesses : drJob[q].at = "idle"

complete(b) == "_SUCCESS" \in snapshot[b]

(* The complete snapshots; whoever asks sorts them, newest first.          *)
snapshotIDs == {b \in Backups : complete(b)}

Ages(b) ==
    /\ complete(b) /\ \A c \in 1 .. b - 1 : snapshot[c] # {} => c \in aged
    /\ b \notin aged
    /\ aged' = aged \cup {b}
    /\ UNCHANGED <<snapshot, drJob, completed, target, workDir, drReport>>

-----------------------------------------------------------------------------
(* Backup.                                                                 *)
newBackupID(b) == \A c \in Backups : snapshot[c] # {} \/ c \in completed => c < b

Backup(p, b) ==
    /\ acquireLock(p) /\ newBackupID(b)
    /\ drGoes(p, [at |-> "dumping", backup |-> b, next |-> 1])
    /\ UNCHANGED <<snapshot, aged, completed, target, workDir, drReport>>

dump(p, store) ==
    LET job == drJob[p] IN
    /\ job.at = "dumping" /\ DumpOrder[job.next] = store
    /\ drGoes(p, IF job.next = Len(DumpOrder) THEN [at |-> "uploading", backup |-> job.backup, next |-> 1]
                                              ELSE [job EXCEPT !.next = @ + 1])
    /\ UNCHANGED <<snapshot, aged, completed, target, workDir, drReport>>

backupPostgres(p) == dump(p, "postgres")
backupClickHouse(p) == dump(p, "clickhouse")
archiveConfiguration(p) == dump(p, "config")

(* One object of the snapshot; the marker makes it complete.               *)
put(p, objects) ==
    LET job == drJob[p]
        done == job.next = Len(UploadOrder)
    IN
    /\ job.at = "uploading" /\ UploadOrder[job.next] \in objects
    /\ snapshot' = [snapshot EXCEPT ![job.backup] = @ \cup {UploadOrder[job.next]}]
    /\ completed' = IF done THEN completed \cup {job.backup} ELSE completed
    /\ drGoes(p, IF done THEN NoJob ELSE [job EXCEPT !.next = @ + 1])
    /\ UNCHANGED <<aged, target, workDir, drReport>>

backupObjects(p) == put(p, {"minio"})
putFile(p) == put(p, {"postgres", "clickhouse", "config"})
putBytes(p) == put(p, {"manifest.json", "manifest.hmac", "_SUCCESS"})

(* Prune: the newest are kept whatever their age, the young whatever their *)
(* number.                                                                 *)
expendable(ids) == {b \in ids : Cardinality({c \in ids : c > b}) >= MinimumBackups /\ b \in aged}

Prune(p) ==
    /\ acquireLock(p) /\ expendable(snapshotIDs) # {}
    /\ drGoes(p, [at |-> "pruning", left |-> expendable(snapshotIDs)])
    /\ UNCHANGED <<snapshot, aged, completed, target, workDir, drReport>>

firstKey(b, key) ==
    \E i \in DOMAIN RemovalOrder :
        /\ key = RemovalOrder[i] /\ key \in snapshot[b]
        /\ \A j \in 1 .. i - 1 : RemovalOrder[j] \notin snapshot[b]

(* The newest of those left, and of its objects the first.                 *)
removePrefix(p) ==
    LET job == drJob[p] IN
    /\ job.at = "pruning"
    /\ \E b \in job.left, key \in Whole :
          LET rest == snapshot[b] \ {key}
              left == IF rest = {} THEN job.left \ {b} ELSE job.left
          IN
          /\ \A c \in job.left : c <= b
          /\ firstKey(b, key)
          /\ snapshot' = [snapshot EXCEPT ![b] = rest]
          /\ drGoes(p, IF left = {} THEN NoJob ELSE [at |-> "pruning", left |-> left])
    /\ UNCHANGED <<aged, completed, target, workDir, drReport>>

-----------------------------------------------------------------------------
(* Restore: a complete snapshot is chosen, its manifest verified, and a    *)
(* work directory created that must not be there.                          *)
ResolveBackupID(b) == complete(b)
verifySignedJSON(b) == {"manifest.json", "manifest.hmac"} \subseteq snapshot[b]

Restore(p, drill) ==
    /\ acquireLock(p) /\ ResolveBackupID(RestoredBackup) /\ verifySignedJSON(RestoredBackup)
    /\ drill \notin workDir
    /\ workDir' = workDir \cup {drill} /\ drReport' = ""
    /\ drGoes(p, [at |-> "downloading", drill |-> drill, created |-> {}])
    /\ UNCHANGED <<snapshot, aged, completed, target>>

restoreFails(p, job) == drGoes(p, [job EXCEPT !.at = "cleaning failed"])

(* Every artifact of the manifest is fetched and compared with its hash.   *)
getFile(p) ==
    LET job == drJob[p] IN
    /\ job.at = "downloading"
    /\ \/ Whole \ {"_SUCCESS"} \subseteq snapshot[RestoredBackup] /\ drGoes(p, [job EXCEPT !.at = "extracting"])
       \/ restoreFails(p, job)
    /\ UNCHANGED <<snapshot, aged, completed, target, workDir, drReport>>

extractConfiguration(p) ==
    LET job == drJob[p] IN
    /\ job.at = "extracting"
    /\ drGoes(p, [job EXCEPT !.at = "postgres"]) \/ restoreFails(p, job)
    /\ UNCHANGED <<snapshot, aged, completed, target, workDir, drReport>>

nextStep(t) == CASE t = "postgres" -> "clickhouse" [] t = "clickhouse" -> "bucket" [] t = "bucket" -> "verifying"

(* A target that is there is an error and is not touched.  A restore that  *)
(* fails half way may leave its target behind: the statement that drops it *)
(* may fail too, and a failed ClickHouse RESTORE is not followed by one.   *)
restoreTarget(p, t) ==
    LET job == drJob[p] IN
    /\ job.at = t
    /\ IF target[t] # "none"
       THEN restoreFails(p, job) /\ UNCHANGED target
       ELSE \/ /\ target' = [target EXCEPT ![t] = "restored"]
               /\ drGoes(p, [at |-> nextStep(t), drill |-> job.drill, created |-> job.created \cup {t}])
            \/ /\ target' \in {target, [target EXCEPT ![t] = "partial"]}
               /\ restoreFails(p, job)
    /\ UNCHANGED <<snapshot, aged, completed, workDir, drReport>>

restorePostgres(p) == restoreTarget(p, "postgres")
restoreClickHouse(p) == restoreTarget(p, "clickhouse")
restoreObjects(p) == restoreTarget(p, "bucket")

verifyEvidence(p) ==
    LET job == drJob[p] IN
    /\ job.at = "verifying"
    /\ drGoes(p, [job EXCEPT !.at = "cleaning ok"]) \/ restoreFails(p, job)
    /\ UNCHANGED <<snapshot, aged, completed, target, workDir, drReport>>

(* The deferred function: a drill, and what failed, drops the targets that *)
(* this restore created, and nothing else; dropping may fail.  The signed  *)
(* report is written last, after the targets are gone.                     *)
everyTarget(job) == Targets
dropped(job) == job.created

cleanup(p) ==
    LET job == drJob[p]
        undo == IF job.drill \/ job.at = "cleaning failed" THEN dropped(job) ELSE {}
    IN
    /\ job.at \in {"cleaning ok", "cleaning failed"}
    /\ \E stuck \in SUBSET undo :
          /\ target' = [t \in Targets |-> IF t \in undo \ stuck THEN "none" ELSE target[t]]
          /\ drReport' \in (IF job.at = "cleaning ok" /\ stuck = {} THEN {"SUCCEEDED", "TARGET_MISSED"} ELSE {"FAILED"})
    /\ workDir' = IF job.drill \/ job.at = "cleaning failed" THEN workDir \ {job.drill} ELSE workDir
    /\ drGoes(p, NoJob)
    /\ UNCHANGED <<snapshot, aged, completed>>

(* The process ends, or an error ends the job: what was written stays.     *)
drEnds(p) ==
    /\ drJob[p].at # "idle"
    /\ drGoes(p, NoJob)
    /\ UNCHANGED <<snapshot, aged, completed, target, workDir, drReport>>

DrNext ==
    \/ \E b \in Backups : Ages(b)
    \/ \E p \in DrProcesses :
          \/ \E b \in Backups : Backup(p, b)
          \/ \E drill \in BOOLEAN : Restore(p, drill)
          \/ backupPostgres(p) \/ backupClickHouse(p) \/ archiveConfiguration(p)
          \/ backupObjects(p) \/ putFile(p) \/ putBytes(p)
          \/ Prune(p) \/ removePrefix(p)
          \/ getFile(p) \/ extractConfiguration(p) \/ restorePostgres(p) \/ restoreClickHouse(p) \/ restoreObjects(p)
          \/ verifyEvidence(p) \/ cleanup(p) \/ drEnds(p)

DrSpec == DrInit /\ [][DrNext]_drVars

-----------------------------------------------------------------------------
(* Whatever ends in the middle, a snapshot that is offered for recovery is *)
(* whole, and pruning leaves the newest MinimumBackups of the snapshots    *)
(* that were ever completed.                                               *)
RecoveryIsPossible ==
    /\ \A b \in Backups : complete(b) => snapshot[b] = Whole
    /\ \A b \in completed : Cardinality({c \in completed : c > b}) < MinimumBackups => complete(b)

ContainedStep ==
    /\ \A t \in Targets :
         /\ target[t] = "foreign" => target'[t] = "foreign"
         /\ target[t] # "none" /\ target'[t] = "none" =>
               \E p \in DrProcesses : drJob[p].at \in {"cleaning ok", "cleaning failed"} /\ t \in drJob[p].created
    /\ \A p \in DrProcesses :
         drReport = "" /\ drReport' \in {"SUCCEEDED", "TARGET_MISSED"} /\ drJob[p].at = "cleaning ok" =>
             \A t \in Targets : target'[t] = IF drJob[p].drill THEN "none" ELSE "restored"

(* A restore changes only targets that were not there: what somebody else  *)
(* keeps under the name is never dropped or overwritten, and what another  *)
(* restore left behind is not dropped either.  A restore reported as       *)
(* successful left all targets restored, a drill none of them.             *)
RestoreIsContained == [][ContainedStep]_drVars
=============================================================================
