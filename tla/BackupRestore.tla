--------------------------- MODULE BackupRestore ---------------------------
(***************************************************************************)
(* Coordinated backup and restore (runtime/backup_restore.py).  A backup   *)
(* stops the services with the operator's quiesce command, dumps the       *)
(* database, copies the object bucket, starts the services again and only  *)
(* then renames its staging directory into a package.  A restore loads a   *)
(* package into an empty target, checks that every object the database     *)
(* names is there, flushes the target's Redis and replays the durable      *)
(* outboxes.  The two stores are not covered by one transaction on either  *)
(* side, and the process may fail or be killed between any two steps.      *)
(*                                                                         *)
(* The running system is what it does to the two stores, for the rows that *)
(* name objects.  A source's upload commits its row, puts the object, then *)
(* commits the object's key and records the dispatch (routers/sources.py); *)
(* its deletion tombstones the row, cleans the object, then removes the    *)
(* row (source_deletion.py).  Its images are stored before their rows and  *)
(* go with it, as its original does.  A skill, a skill version and a skill *)
(* contribution name a prefix: the files come before the row, and they may *)
(* be deleted while the row stays (skill_service.py,                       *)
(* routers/skill_contributions.py).  A row has one object, a source has    *)
(* one execution, all with the name of the owner.                          *)
(* Checksums, encryption, signatures and key fingerprints are verdicts: a  *)
(* package that fails them is refused before anything is written, which is *)
(* no step here.                                                           *)
(***************************************************************************)
EXTENDS Naturals, FiniteSets

CONSTANTS
    Owner,       \* ids of sources and of skills, versions and contributions
    Backup,      \* backup commands, each with its own output directory
    Restore,     \* restore, drill and reconcile commands against one target
    MayOverlap,  \* operators may run two backups at a time
    None

ASSUME BackupRestoreConstants ==
    /\ IsFiniteSet(Owner)
    /\ MayOverlap \in BOOLEAN
    /\ None \notin Backup

VARIABLES
    up,       \* the source's services are running
    db,       \* its database
    bucket,   \* its objects
    request,  \* how far the upload request of a source has come
    cleaned,  \* sources whose deletion has cleaned the storage, in memory
    bk,       \* backup commands, with the package in their directory
    rs,       \* restore, drill and reconcile commands
    target,   \* the target: database, objects, queue
    serving   \* the target's services are running

app == <<db, bucket, request, cleaned>>
vars == <<up, app, bk, rs, target, serving>>

-----------------------------------------------------------------------------
(* Vocabulary *)

\* sources with its dispatch execution: key is minio_key, work the status of
\* the execution (a claim in progress counts as pending), and due whether its
\* lease or backoff is over, which only matters on the target.  A row in state
\* skill is one of skills, skill_versions or skill_contributions, with its
\* storage_path as the key.
Row == [state : {"none", "live", "deleting", "gone", "skill"}, key : BOOLEAN,
        work : {"none", "pending", "enqueued", "running", "closed"},
        due : BOOLEAN]

NoRow == [state |-> "none", key |-> FALSE, work |-> "none", due |-> FALSE]

Database == [Owner -> Row]

EmptyDatabase == [s \in Owner |-> NoRow]

Present(d) == {s \in Owner : d[s].state \in {"live", "deleting", "skill"}}

Open(row) == row.work \in {"pending", "enqueued", "running"}

Closed(row) ==
    [row EXCEPT !.work = IF Open(row) THEN "closed" ELSE row.work, !.due = FALSE]

BackupPC == {"idle", "dump", "baseline", "list", "copy", "resume", "abort",
             "publish", "published", "failed", "unresumed", "killed"}

\* What a backup has in its directory: the dump, the row count of
\* _record_verification_baseline and the objects copied; left is listed and
\* not yet copied.
BackupState == [pc : BackupPC, dump : Database, count : 0..Cardinality(Owner),
                left : SUBSET Owner, objects : SUBSET Owner]

NewBackup == [pc |-> "idle", dump |-> EmptyDatabase, count |-> 0,
              left |-> {}, objects |-> {}]

Quiesced == {"dump", "baseline", "list", "copy"}

ActiveBackup(b) == bk[b].pc \in Quiesced \cup {"resume", "abort", "publish"}

Published(b) == bk[b].pc = "published"

RestorePC == {"idle", "database", "data", "objects", "references", "flush", "replay",
              "deletions", "completed", "passed", "missed", "refused", "failed"}

RestoreState == [pc : RestorePC, package : Backup \cup {None},
                 left : SUBSET Owner, fresh : BOOLEAN]

\* fresh: the command is a restore or a drill, not a reconcile.
NewRestore == [pc |-> "idle", package |-> None, left |-> {}, fresh |-> FALSE]

Writing == {"database", "data", "objects", "references", "flush", "replay", "deletions"}

\* loaded is partial from the first table pg_restore creates, whether it goes on
\* or has broken off, and full when it succeeded.
Target == [loaded : {"empty", "partial", "full"}, db : Database,
           bucket : SUBSET Owner, queue : SUBSET Owner]

EmptyTarget == [loaded |-> "empty", db |-> EmptyDatabase,
                bucket |-> {}, queue |-> {}]

TypeOK ==
    /\ up \in BOOLEAN
    /\ db \in Database
    /\ bucket \in SUBSET Owner
    /\ request \in [Owner -> {"none", "row", "object", "key", "skill"}]
    /\ cleaned \in SUBSET Owner
    /\ bk \in [Backup -> BackupState]
    /\ rs \in [Restore -> RestoreState]
    /\ target \in Target
    /\ serving \in BOOLEAN

Init ==
    /\ up = TRUE
    /\ db = EmptyDatabase
    /\ bucket = {}
    /\ request = [s \in Owner |-> "none"]
    /\ cleaned = {}
    /\ bk = [b \in Backup |-> NewBackup]
    /\ rs = [r \in Restore |-> NewRestore]
    /\ target = EmptyTarget
    /\ serving = FALSE

-----------------------------------------------------------------------------
(* The running system *)

\* Bound: the two halves share only published packages, which no step changes.
\* The source is watched until the last backup has copied its objects, and the
\* commands against the target begin when the last one has ended.
Watched == \E b \in Backup : bk[b].pc \in {"idle"} \cup Quiesced

\* An id that has just been made up: nothing is stored under it.
Fresh(s) == db[s].state = "none" /\ request[s] = "none" /\ s \notin bucket

\* upload_source commits the row before the object and its key.
UploadRow(s) ==
    /\ up /\ Watched
    /\ Fresh(s)
    /\ db' = [db EXCEPT ![s].state = "live"]
    /\ request' = [request EXCEPT ![s] = "row"]
    /\ UNCHANGED <<up, bucket, cleaned, bk, rs, target, serving>>

UploadObject(s) ==
    /\ up /\ Watched
    /\ request[s] = "row"
    /\ bucket' = bucket \cup {s}
    /\ request' = [request EXCEPT ![s] = "object"]
    /\ UNCHANGED <<up, db, cleaned, bk, rs, target, serving>>

UploadKey(s) ==
    /\ up /\ Watched
    /\ request[s] = "object"
    /\ db[s].state \in {"live", "deleting"}
    /\ db' = [db EXCEPT ![s].key = TRUE]
    /\ request' = [request EXCEPT ![s] = "key"]
    /\ UNCHANGED <<up, bucket, cleaned, bk, rs, target, serving>>

\* _enqueue_via_outbox: without a queue the execution stays pending.
UploadDispatch(s) ==
    /\ up /\ Watched
    /\ request[s] = "key"
    /\ db[s].state \in {"live", "deleting"}
    /\ \E w \in {"pending", "enqueued"} : db' = [db EXCEPT ![s].work = w]
    /\ request' = [request EXCEPT ![s] = "none"]
    /\ UNCHANGED <<up, bucket, cleaned, bk, rs, target, serving>>

\* Workers and sweeps move an open execution on.
WorkGoesOn(s) ==
    /\ up /\ Watched
    /\ Open(db[s])
    /\ \E w \in {"pending", "enqueued", "running", "closed"} :
          db' = [db EXCEPT ![s].work = w]
    /\ UNCHANGED <<up, bucket, request, cleaned, bk, rs, target, serving>>

\* request_source_deletion: the tombstone fences the open execution.
Tombstone(s) ==
    /\ up /\ Watched
    /\ db[s].state = "live"
    /\ db' = [db EXCEPT ![s] = [Closed(db[s]) EXCEPT !.state = "deleting"]]
    /\ UNCHANGED <<up, bucket, request, cleaned, bk, rs, target, serving>>

\* create_contribution, and the approval or upload of a version: the files are
\* stored before the row with their prefix is committed.
SkillStored(s) ==
    /\ up /\ Watched
    /\ Fresh(s)
    /\ bucket' = bucket \cup {s}
    /\ request' = [request EXCEPT ![s] = "skill"]
    /\ UNCHANGED <<up, db, cleaned, bk, rs, target, serving>>

SkillCommitted(s) ==
    /\ up /\ Watched
    /\ request[s] = "skill"
    /\ db' = [db EXCEPT ![s].state = "skill", ![s].key = TRUE]
    /\ request' = [request EXCEPT ![s] = "none"]
    /\ UNCHANGED <<up, bucket, cleaned, bk, rs, target, serving>>

\* delete_skill_contribution_file, of the whole prefix, and an upload to it: the
\* row keeps its storage_path.
SkillFiles(s) ==
    /\ up /\ Watched
    /\ db[s].state = "skill"
    /\ bucket' \in {bucket \ {s}, bucket \cup {s}}
    /\ UNCHANGED <<up, db, request, cleaned, bk, rs, target, serving>>

\* process_source_deletion, step 1; the deletion of a skill or a contribution
\* starts with its files, too.
CleanStorage(s) ==
    /\ up /\ Watched
    /\ db[s].state \in {"deleting", "skill"}
    /\ bucket' = bucket \ {s}
    /\ cleaned' = cleaned \cup {s}
    /\ UNCHANGED <<up, db, request, bk, rs, target, serving>>

\* process_source_deletion, step 2
RemoveRow(s) ==
    /\ up /\ Watched
    /\ s \in cleaned
    /\ db' = [db EXCEPT ![s] = [NoRow EXCEPT !.state = "gone"]]
    /\ cleaned' = cleaned \ {s}
    /\ UNCHANGED <<up, bucket, request, bk, rs, target, serving>>

-----------------------------------------------------------------------------
(* Backup *)

\* Stopped services lose their requests and what their workers had in memory.
Stop ==
    /\ up' = FALSE
    /\ request' = [s \in Owner |-> "none"]
    /\ cleaned' = {}
    /\ UNCHANGED <<db, bucket>>

Running == UNCHANGED <<up, app>>

StepTo(b, pc) == bk' = [bk EXCEPT ![b].pc = pc]

\* The staging directory is removed, or never becomes a package.
EndWithout(b, pc) == bk' = [bk EXCEPT ![b] = [NewBackup EXCEPT !.pc = pc]]

Others == UNCHANGED <<rs, target, serving>>

BackupQuiesce(b) ==
    /\ bk[b].pc = "idle"
    /\ MayOverlap \/ \A c \in Backup : ~ActiveBackup(c)
    /\ Stop
    /\ StepTo(b, "dump")
    /\ Others

\* The quiesce command fails, after it stopped the services or before: the
\* flag that would run the resume command is not set yet.
BackupNotQuiesced(b) ==
    /\ bk[b].pc = "idle"
    /\ Stop \/ Running
    /\ EndWithout(b, "unresumed")
    /\ Others

BackupDump(b) ==
    /\ bk[b].pc = "dump"
    /\ bk' = [bk EXCEPT ![b].pc = "baseline", ![b].dump = db]
    /\ Running /\ Others

\* Mutant: the services are started again once the database is read
BackupBaselineResumes(b) ==
    /\ bk[b].pc = "baseline"
    /\ bk' = [bk EXCEPT ![b].pc = "list", ![b].count = Cardinality(Present(db))]
    /\ up' = TRUE
    /\ UNCHANGED app
    /\ Others

BackupBaseline(b) ==
    /\ bk[b].pc = "baseline"
    /\ bk' = [bk EXCEPT ![b].pc = "list", ![b].count = Cardinality(Present(db))]
    /\ Running /\ Others

BackupList(b) ==
    /\ bk[b].pc = "list"
    /\ bk' = [bk EXCEPT ![b].pc = "copy", ![b].left = bucket]
    /\ Running /\ Others

\* An object that has been removed since the listing fails the backup.
BackupCopy(b) ==
    /\ bk[b].pc = "copy"
    /\ \E s \in bk[b].left :
          bk' = IF s \in bucket
                  THEN [bk EXCEPT ![b].left = @ \ {s}, ![b].objects = @ \cup {s}]
                  ELSE [bk EXCEPT ![b].pc = "abort"]
    /\ Running /\ Others

BackupManifest(b) ==
    /\ bk[b].pc = "copy"
    /\ bk[b].left = {}
    /\ StepTo(b, "resume")
    /\ Running /\ Others

\* Mutant: a failed backup skips the resume command
BackupFailsQuietly(b) ==
    /\ bk[b].pc \in Quiesced
    /\ EndWithout(b, "failed")
    /\ Running /\ Others

BackupFails(b) ==
    /\ bk[b].pc \in Quiesced
    /\ StepTo(b, "abort")
    /\ Running /\ Others

\* The resume command runs whether or not the backup failed.
BackupResume(b) ==
    /\ bk[b].pc \in {"resume", "abort"}
    /\ up' = TRUE
    /\ IF bk[b].pc = "resume" THEN StepTo(b, "publish") ELSE EndWithout(b, "failed")
    /\ UNCHANGED app
    /\ Others

BackupNotResumed(b) ==
    /\ bk[b].pc \in {"resume", "abort"}
    /\ up' \in {up, TRUE}
    /\ EndWithout(b, "unresumed")
    /\ UNCHANGED app
    /\ Others

\* os.replace of the staging directory
BackupPublish(b) ==
    /\ bk[b].pc = "publish"
    /\ StepTo(b, "published") \/ EndWithout(b, "failed")
    /\ Running /\ Others

BackupKilled(b) ==
    /\ ActiveBackup(b)
    /\ EndWithout(b, "killed")
    /\ Running /\ Others

\* An operator starts services that a killed or failed backup left down.
OperatorStarts ==
    /\ ~up
    /\ \A b \in Backup : ~ActiveBackup(b)
    /\ up' = TRUE
    /\ UNCHANGED <<app, bk, rs, target, serving>>

-----------------------------------------------------------------------------
(* Restore, drill and reconcile *)

SourceSide == UNCHANGED <<up, app, bk>>

RestoreTo(r, pc) == rs' = [rs EXCEPT ![r].pc = pc]

RestoreEnds(r) == rs' = [rs EXCEPT ![r] = [NewRestore EXCEPT !.pc = "failed"]]

\* load_backup, _restore_preflight and the checks for an empty target
RestoreBegin(r, b) ==
    /\ rs[r].pc = "idle"
    /\ ~Watched /\ \A c \in Backup : ~ActiveBackup(c)
    /\ Published(b)
    /\ target.loaded = "empty" /\ target.bucket = {}
    /\ rs' = [rs EXCEPT ![r] = [pc |-> "database", package |-> b,
                                left |-> bk[b].objects, fresh |-> TRUE]]
    /\ SourceSide
    /\ UNCHANGED <<target, serving>>

\* run_reconcile starts at the references, whatever the target holds.
ReconcileBegin(r, b) ==
    /\ rs[r].pc = "idle"
    /\ ~Watched /\ \A c \in Backup : ~ActiveBackup(c)
    /\ Published(b)
    /\ rs' = [rs EXCEPT ![r] = [pc |-> "references", package |-> b,
                                left |-> {}, fresh |-> FALSE]]
    /\ SourceSide
    /\ UNCHANGED <<target, serving>>

\* pg_restore creates the tables, then copies the rows.
RestoreTables(r) ==
    /\ rs[r].pc = "database"
    /\ target.loaded = "empty"
    /\ target' = [target EXCEPT !.loaded = "partial"]
    /\ RestoreTo(r, "data")
    /\ SourceSide /\ UNCHANGED serving

\* pg_restore --exit-on-error fails on tables that another command created.
RestoreTablesFail(r) ==
    /\ rs[r].pc = "database"
    /\ target.loaded # "empty"
    /\ RestoreEnds(r)
    /\ SourceSide /\ UNCHANGED <<target, serving>>

\* Bound: other commands see the tables before the first row or after the last,
\* unless the rows break off.
RestoreDatabase(r) ==
    /\ rs[r].pc = "data"
    /\ target' = [target EXCEPT !.loaded = "full", !.db = bk[rs[r].package].dump]
    /\ RestoreTo(r, "objects")
    /\ SourceSide /\ UNCHANGED serving

Tables == {"sources", "executions", "skills"}

\* The rows of some tables of a dump.  Keys and constraints come last.
Copied(d, tables) ==
    [s \in Owner |->
       IF d[s].state = "skill" THEN IF "skills" \in tables THEN d[s] ELSE NoRow
       ELSE [state |-> IF "sources" \in tables THEN d[s].state ELSE "none",
             key   |-> "sources" \in tables /\ d[s].key,
             work  |-> IF "executions" \in tables THEN d[s].work ELSE "none",
             due   |-> "executions" \in tables /\ d[s].due]]

\* pg_restore breaks off, or is killed with its command: nothing is rolled back.
RestoreDataFails(r) ==
    /\ rs[r].pc = "data"
    /\ \E tables \in SUBSET Tables :
          target' = [target EXCEPT !.db = Copied(bk[rs[r].package].dump, tables)]
    /\ RestoreEnds(r)
    /\ SourceSide /\ UNCHANGED serving

\* Mutant: an object that cannot be stored is skipped
RestoreObjectOrSkip(r) ==
    /\ rs[r].pc = "objects"
    /\ \E s \in rs[r].left, put \in BOOLEAN :
          /\ target' = IF put THEN [target EXCEPT !.bucket = @ \cup {s}] ELSE target
          /\ rs' = [rs EXCEPT ![r].left = @ \ {s}]
    /\ SourceSide /\ UNCHANGED serving

\* Each object is stored, read back and compared.
RestoreObject(r) ==
    /\ rs[r].pc = "objects"
    /\ \E s \in rs[r].left :
          /\ target' = [target EXCEPT !.bucket = @ \cup {s}]
          /\ rs' = [rs EXCEPT ![r].left = @ \ {s}]
    /\ SourceSide /\ UNCHANGED serving

\* The forward migrations follow the last object.
RestoreMigrate(r) ==
    /\ rs[r].pc = "objects"
    /\ rs[r].left = {}
    /\ RestoreTo(r, "references")
    /\ SourceSide /\ UNCHANGED <<target, serving>>

References(d) == {s \in Present(d) : d[s].key}

\* Mutant: missing objects are reported and not raised
CheckReferencesReports(r) ==
    /\ rs[r].pc = "references"
    /\ target.loaded # "empty"
    /\ RestoreTo(r, "flush")
    /\ SourceSide /\ UNCHANGED <<target, serving>>

\* reconcile_object_references.  The query fails without its tables, and a
\* pg_restore that broke off may have created some only; over tables without
\* rows it finds nothing that is missing.
CheckReferences(r) ==
    LET found == References(target.db) \subseteq target.bucket
    IN  /\ rs[r].pc = "references"
        /\ \/ target.loaded # "empty" /\ found /\ RestoreTo(r, "flush")
           \/ (target.loaded # "full" \/ ~found) /\ RestoreTo(r, "refused")
        /\ SourceSide /\ UNCHANGED <<target, serving>>

\* _reset_redis_and_reconcile: flushdb, then the recorded reconcilers.
Flush(r) ==
    /\ rs[r].pc = "flush"
    /\ target' = [target EXCEPT !.queue = {}]
    /\ RestoreTo(r, "replay")
    /\ SourceSide /\ UNCHANGED serving

\* sweep_source_dispatches fences what is tombstoned and leases what is due;
\* those in queued get their job, those in ended are closed (a source in error,
\* or the last attempt), and the others wait for their backoff.
DueWork(d) == {s \in Owner : d[s].state = "live" /\ Open(d[s]) /\ d[s].due}

Swept(d, queued, ended) ==
    [s \in Owner |->
       IF s \in queued THEN [d[s] EXCEPT !.work = "enqueued", !.due = FALSE]
       ELSE IF s \in ended \/ d[s].state = "deleting" THEN Closed(d[s])
       ELSE IF s \in DueWork(d) THEN [d[s] EXCEPT !.work = "pending", !.due = FALSE]
       ELSE d[s]]

Replay(r) ==
    /\ rs[r].pc = "replay"
    /\ \E ended \in SUBSET DueWork(target.db) :
       \E queued \in SUBSET (DueWork(target.db) \ ended) :
          target' = [target EXCEPT !.db = Swept(@, queued, ended), !.queue = @ \cup queued]
    /\ RestoreTo(r, "deletions")
    /\ SourceSide /\ UNCHANGED serving

\* sweep_source_deletions: storage or database errors leave an intent failed,
\* and one in its backoff is not due.
ReplayDeletions(r) ==
    /\ rs[r].pc = "deletions"
    /\ \E clean \in SUBSET {s \in Owner : target.db[s].state = "deleting"} :
       \E remove \in SUBSET clean :
          target' = [target EXCEPT
                       !.bucket = @ \ clean,
                       !.db = [s \in Owner |->
                                 IF s \in remove THEN [NoRow EXCEPT !.state = "gone"]
                                 ELSE target.db[s]]]
    /\ RestoreTo(r, "completed")
    /\ SourceSide /\ UNCHANGED serving

\* An exception or a kill: nothing of the target is taken back.
RestoreStops(r) ==
    /\ rs[r].pc \in Writing
    /\ RestoreEnds(r)
    /\ SourceSide /\ UNCHANGED <<target, serving>>

\* Mutant: the objects are counted on, not read again
DrillChecksRows(p) ==
    /\ Cardinality(Present(target.db)) = p.count
    /\ \A s \in Owner :
          /\ target.db[s].work # "pending"
          /\ target.db[s].work = "enqueued" => s \in target.queue

\* _drill_checks: row counts, object hashes, nothing left pending, and a queued
\* job for every execution that says enqueued.
DrillChecks(p) ==
    /\ Cardinality(Present(target.db)) = p.count
    /\ p.objects \subseteq target.bucket
    /\ \A s \in Owner :
          /\ target.db[s].work # "pending"
          /\ target.db[s].work = "enqueued" => s \in target.queue

\* run_drill verifies what its own restore completed, before any service runs.
Drill(r) ==
    /\ rs[r].pc = "completed" /\ rs[r].fresh
    /\ ~serving
    /\ RestoreTo(r, IF DrillChecks(bk[rs[r].package]) THEN "passed" ELSE "missed")
    /\ SourceSide /\ UNCHANGED <<target, serving>>

\* A target is discarded, as a failed restore demands, or put into service.
Discard ==
    /\ ~serving
    /\ target # EmptyTarget
    /\ \A r \in Restore : rs[r].pc \notin Writing \cup {"completed"}
    /\ target' = EmptyTarget
    /\ SourceSide /\ UNCHANGED <<rs, serving>>

TargetStarts ==
    /\ ~serving
    /\ \E r \in Restore : rs[r].pc = "completed"
    /\ serving' = TRUE
    /\ SourceSide /\ UNCHANGED <<rs, target>>

-----------------------------------------------------------------------------
(* Time, and the target in service *)

\* Mutant: the sweep looks at pending executions only
TargetSweepPending(s) ==
    /\ serving
    /\ s \in DueWork(target.db) /\ target.db[s].work = "pending"
    /\ \E ended \in SUBSET DueWork(target.db) :
          LET queued == DueWork(target.db) \ ended IN
          target' = [target EXCEPT !.db = Swept(@, queued, ended), !.queue = @ \cup queued]
    /\ SourceSide /\ UNCHANGED <<rs, serving>>

\* In service the queue takes the jobs.
TargetSweep(s) ==
    /\ serving
    /\ s \in DueWork(target.db)
    /\ \E ended \in SUBSET DueWork(target.db) :
          LET queued == DueWork(target.db) \ ended IN
          target' = [target EXCEPT !.db = Swept(@, queued, ended), !.queue = @ \cup queued]
    /\ SourceSide /\ UNCHANGED <<rs, serving>>

\* A lease or a backoff that was restored runs out, on the source or since.
TargetLeaseEnds(s) ==
    /\ Open(target.db[s]) /\ ~target.db[s].due
    /\ target' = [target EXCEPT !.db[s].due = TRUE]
    /\ SourceSide /\ UNCHANGED <<rs, serving>>

TargetRuns(s) ==
    /\ serving
    /\ s \in target.queue
    /\ target' = [target EXCEPT !.queue = @ \ {s}, !.db[s] = Closed(@)]
    /\ SourceSide /\ UNCHANGED <<rs, serving>>

-----------------------------------------------------------------------------

AppStep(s) ==
    \/ UploadRow(s) \/ UploadObject(s) \/ UploadKey(s) \/ UploadDispatch(s)
    \/ WorkGoesOn(s) \/ Tombstone(s) \/ CleanStorage(s) \/ RemoveRow(s)
    \/ SkillStored(s) \/ SkillCommitted(s) \/ SkillFiles(s)

\* What the backup command does once it has begun, if nobody kills it.
BackupRuns(b) ==
    \/ BackupDump(b) \/ BackupBaseline(b) \/ BackupList(b) \/ BackupCopy(b)
    \/ BackupManifest(b) \/ BackupFails(b) \/ BackupResume(b)
    \/ BackupNotResumed(b) \/ BackupPublish(b)

BackupStep(b) ==
    \/ BackupQuiesce(b) \/ BackupNotQuiesced(b) \/ BackupRuns(b) \/ BackupKilled(b)

RestoreRuns(r) ==
    \/ RestoreTables(r) \/ RestoreTablesFail(r) \/ RestoreDatabase(r)
    \/ RestoreDataFails(r) \/ RestoreObject(r) \/ RestoreMigrate(r)
    \/ CheckReferences(r) \/ Flush(r) \/ Replay(r) \/ ReplayDeletions(r)

RestoreStep(r) ==
    \/ \E b \in Backup : RestoreBegin(r, b) \/ ReconcileBegin(r, b)
    \/ RestoreRuns(r) \/ RestoreStops(r) \/ Drill(r)

TargetStep(s) == TargetSweep(s) \/ TargetLeaseEnds(s) \/ TargetRuns(s)

Next ==
    \/ \E s \in Owner : AppStep(s) \/ TargetStep(s)
    \/ \E b \in Backup : BackupStep(b)
    \/ \E r \in Restore : RestoreStep(r)
    \/ OperatorStarts \/ Discard \/ TargetStarts

Spec == Init /\ [][Next]_vars

\* Commands keep running; on a target in service the cron sweeps, workers run
\* what is queued and time passes.
Fairness ==
    /\ \A b \in Backup : WF_vars(BackupRuns(b))
    /\ \A s \in Owner : WF_vars(TargetSweep(s)) /\ WF_vars(TargetLeaseEnds(s))
                         /\ WF_vars(TargetRuns(s))

FairSpec == Spec /\ Fairness
-----------------------------------------------------------------------------
(* Properties *)

\* A published package is one consistent snapshot, although run_backup reads
\* the two stores one after the other: every object that its dump names, of a
\* source that is not being deleted, is in it, and its row counts are those of
\* its dump.
PackagesAreComplete ==
    \A b \in Backup : Published(b) =>
       LET p == bk[b] IN
       /\ \A s \in Owner : p.dump[s].state = "live" /\ p.dump[s].key => s \in p.objects
       /\ p.count = Cardinality(Present(p.dump))

\* What the target holds is package p: all its sources that were not being
\* deleted and all its skills, with their objects, and no others.
Holds(p) ==
    /\ \A s \in Owner : p.dump[s].state \in {"live", "skill"} =>
          /\ target.db[s].state = p.dump[s].state
          /\ p.dump[s].key => target.db[s].key /\ s \in target.bucket
    /\ Present(target.db) \subseteq Present(p.dump)

\* A restore that is called completed has its whole package in the target,
\* rows and objects, whatever other restores, drills and reconciles ran against
\* the target at the same time or broke off before (run_restore).
RestoredIsWhole ==
    \A r \in Restore :
       rs[r].pc = "completed" /\ rs[r].fresh => Holds(bk[rs[r].package])

\* reconcile_object_references refuses a restored package for one of two
\* reasons, both older than the restore: a source was being deleted when the
\* backup was made, or a skill had lost its files and kept its storage_path.
\* No object is missing because the restore or a command beside it lost it.
RefusedForItsPackage ==
    \A r \in Restore :
       rs[r].pc = "refused" /\ rs[r].fresh =>
          LET p == bk[rs[r].package] IN
          \E s \in Owner : \/ p.dump[s].state = "deleting"
                           \/ p.dump[s].state = "skill" /\ s \notin p.objects

\* A drill that passes has seen the whole package recovered, although it only
\* counts rows: every source is there, all objects are, and every execution
\* that is still open has its job in the queue or is running under a lease.
DrillTellsTruth ==
    [][\A r \in Restore :
          rs[r].pc = "completed" /\ rs'[r].pc = "passed" =>
             LET p == bk[rs[r].package] IN
             /\ Present(target.db) = Present(p.dump)
             /\ p.objects \subseteq target.bucket
             /\ \A s \in Owner : Open(target.db[s]) =>
                   s \in target.queue \/ target.db[s].work = "running"]_vars

\* Work that was open in the snapshot is finished on the target: a lease that
\* was restored, or a queue that a later reconcile flushed, only delays it.
RestoredWorkRuns ==
    \A s \in Owner :
       (serving /\ target.db[s].state = "live" /\ Open(target.db[s]))
          ~> ~Open(target.db[s])

\* A backup does not leave the services down, however it ends, unless it is
\* killed or an operator's command fails.
ServicesResume ==
    []<>(up \/ \E b \in Backup : bk[b].pc \in {"unresumed", "killed"})

\* "A failed backup leaves no package behind and runs the operator resume
\* command" (docs/en/backup-restore-runbook.md): not when the quiesce command
\* stops some services and then fails.
FailedBackupResumes ==
    \A b \in Backup : bk[b].pc = "unresumed" => up

\* What "completed" seems to say of a reconcile: the target it worked on holds
\* a whole package.  Refuted: over the tables of a pg_restore that broke off
\* before their rows there is no reference to check, and no other check.
ReconciledIsWhole ==
    \A r \in Restore :
       rs[r].pc = "completed" => \E b \in Backup : Published(b) /\ Holds(bk[b])

\* A package restores: refuted by a source that was being deleted, and by a
\* contribution whose files were.
PackagesRestore ==
    \A r \in Restore : ~(rs[r].pc = "refused" /\ rs[r].fresh)
=============================================================================
