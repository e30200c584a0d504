------------------------ MODULE BackupRestoreProofs ------------------------
(***************************************************************************)
(* Theorems about BackupRestore, for any sources, backups and restores,    *)
(* with failures and kills between any two steps.                          *)
(*                                                                         *)
(* SnapshotInv is the inductive invariant of the source's side and holds   *)
(* when backups do not overlap: the services are down from the first read  *)
(* of a backup to its last, so what it has read is what is still there.    *)
(* TargetInv is the one of the target's side: one command at most copies   *)
(* rows, into tables it has created itself; a restore that is past this    *)
(* has the rows of its package, and past the reference check their         *)
(* objects.  CommandInv joins them: no object of the package was lost on   *)
(* the way, so a refusal is about the package.                             *)
(***************************************************************************)
EXTENDS BackupRestore, FiniteSetTheorems, TLAPS

\* A source never names an object that is not there, unless it is being deleted.
StoresAgree ==
    \A s \in Owner :
       /\ db[s].state = "live" /\ db[s].key => s \in bucket
       /\ db[s].state = "live" /\ request[s] \in {"object", "key"} => s \in bucket
       /\ db[s].state = "none" => ~db[s].key /\ request[s] \in {"none", "skill"}

Complete(p) ==
    /\ \A s \in Owner : p.dump[s].state = "live" /\ p.dump[s].key => s \in p.objects
    /\ p.count = Cardinality(Present(p.dump))

BackupInv(b) ==
    LET p == bk[b] IN
    /\ p.pc \in Quiesced => ~up
    /\ p.pc \in {"idle", "dump", "baseline", "list"} => p.objects = {}
    /\ p.pc \in {"baseline", "list", "copy"} => p.dump = db
    /\ p.pc \in {"list", "copy"} => p.count = Cardinality(Present(db))
    /\ p.pc = "copy" => p.left \cup p.objects = bucket
    /\ p.pc \in {"resume", "publish", "published"} => Complete(p)

OneBackup == \A b, c \in Backup : ActiveBackup(b) /\ ActiveBackup(c) => b = c

SnapshotInv == TypeOK /\ StoresAgree /\ OneBackup /\ \A b \in Backup : BackupInv(b)

\* The rows of the target are those of dump d, a deletion finished at most.
RowsOf(d) ==
    \A s \in Owner :
       \/ target.db[s].state = d[s].state /\ target.db[s].key = d[s].key
       \/ d[s].state = "deleting" /\ target.db[s].state = "gone"

Checked == {"flush", "replay", "deletions", "completed"}

LiveObjectsThere ==
    \A s \in Owner :
       target.db[s].state \in {"live", "skill"} /\ target.db[s].key => s \in target.bucket

PackageKnown(r) ==
    rs[r].pc \in Writing \cup {"completed", "passed", "missed", "refused"} =>
       rs[r].package \in Backup /\ Published(rs[r].package)

TypeInv == TypeOK /\ \A r \in Restore : PackageKnown(r)

OneLoad == \A r, q \in Restore : rs[r].pc = "data" /\ rs[q].pc = "data" => r = q

Loaded == {"objects", "references"} \cup Checked

LoadInv(r) ==
    /\ rs[r].pc = "data" => target.loaded = "partial"
    /\ rs[r].fresh /\ rs[r].pc \in Loaded =>
          target.loaded = "full" /\ RowsOf(bk[rs[r].package].dump)
    /\ rs[r].fresh /\ rs[r].pc \in Checked => LiveObjectsThere

TargetInv == TypeInv /\ OneLoad /\ \A r \in Restore : LoadInv(r)

\* Why a package is refused.
Flawed(p) ==
    \E s \in Owner : \/ p.dump[s].state = "deleting"
                     \/ p.dump[s].state = "skill" /\ s \notin p.objects

\* What a restore has stored, and why it refuses.
CommandInv(r) ==
    LET p == bk[rs[r].package] IN
    rs[r].fresh =>
       /\ rs[r].pc \in {"database", "data"} => rs[r].left = p.objects
       /\ rs[r].pc = "objects" =>
             \A s \in p.objects : p.dump[s].state # "deleting" =>
                 s \in rs[r].left \cup target.bucket
       /\ rs[r].pc = "references" =>
             \A s \in p.objects : p.dump[s].state # "deleting" => s \in target.bucket
       /\ rs[r].pc = "refused" => Flawed(p)

RestoreInv == SnapshotInv /\ TargetInv /\ \A r \in Restore : CommandInv(r)

-----------------------------------------------------------------------------
(* Types *)

LEMMA ClosedRow ==
    ASSUME NEW w \in Row
    PROVE  Closed(w) \in Row /\ Closed(w).state = w.state /\ Closed(w).key = w.key
BY DEF Closed, Row, Open

LEMMA SweptRows ==
    ASSUME NEW d \in Database, NEW q, NEW e
    PROVE  /\ Swept(d, q, e) \in Database
           /\ \A s \in Owner : Swept(d, q, e)[s].state = d[s].state
                                /\ Swept(d, q, e)[s].key = d[s].key
<1> SUFFICES ASSUME NEW s \in Owner
             PROVE  /\ Swept(d, q, e)[s] \in Row
                    /\ Swept(d, q, e)[s].state = d[s].state
                    /\ Swept(d, q, e)[s].key = d[s].key
  BY DEF Database, Swept
<1>1. d[s] \in Row
  BY DEF Database
<1>2. Closed(d[s]) \in Row /\ Closed(d[s]).state = d[s].state /\ Closed(d[s]).key = d[s].key
  BY <1>1, ClosedRow
<1> QED BY <1>1, <1>2 DEF Swept, Row

LEMMA CopiedRows ==
    ASSUME NEW d \in Database, NEW tables
    PROVE  Copied(d, tables) \in Database
<1> SUFFICES ASSUME NEW s \in Owner PROVE Copied(d, tables)[s] \in Row
  BY DEF Database, Copied
<1>1. d[s] \in Row /\ NoRow \in Row
  BY DEF Database, NoRow, Row
<1>2. CASE d[s].state = "skill"
  BY <1>1, <1>2 DEF Copied
<1>3. CASE d[s].state # "skill"
  BY <1>1, <1>3 DEF Copied, Row
<1> QED BY <1>2, <1>3

LEMMA PresentCount ==
    ASSUME NEW d
    PROVE  Cardinality(Present(d)) \in 0..Cardinality(Owner)
<1>1. IsFiniteSet(Owner) /\ Present(d) \subseteq Owner
  BY BackupRestoreConstants DEF Present
<1>2. Cardinality(Owner) \in Nat
  BY <1>1, FS_CardinalityType
<1>3. IsFiniteSet(Present(d)) /\ Cardinality(Present(d)) <= Cardinality(Owner)
  BY <1>1, FS_Subset
<1>4. Cardinality(Present(d)) \in Nat
  BY <1>3, FS_CardinalityType
<1> QED BY <1>2, <1>3, <1>4

LEMMA NewStates ==
    /\ NoRow \in Row /\ EmptyDatabase \in Database
    /\ NewBackup \in BackupState /\ NewRestore \in RestoreState
    /\ EmptyTarget \in Target
<1>1. NoRow \in Row
  BY DEF NoRow, Row
<1>2. EmptyDatabase \in Database
  BY <1>1 DEF EmptyDatabase, Database
<1>3. Cardinality(Owner) \in Nat
  BY BackupRestoreConstants, FS_CardinalityType
<1>4. NewBackup \in BackupState
  BY <1>2, <1>3 DEF NewBackup, BackupState, BackupPC
<1>5. NewRestore \in RestoreState
  BY DEF NewRestore, RestoreState, RestorePC
<1>6. EmptyTarget \in Target
  BY <1>2 DEF EmptyTarget, Target
<1> QED BY <1>1, <1>2, <1>4, <1>5, <1>6

LEMMA TypeInit == Init => TypeOK
BY NewStates DEF Init, TypeOK

\* A step of the running system leaves everything but its two stores alone,
\* and is taken by a running system.
LEMMA TypeApp ==
    ASSUME TypeOK, NEW s \in Owner, AppStep(s)
    PROVE  TypeOK' /\ up /\ UNCHANGED <<up, bk, rs, target, serving>>
<1>1. db \in Database /\ db[s] \in Row /\ NoRow \in Row
  BY NewStates DEF TypeOK, Database
<1>2. Closed(db[s]) \in Row
  BY <1>1, ClosedRow
<1>3. up /\ UNCHANGED <<up, bk, rs, target, serving>>
  BY DEF AppStep, UploadRow, UploadObject, UploadKey, UploadDispatch, WorkGoesOn,
         Tombstone, CleanStorage, RemoveRow, SkillStored, SkillCommitted, SkillFiles
<1>4. db' \in Database
  <2>1. CASE UNCHANGED db
    BY <1>1, <2>1
  <2>2. CASE UploadRow(s)
    BY <1>1, <2>2 DEF Database, Row, UploadRow
  <2>7. CASE UploadKey(s)
    BY <1>1, <2>7 DEF Database, Row, UploadKey
  <2>8. CASE SkillCommitted(s)
    BY <1>1, <2>8 DEF Database, Row, SkillCommitted
  <2>3. CASE UploadDispatch(s)
    BY <1>1, <2>3 DEF Database, Row, UploadDispatch
  <2>4. CASE WorkGoesOn(s)
    BY <1>1, <2>4 DEF Database, Row, WorkGoesOn
  <2>5. CASE Tombstone(s)
    <3>1. [Closed(db[s]) EXCEPT !.state = "deleting"] \in Row
      BY <1>2 DEF Row
    <3> QED BY <1>1, <2>5, <3>1 DEF Database, Tombstone
  <2>6. CASE RemoveRow(s)
    <3>1. [NoRow EXCEPT !.state = "gone"] \in Row
      BY <1>1 DEF Row
    <3> QED BY <1>1, <2>6, <3>1 DEF Database, RemoveRow
  <2> QED BY <2>1, <2>2, <2>3, <2>4, <2>5, <2>6, <2>7, <2>8
          DEF AppStep, UploadObject, CleanStorage, SkillStored, SkillFiles
<1>5. /\ bucket' \in SUBSET Owner /\ cleaned' \in SUBSET Owner
      /\ request' \in [Owner -> {"none", "row", "object", "key", "skill"}]
  BY DEF TypeOK, AppStep, UploadRow, UploadObject, UploadKey, UploadDispatch, WorkGoesOn,
         Tombstone, CleanStorage, RemoveRow, SkillStored, SkillCommitted, SkillFiles
<1> QED BY <1>3, <1>4, <1>5 DEF TypeOK

\* A backup leaves the two stores and the target alone.
LEMMA TypeBackup ==
    ASSUME TypeOK, NEW b \in Backup, BackupStep(b)
    PROVE  TypeOK' /\ UNCHANGED <<db, bucket, rs, target, serving>>
<1>1. bk \in [Backup -> BackupState] /\ bk[b] \in BackupState /\ NewBackup \in BackupState
  BY NewStates DEF TypeOK
<1>2. UNCHANGED <<db, bucket, rs, target, serving>>
  BY DEF BackupStep, BackupRuns, BackupQuiesce, BackupNotQuiesced, BackupDump, BackupBaseline,
         BackupList, BackupCopy, BackupManifest, BackupFails, BackupResume, BackupNotResumed,
         BackupPublish, BackupKilled, Stop, Running, Others, app
<1>3. /\ up' \in BOOLEAN /\ cleaned' \in SUBSET Owner
      /\ request' \in [Owner -> {"none", "row", "object", "key", "skill"}]
  <2>1. CASE Stop
    BY <2>1 DEF Stop
  <2>2. CASE UNCHANGED <<cleaned, request>> /\ up' \in {up, TRUE}
    BY <2>2 DEF TypeOK
  <2> QED BY <2>1, <2>2
          DEF BackupStep, BackupRuns, BackupQuiesce, BackupNotQuiesced, BackupDump,
              BackupBaseline, BackupList, BackupCopy, BackupManifest, BackupFails, BackupResume,
              BackupNotResumed, BackupPublish, BackupKilled, Running, app
<1>4. bk' \in [Backup -> BackupState]
  <2>1. ASSUME NEW q \in BackupPC, StepTo(b, q)
        PROVE  bk' \in [Backup -> BackupState]
    BY <1>1, <2>1 DEF StepTo, BackupState
  <2>2. ASSUME NEW q \in BackupPC, EndWithout(b, q)
        PROVE  bk' \in [Backup -> BackupState]
    <3>1. [NewBackup EXCEPT !.pc = q] \in BackupState
      BY <1>1 DEF BackupState
    <3> QED BY <1>1, <2>2, <3>1 DEF EndWithout
  <2>3. CASE BackupDump(b)
    BY <1>1, <2>3 DEF BackupDump, BackupState, BackupPC, TypeOK
  <2>4. CASE BackupBaseline(b)
    BY <1>1, <2>4, PresentCount DEF BackupBaseline, BackupState, BackupPC
  <2>5. CASE BackupList(b)
    BY <1>1, <2>5 DEF BackupList, BackupState, BackupPC, TypeOK
  <2>6. CASE BackupCopy(b)
    <3>1. PICK s \in bk[b].left :
             bk' = IF s \in bucket
                     THEN [bk EXCEPT ![b].left = @ \ {s}, ![b].objects = @ \cup {s}]
                     ELSE [bk EXCEPT ![b].pc = "abort"]
      BY <2>6 DEF BackupCopy
    <3>2. s \in Owner
      BY <1>1, <3>1 DEF BackupState
    <3>3. CASE s \in bucket
      BY <1>1, <3>1, <3>2, <3>3 DEF BackupState
    <3>4. CASE s \notin bucket
      BY <1>1, <3>1, <3>4 DEF BackupState, BackupPC
    <3> QED BY <3>3, <3>4
  <2>7. /\ {"dump", "resume", "abort", "publish", "published"} \subseteq BackupPC
        /\ {"unresumed", "failed", "killed"} \subseteq BackupPC
    BY DEF BackupPC
  <2> QED BY <2>1, <2>2, <2>3, <2>4, <2>5, <2>6, <2>7
          DEF BackupStep, BackupRuns, BackupQuiesce, BackupNotQuiesced, BackupManifest,
              BackupFails, BackupResume, BackupNotResumed, BackupPublish, BackupKilled
<1> QED BY <1>2, <1>3, <1>4 DEF TypeOK

LEMMA TypeRestore ==
    ASSUME TypeInv, NEW r \in Restore, RestoreStep(r)
    PROVE  TypeOK' /\ UNCHANGED <<up, app, bk, serving>>
<1>1. /\ rs \in [Restore -> RestoreState] /\ rs[r] \in RestoreState
      /\ NewRestore \in RestoreState /\ target \in Target /\ target.db \in Database
      /\ bk \in [Backup -> BackupState]
  BY NewStates DEF TypeInv, TypeOK, Target
<1>2. UNCHANGED <<up, app, bk, serving>>
  BY DEF RestoreStep, RestoreRuns, RestoreBegin, ReconcileBegin, RestoreTables,
         RestoreTablesFail, RestoreDatabase, RestoreDataFails, RestoreObject,
         RestoreMigrate, CheckReferences, Flush, Replay,
         ReplayDeletions, RestoreStops, Drill, SourceSide
<1>3. rs' \in [Restore -> RestoreState]
  <2>1. ASSUME NEW q \in RestorePC, RestoreTo(r, q)
        PROVE  rs' \in [Restore -> RestoreState]
    BY <1>1, <2>1 DEF RestoreTo, RestoreState
  <2>2. CASE RestoreEnds(r)
    <3>1. [NewRestore EXCEPT !.pc = "failed"] \in RestoreState
      BY <1>1 DEF RestoreState, RestorePC
    <3> QED BY <1>1, <2>2, <3>1 DEF RestoreEnds
  <2>3. CASE \E b \in Backup : RestoreBegin(r, b)
    <3>1. PICK b \in Backup : RestoreBegin(r, b)
      BY <2>3
    <3>2. [pc |-> "database", package |-> b, left |-> bk[b].objects, fresh |-> TRUE]
             \in RestoreState
      BY <1>1 DEF RestoreState, RestorePC, BackupState
    <3> QED BY <1>1, <3>1, <3>2 DEF RestoreBegin
  <2>4. CASE \E b \in Backup : ReconcileBegin(r, b)
    <3>1. PICK b \in Backup : ReconcileBegin(r, b)
      BY <2>4
    <3>2. [pc |-> "references", package |-> b, left |-> {}, fresh |-> FALSE] \in RestoreState
      BY DEF RestoreState, RestorePC
    <3> QED BY <1>1, <3>1, <3>2 DEF ReconcileBegin
  <2>5. CASE RestoreObject(r)
    BY <1>1, <2>5 DEF RestoreObject, RestoreState
  <2>6. /\ {"data", "objects", "references", "flush", "replay", "deletions"} \subseteq RestorePC
        /\ {"completed", "refused", "passed", "missed"} \subseteq RestorePC
    BY DEF RestorePC
  <2>7. CASE CheckReferences(r) \/ Drill(r)
    BY <2>1, <2>6, <2>7 DEF CheckReferences, Drill
  <2> QED BY <2>1, <2>2, <2>3, <2>4, <2>5, <2>6, <2>7
          DEF RestoreStep, RestoreRuns, RestoreTables, RestoreTablesFail, RestoreDatabase,
              RestoreDataFails, RestoreMigrate, Flush, Replay, ReplayDeletions, RestoreStops
<1>4. target' \in Target
  <2>1. CASE UNCHANGED target
    BY <1>1, <2>1
  <2>2. CASE RestoreDatabase(r)
    <3>1. rs[r].package \in Backup
      BY <2>2 DEF RestoreDatabase, TypeInv, PackageKnown, Writing
    <3> QED BY <1>1, <2>2, <3>1 DEF RestoreDatabase, Target, BackupState
  <2>3. CASE RestoreTables(r)
    BY <1>1, <2>3 DEF RestoreTables, Target
  <2>8. CASE RestoreDataFails(r)
    <3>1. rs[r].package \in Backup
      BY <2>8 DEF RestoreDataFails, TypeInv, PackageKnown, Writing
    <3>2. PICK tables :
             target' = [target EXCEPT !.db = Copied(bk[rs[r].package].dump, tables)]
      BY <2>8 DEF RestoreDataFails
    <3>3. bk[rs[r].package].dump \in Database
      BY <1>1, <3>1 DEF BackupState
    <3>4. Copied(bk[rs[r].package].dump, tables) \in Database
      BY <3>3, CopiedRows
    <3> QED BY <1>1, <3>2, <3>4 DEF Target
  <2>4. CASE RestoreObject(r)
    BY <1>1, <2>4 DEF RestoreObject, Target, RestoreState
  <2>5. CASE Flush(r)
    BY <1>1, <2>5 DEF Flush, Target
  <2>6. CASE Replay(r)
    <3>1. PICK ended \in SUBSET DueWork(target.db) :
             \E queued \in SUBSET (DueWork(target.db) \ ended) :
             target' = [target EXCEPT !.db = Swept(@, queued, ended), !.queue = @ \cup queued]
      BY <2>6 DEF Replay
    <3>2. PICK queued \in SUBSET (DueWork(target.db) \ ended) :
             target' = [target EXCEPT !.db = Swept(@, queued, ended), !.queue = @ \cup queued]
      BY <3>1
    <3>3. Swept(target.db, queued, ended) \in Database /\ queued \subseteq Owner
      BY <1>1, SweptRows DEF DueWork
    <3> QED BY <1>1, <3>2, <3>3 DEF Target
  <2>7. CASE ReplayDeletions(r)
    <3>0. PICK clean \in SUBSET {s \in Owner : target.db[s].state = "deleting"} :
             \E remove \in SUBSET clean :
             target' = [target EXCEPT
                          !.bucket = @ \ clean,
                          !.db = [s \in Owner |->
                                    IF s \in remove THEN [NoRow EXCEPT !.state = "gone"]
                                    ELSE target.db[s]]]
      BY <2>7 DEF ReplayDeletions
    <3>1. PICK remove \in SUBSET clean :
             target' = [target EXCEPT
                          !.bucket = @ \ clean,
                          !.db = [s \in Owner |->
                                    IF s \in remove THEN [NoRow EXCEPT !.state = "gone"]
                                    ELSE target.db[s]]]
      BY <3>0
    <3>2. [NoRow EXCEPT !.state = "gone"] \in Row
      BY NewStates DEF Row
    <3>3. [s \in Owner |-> IF s \in remove THEN [NoRow EXCEPT !.state = "gone"]
                            ELSE target.db[s]] \in Database
      BY <1>1, <3>2 DEF Database
    <3> QED BY <1>1, <3>1, <3>3 DEF Target
  <2> QED BY <2>1, <2>2, <2>3, <2>4, <2>5, <2>6, <2>7, <2>8
          DEF RestoreStep, RestoreRuns, RestoreBegin, ReconcileBegin, RestoreTablesFail,
              RestoreMigrate, CheckReferences, RestoreStops, Drill
<1> QED BY <1>2, <1>3, <1>4 DEF TypeInv, TypeOK, app

LEMMA TypeTarget ==
    ASSUME TypeOK,
           \/ \E s \in Owner : TargetStep(s)
           \/ Discard \/ TargetStarts
    PROVE  TypeOK' /\ UNCHANGED <<up, app, bk, rs>>
<1>1. target \in Target /\ target.db \in Database
  BY DEF TypeOK, Target
<1>2. UNCHANGED <<up, app, bk, rs>> /\ serving' \in BOOLEAN
  BY DEF TypeOK, TargetStep, TargetSweep, TargetLeaseEnds, TargetRuns, Discard, TargetStarts,
         SourceSide
<1>3. target' \in Target
  <2>1. CASE Discard \/ TargetStarts
    BY <1>1, <2>1, NewStates DEF Discard, TargetStarts
  <2>2. ASSUME NEW s \in Owner, TargetSweep(s)
        PROVE  target' \in Target
    <3>1. PICK ended \in SUBSET DueWork(target.db) :
             LET queued == DueWork(target.db) \ ended IN
             target' = [target EXCEPT !.db = Swept(@, queued, ended), !.queue = @ \cup queued]
      BY <2>2 DEF TargetSweep
    <3> DEFINE queued == DueWork(target.db) \ ended
    <3>2. Swept(target.db, queued, ended) \in Database /\ queued \subseteq Owner
      BY <1>1, SweptRows DEF DueWork
    <3> QED BY <1>1, <3>1, <3>2 DEF Target
  <2>3. ASSUME NEW s \in Owner, TargetLeaseEnds(s)
        PROVE  target' \in Target
    <3>1. [target.db EXCEPT ![s].due = TRUE] \in Database
      BY <1>1 DEF Database, Row
    <3> QED BY <1>1, <2>3, <3>1 DEF TargetLeaseEnds, Target
  <2>4. ASSUME NEW s \in Owner, TargetRuns(s)
        PROVE  target' \in Target
    <3>1. target.db[s] \in Row
      BY <1>1 DEF Database
    <3>2. [target.db EXCEPT ![s] = Closed(@)] \in Database
      BY <1>1, <3>1, ClosedRow DEF Database
    <3> QED BY <1>1, <2>4, <3>2 DEF TargetRuns, Target
  <2> QED BY <2>1, <2>2, <2>3, <2>4 DEF TargetStep
<1> QED BY <1>2, <1>3 DEF TypeOK, app

\* Nothing happens to a package that was published.
LEMMA PackagesKept ==
    ASSUME TypeOK, [Next]_vars, NEW b \in Backup, Published(b)
    PROVE  bk'[b] = bk[b]
<1>1. bk[b].pc = "published" /\ bk \in [Backup -> BackupState]
  BY DEF Published, TypeOK
<1>2. ASSUME NEW c \in Backup, BackupStep(c)
      PROVE  bk'[b] = bk[b]
  <2>1. bk[c].pc # "published"
    BY <1>2 DEF BackupStep, BackupRuns, BackupQuiesce, BackupNotQuiesced, BackupDump,
         BackupBaseline, BackupList, BackupCopy, BackupManifest, BackupFails, BackupResume,
         BackupNotResumed, BackupPublish, BackupKilled, ActiveBackup, Quiesced
  <2>2. c # b
    BY <1>1, <2>1
  <2> QED BY <1>1, <1>2, <2>2
          DEF BackupStep, BackupRuns, BackupQuiesce, BackupNotQuiesced, BackupDump,
              BackupBaseline, BackupList, BackupCopy, BackupManifest, BackupFails, BackupResume,
              BackupNotResumed, BackupPublish, BackupKilled, StepTo, EndWithout
<1>3. CASE UNCHANGED bk
  BY <1>3
<1>4. ASSUME NEW s \in Owner, AppStep(s)
      PROVE  UNCHANGED bk
  BY <1>4, TypeApp
<1>5. ASSUME NEW r \in Restore, RestoreStep(r)
      PROVE  UNCHANGED bk
  BY <1>5 DEF RestoreStep, RestoreRuns, RestoreBegin, ReconcileBegin, RestoreTables,
         RestoreTablesFail, RestoreDatabase, RestoreDataFails, RestoreObject,
         RestoreMigrate, CheckReferences, Flush, Replay,
         ReplayDeletions, RestoreStops, Drill, SourceSide
<1>6. ASSUME \/ \E s \in Owner : TargetStep(s)
             \/ Discard \/ TargetStarts
      PROVE  UNCHANGED bk
  BY <1>6, TypeTarget
<1>7. CASE OperatorStarts
  BY <1>7 DEF OperatorStarts
<1> QED BY <1>2, <1>3, <1>4, <1>5, <1>6, <1>7 DEF Next, vars

LEMMA TypeStep == TypeInv /\ [Next]_vars => TypeInv'
<1> SUFFICES ASSUME TypeInv, [Next]_vars PROVE TypeInv'
  OBVIOUS
<1>0. TypeOK
  BY DEF TypeInv
<1>1. TypeOK'
  <2>1. CASE OperatorStarts
    BY <1>0, <2>1 DEF OperatorStarts, TypeOK, app
  <2>2. CASE UNCHANGED vars
    BY <1>0, <2>2 DEF vars, app, TypeOK
  <2> QED BY <1>0, <2>1, <2>2, TypeApp, TypeBackup, TypeRestore, TypeTarget DEF Next
<1>2. ASSUME NEW r \in Restore PROVE PackageKnown(r)'
  <2>0. PackageKnown(r) /\ rs \in [Restore -> RestoreState]
    BY <1>0 DEF TypeInv, TypeOK
  <2> SUFFICES \/ rs'[r].pc \notin Writing \cup {"completed", "passed", "missed", "refused"}
               \/ rs'[r].package \in Backup /\ Published(rs'[r].package)
    BY <1>0, PackagesKept DEF PackageKnown, Published
  <2>1. CASE UNCHANGED rs
    BY <2>0, <2>1 DEF PackageKnown
  <2>2. ASSUME NEW q \in Restore, RestoreStep(q)
        PROVE  \/ rs'[r].pc \notin Writing \cup {"completed", "passed", "missed", "refused"}
               \/ rs'[r].package \in Backup /\ Published(rs'[r].package)
    <3>1. CASE q # r
      <4>1. rs'[r] = rs[r]
        BY <2>0, <2>2, <3>1
           DEF RestoreStep, RestoreRuns, RestoreBegin, ReconcileBegin, RestoreTables,
         RestoreTablesFail, RestoreDatabase, RestoreDataFails, RestoreObject,
         RestoreMigrate, CheckReferences, Flush,
               Replay, ReplayDeletions, RestoreStops, Drill, RestoreTo, RestoreEnds
      <4> QED BY <2>0, <4>1 DEF PackageKnown
    <3>2. CASE RestoreEnds(r)
      BY <2>0, <3>2 DEF RestoreEnds, NewRestore, Writing
    <3>3. ASSUME NEW b \in Backup, RestoreBegin(r, b) \/ ReconcileBegin(r, b)
          PROVE  rs'[r].package \in Backup /\ Published(rs'[r].package)
      BY <2>0, <3>3 DEF RestoreBegin, ReconcileBegin
    <3>4. CASE RestoreTables(r) \/ RestoreDatabase(r) \/ RestoreObject(r) \/ RestoreMigrate(r) \/
               CheckReferences(r)
               \/ Flush(r) \/ Replay(r) \/ ReplayDeletions(r) \/ Drill(r)
      <4>1. rs[r].pc \in Writing \cup {"completed"}
        BY <3>4 DEF RestoreTables, RestoreDatabase, RestoreObject,
             RestoreMigrate, CheckReferences, Flush,
             Replay, ReplayDeletions, Drill, Writing
      <4>2. ASSUME NEW q2, RestoreTo(r, q2) PROVE rs'[r].package = rs[r].package
        BY <2>0, <4>2 DEF RestoreTo, RestoreState
      <4>3. ASSUME RestoreObject(r) PROVE rs'[r].package = rs[r].package
        BY <2>0, <4>3 DEF RestoreObject, RestoreState
      <4>4. rs'[r].package = rs[r].package
        BY <3>4, <4>2, <4>3
           DEF RestoreTables, RestoreDatabase, RestoreMigrate, CheckReferences, Flush, Replay,
               ReplayDeletions, Drill
      <4> QED BY <2>0, <4>1, <4>4 DEF PackageKnown
    <3> QED BY <2>2, <3>1, <3>2, <3>3, <3>4
            DEF RestoreStep, RestoreRuns, RestoreTablesFail, RestoreDataFails, RestoreStops
  <2>3. ASSUME NEW s \in Owner, AppStep(s)
        PROVE  UNCHANGED rs
    BY <1>0, <2>3, TypeApp
  <2>4. ASSUME NEW b \in Backup, BackupStep(b)
        PROVE  UNCHANGED rs
    BY <1>0, <2>4, TypeBackup
  <2>5. ASSUME \/ \E s \in Owner : TargetStep(s)
               \/ Discard \/ TargetStarts
        PROVE  UNCHANGED rs
    BY <1>0, <2>5, TypeTarget
  <2>6. CASE OperatorStarts
    BY <2>6, <2>1 DEF OperatorStarts
  <2> QED BY <2>1, <2>2, <2>3, <2>4, <2>5, <2>6 DEF Next, vars
<1> QED BY <1>1, <1>2 DEF TypeInv

LEMMA TypeInvariant == Spec => []TypeInv
<1>1. Init => TypeInv
  BY TypeInit DEF Init, TypeInv, PackageKnown, NewRestore, Writing
<1> QED BY <1>1, TypeStep, PTL DEF Spec

\* Every variable keeps its type: run_backup, run_restore, run_drill and
\* run_reconcile work on packages that exist.
THEOREM BackupTypes == Spec => []TypeOK
<1>1. TypeInv => TypeOK
  BY DEF TypeInv
<1> QED BY <1>1, TypeInvariant, PTL

-----------------------------------------------------------------------------
(* The snapshot *)

LEMMA SnapshotApp ==
    ASSUME SnapshotInv, NEW s \in Owner, AppStep(s)
    PROVE  SnapshotInv'
<1>1. TypeOK /\ TypeOK' /\ up /\ UNCHANGED <<up, bk>>
  BY TypeApp DEF SnapshotInv
<1>2. StoresAgree'
  <2> SUFFICES ASSUME NEW t \in Owner
      PROVE  (/\ db[t].state = "live" /\ db[t].key => t \in bucket
              /\ db[t].state = "live" /\ request[t] \in {"object", "key"} => t \in bucket
              /\ db[t].state = "none" => ~db[t].key /\ request[t] \in {"none", "skill"})'
    BY DEF StoresAgree
  <2>0. /\ db \in [Owner -> Row] /\ db[s] \in Row /\ db[t] \in Row
        /\ request \in [Owner -> {"none", "row", "object", "key", "skill"}]
        /\ bucket \subseteq Owner
    BY <1>1 DEF TypeOK, Database
  <2>1. /\ db[t].state = "live" /\ db[t].key => t \in bucket
        /\ db[t].state = "live" /\ request[t] \in {"object", "key"} => t \in bucket
        /\ db[t].state = "none" => ~db[t].key /\ request[t] \in {"none", "skill"}
    BY DEF SnapshotInv, StoresAgree
  <2>2. CASE t # s
    <3>1. db'[t] = db[t] /\ request'[t] = request[t] /\ (t \in bucket' <=> t \in bucket)
      BY <2>0, <2>2 DEF AppStep, UploadRow, UploadObject, UploadKey, UploadDispatch, WorkGoesOn,
           Tombstone, CleanStorage, RemoveRow, SkillStored, SkillCommitted, SkillFiles
    <3> QED BY <2>1, <3>1
  <2>3. CASE t = s
    <3>1. CASE UploadRow(s)
      BY <2>0, <2>1, <2>3, <3>1 DEF UploadRow, Fresh, Row
    <3>2. CASE UploadObject(s)
      BY <2>0, <2>1, <2>3, <3>2 DEF UploadObject
    <3>3. CASE UploadKey(s)
      BY <2>0, <2>1, <2>3, <3>3 DEF UploadKey, Row
    <3>4. CASE UploadDispatch(s)
      BY <2>0, <2>1, <2>3, <3>4 DEF UploadDispatch, Row
    <3>5. CASE WorkGoesOn(s)
      BY <2>0, <2>1, <2>3, <3>5 DEF WorkGoesOn, Row
    <3>6. CASE Tombstone(s)
      <4>1. db'[s].state = "deleting"
        BY <2>0, <3>6, ClosedRow DEF Tombstone, Row
      <4> QED BY <2>3, <4>1
    <3>7. CASE CleanStorage(s)
      BY <2>0, <2>1, <2>3, <3>7 DEF CleanStorage
    <3>8. CASE RemoveRow(s)
      BY <2>0, <2>3, <3>8 DEF RemoveRow, NoRow
    <3>9. CASE SkillStored(s)
      BY <2>0, <2>1, <2>3, <3>9 DEF SkillStored, Fresh
    <3>10. CASE SkillCommitted(s)
      BY <2>0, <2>1, <2>3, <3>10 DEF SkillCommitted, Row
    <3>11. CASE SkillFiles(s)
      BY <2>0, <2>1, <2>3, <3>11 DEF SkillFiles
    <3> QED BY <3>1, <3>2, <3>3, <3>4, <3>5, <3>6, <3>7, <3>8, <3>9, <3>10, <3>11 DEF AppStep
  <2> QED BY <2>2, <2>3
<1>3. OneBackup'
  BY <1>1 DEF SnapshotInv, OneBackup, ActiveBackup
<1>4. ASSUME NEW b \in Backup PROVE BackupInv(b)'
  <2>1. bk[b].pc \notin {"dump", "baseline", "list", "copy"}
    BY <1>1 DEF SnapshotInv, BackupInv, Quiesced
  <2> QED BY <1>1, <2>1 DEF SnapshotInv, BackupInv, Quiesced, Complete, Present
<1> QED BY <1>1, <1>2, <1>3, <1>4 DEF SnapshotInv

LEMMA SnapshotStill ==
    ASSUME SnapshotInv, TypeOK', UNCHANGED <<app, bk>>,
           up' = up \/ \A b \in Backup : ~ActiveBackup(b)
    PROVE  SnapshotInv'
<1>1. StoresAgree' /\ OneBackup'
  BY DEF SnapshotInv, StoresAgree, OneBackup, ActiveBackup, app
<1>2. ASSUME NEW b \in Backup PROVE BackupInv(b)'
  <2>1. BackupInv(b) /\ UNCHANGED <<bk, db, bucket>>
    BY DEF SnapshotInv, app
  <2>2. bk[b].pc \in Quiesced => ~up'
    BY <2>1 DEF BackupInv, ActiveBackup
  <2> QED BY <2>1, <2>2 DEF BackupInv, Complete, Present
<1> QED BY <1>1, <1>2 DEF SnapshotInv

\* What another backup has read stays true: it is not active.
LEMMA OtherBackups ==
    ASSUME SnapshotInv, NEW b \in Backup, BackupStep(b), NEW c \in Backup, c # b
    PROVE  BackupInv(c)' /\ bk'[c] = bk[c]
<1>1. TypeOK /\ UNCHANGED <<db, bucket>>
  BY TypeBackup DEF SnapshotInv
<1>2. bk'[c] = bk[c]
  BY <1>1 DEF TypeOK, BackupStep, BackupRuns, BackupQuiesce, BackupNotQuiesced, BackupDump,
     BackupBaseline, BackupList, BackupCopy, BackupManifest, BackupFails, BackupResume,
     BackupNotResumed, BackupPublish, BackupKilled, StepTo, EndWithout
<1>3. up' => up \/ ActiveBackup(b)
  BY DEF BackupStep, BackupRuns, BackupQuiesce, BackupNotQuiesced, BackupDump, BackupBaseline,
     BackupList, BackupCopy, BackupManifest, BackupFails, BackupResume, BackupNotResumed,
     BackupPublish, BackupKilled, Stop, Running, app, ActiveBackup
<1>4. bk[c].pc \in Quiesced => ~up'
  BY <1>3 DEF SnapshotInv, BackupInv, OneBackup, ActiveBackup
<1> QED BY <1>1, <1>2, <1>4 DEF SnapshotInv, BackupInv, Complete, Present

LEMMA OneBackupStep ==
    ASSUME SnapshotInv, ~MayOverlap, NEW b \in Backup, BackupStep(b)
    PROVE  OneBackup'
<1>1. bk \in [Backup -> BackupState]
  BY DEF SnapshotInv, TypeOK
<1>2. \A c \in Backup : c # b => (ActiveBackup(c)' <=> ActiveBackup(c))
  BY OtherBackups DEF ActiveBackup
<1>3. CASE ActiveBackup(b)
  BY <1>2, <1>3 DEF SnapshotInv, OneBackup
<1>4. CASE BackupQuiesce(b)
  BY <1>2, <1>4 DEF BackupQuiesce, OneBackup
<1>5. CASE BackupNotQuiesced(b)
  <2>1. ~ActiveBackup(b)'
    BY <1>1, <1>5 DEF BackupNotQuiesced, EndWithout, ActiveBackup, NewBackup, Quiesced
  <2> QED BY <1>2, <2>1 DEF SnapshotInv, OneBackup
<1> QED BY <1>3, <1>4, <1>5
        DEF BackupStep, BackupRuns, BackupDump, BackupBaseline, BackupList, BackupCopy,
            BackupManifest, BackupFails, BackupResume, BackupNotResumed, BackupPublish,
            BackupKilled, ActiveBackup, Quiesced

LEMMA BackupStepInv ==
    ASSUME SnapshotInv, NEW b \in Backup, BackupStep(b)
    PROVE  BackupInv(b)'
<1>1. /\ bk \in [Backup -> BackupState] /\ bk[b] \in BackupState
      /\ UNCHANGED <<db, bucket>> /\ BackupInv(b) /\ StoresAgree
  BY TypeBackup DEF SnapshotInv, TypeOK
<1>2. ASSUME NEW q \in {"unresumed", "failed", "killed"}, EndWithout(b, q)
      PROVE  BackupInv(b)'
  <2>1. bk'[b].pc = q
    BY <1>1, <1>2 DEF EndWithout, NewBackup
  <2> QED BY <2>1 DEF BackupInv, Quiesced
<1>3. CASE BackupQuiesce(b)
  <2>1. bk'[b].pc = "dump" /\ bk'[b].objects = {} /\ ~up'
    BY <1>1, <1>3 DEF BackupQuiesce, StepTo, Stop, BackupInv, BackupState
  <2> QED BY <2>1 DEF BackupInv
<1>4. CASE BackupDump(b)
  <2>1. bk'[b].pc = "baseline" /\ bk'[b].objects = {} /\ bk'[b].dump = db /\ ~up'
    BY <1>1, <1>4 DEF BackupDump, Running, BackupInv, BackupState, Quiesced
  <2> QED BY <1>1, <2>1 DEF BackupInv
<1>5. CASE BackupBaseline(b)
  <2>1. /\ bk'[b].pc = "list" /\ bk'[b].objects = {} /\ bk'[b].dump = db /\ ~up'
        /\ bk'[b].count = Cardinality(Present(db))
    BY <1>1, <1>5 DEF BackupBaseline, Running, BackupInv, BackupState, Quiesced
  <2> QED BY <1>1, <2>1 DEF BackupInv, Present
<1>6. CASE BackupList(b)
  <2>1. /\ bk'[b].pc = "copy" /\ bk'[b].objects = {} /\ bk'[b].dump = db /\ ~up'
        /\ bk'[b].count = Cardinality(Present(db)) /\ bk'[b].left = bucket
    BY <1>1, <1>6 DEF BackupList, Running, BackupInv, BackupState, Quiesced
  <2> QED BY <1>1, <2>1 DEF BackupInv, Present
<1>7. CASE BackupCopy(b)
  <2>0. bk[b].pc = "copy" /\ ~up /\ up' = up
    BY <1>1, <1>7 DEF BackupCopy, Running, BackupInv, Quiesced
  <2>1. PICK s \in bk[b].left :
           bk' = IF s \in bucket
                   THEN [bk EXCEPT ![b].left = @ \ {s}, ![b].objects = @ \cup {s}]
                   ELSE [bk EXCEPT ![b].pc = "abort"]
    BY <1>7 DEF BackupCopy
  <2>2. CASE s \in bucket
    <3>1. /\ bk'[b].pc = "copy" /\ bk'[b].dump = db
          /\ bk'[b].count = Cardinality(Present(db))
          /\ bk'[b].left = bk[b].left \ {s} /\ bk'[b].objects = bk[b].objects \cup {s}
      BY <1>1, <2>0, <2>1, <2>2 DEF BackupInv, BackupState
    <3>2. bk'[b].left \cup bk'[b].objects = bucket
      BY <1>1, <2>0, <2>2, <3>1 DEF BackupInv
    <3> QED BY <1>1, <2>0, <3>1, <3>2 DEF BackupInv, Present
  <2>3. CASE s \notin bucket
    <3>1. bk'[b].pc = "abort"
      BY <1>1, <2>1, <2>3 DEF BackupState
    <3> QED BY <3>1 DEF BackupInv, Quiesced
  <2> QED BY <2>2, <2>3
<1>8. CASE BackupManifest(b)
  <2>1. /\ bk'[b].pc = "resume" /\ bk'[b].dump = db /\ bk'[b].objects = bucket
        /\ bk'[b].count = Cardinality(Present(db))
    BY <1>1, <1>8 DEF BackupManifest, StepTo, BackupInv, BackupState
  <2>2. Complete(bk'[b])
    BY <1>1, <2>1 DEF Complete, StoresAgree
  <2> QED BY <2>1, <2>2 DEF BackupInv, Complete, Present, Quiesced
<1>9. CASE BackupFails(b)
  <2>1. bk'[b].pc = "abort"
    BY <1>1, <1>9 DEF BackupFails, StepTo, BackupState
  <2> QED BY <2>1 DEF BackupInv, Quiesced
<1>10. ASSUME NEW q \in {"publish", "published"}, StepTo(b, q),
              bk[b].pc \in {"resume", "publish"}
       PROVE  BackupInv(b)'
  <2>1. /\ bk'[b].pc \in {"publish", "published"} /\ bk'[b].dump = bk[b].dump
        /\ bk'[b].objects = bk[b].objects /\ bk'[b].count = bk[b].count
    BY <1>1, <1>10 DEF StepTo, BackupState
  <2>2. Complete(bk'[b])
    BY <1>1, <1>10, <2>1 DEF Complete, BackupInv
  <2> QED BY <2>1, <2>2 DEF BackupInv, Complete, Present, Quiesced
<1>11. CASE BackupResume(b)
  <2>1. CASE bk[b].pc = "resume"
    <3>1. StepTo(b, "publish")
      BY <1>11, <2>1 DEF BackupResume
    <3> QED BY <1>10, <2>1, <3>1
  <2>2. CASE bk[b].pc = "abort"
    <3>1. EndWithout(b, "failed")
      BY <1>11, <2>2 DEF BackupResume
    <3> QED BY <1>2, <3>1
  <2> QED BY <1>11, <2>1, <2>2 DEF BackupResume
<1>12. CASE BackupPublish(b)
  BY <1>2, <1>10, <1>12 DEF BackupPublish
<1>13. CASE BackupNotQuiesced(b) \/ BackupNotResumed(b) \/ BackupKilled(b)
  BY <1>2, <1>13 DEF BackupNotQuiesced, BackupNotResumed, BackupKilled
<1> QED BY <1>3, <1>4, <1>5, <1>6, <1>7, <1>8, <1>9, <1>11, <1>12, <1>13
        DEF BackupStep, BackupRuns

LEMMA SnapshotStep ==
    ASSUME ~MayOverlap, TypeInv, SnapshotInv, [Next]_vars
    PROVE  SnapshotInv'
<1>1. TypeOK'
  BY TypeStep DEF TypeInv
<1>2. ASSUME NEW s \in Owner, AppStep(s) PROVE SnapshotInv'
  BY <1>2, SnapshotApp
<1>3. ASSUME NEW b \in Backup, BackupStep(b) PROVE SnapshotInv'
  <2>1. UNCHANGED <<db, bucket>>
    BY <1>3, TypeBackup DEF SnapshotInv
  <2>2. request' = request \/ request' = [s \in Owner |-> "none"]
    BY <1>3 DEF BackupStep, BackupRuns, BackupQuiesce, BackupNotQuiesced, BackupDump,
         BackupBaseline, BackupList, BackupCopy, BackupManifest, BackupFails, BackupResume,
         BackupNotResumed, BackupPublish, BackupKilled, Stop, Running, app
  <2>3. StoresAgree'
    BY <2>1, <2>2 DEF SnapshotInv, StoresAgree
  <2>4. \A c \in Backup : BackupInv(c)'
    BY <1>3, OtherBackups, BackupStepInv
  <2>5. OneBackup'
    BY <1>3, OneBackupStep
  <2> QED BY <1>1, <2>3, <2>4, <2>5 DEF SnapshotInv
<1>4. ASSUME NEW r \in Restore, RestoreStep(r) PROVE SnapshotInv'
  BY <1>1, <1>4, TypeRestore, SnapshotStill
<1>5. ASSUME \/ \E s \in Owner : TargetStep(s)
             \/ Discard \/ TargetStarts
      PROVE  SnapshotInv'
  BY <1>1, <1>5, TypeTarget, SnapshotStill DEF SnapshotInv
<1>6. CASE OperatorStarts
  BY <1>1, <1>6, SnapshotStill DEF OperatorStarts
<1>7. CASE UNCHANGED vars
  BY <1>1, <1>7, SnapshotStill DEF vars
<1> QED BY <1>2, <1>3, <1>4, <1>5, <1>6, <1>7 DEF Next

LEMMA SnapshotInit == Init => SnapshotInv
<1> SUFFICES ASSUME Init PROVE SnapshotInv
  OBVIOUS
<1>1. StoresAgree
  BY DEF Init, StoresAgree, EmptyDatabase, NoRow
<1>2. OneBackup
  BY DEF Init, OneBackup, ActiveBackup, NewBackup, Quiesced
<1>3. \A b \in Backup : BackupInv(b)
  BY DEF Init, BackupInv, NewBackup, Quiesced
<1> QED BY <1>1, <1>2, <1>3, TypeInit DEF SnapshotInv

LEMMA SnapshotInvariant == ASSUME ~MayOverlap PROVE Spec => []SnapshotInv
<1>1. TypeInv /\ SnapshotInv /\ [Next]_vars => SnapshotInv'
  BY SnapshotStep
<1> QED BY <1>1, SnapshotInit, TypeInvariant, PTL DEF Spec

\* run_backup publishes consistent snapshots only, whatever fails or is killed
\* in between, as long as two backups do not overlap.
THEOREM PackagesComplete == ASSUME ~MayOverlap PROVE Spec => []PackagesAreComplete
<1>1. SnapshotInv => PackagesAreComplete
  BY DEF SnapshotInv, BackupInv, Complete, PackagesAreComplete, Published
<1> QED BY <1>1, SnapshotInvariant, PTL

-----------------------------------------------------------------------------
(* The target *)

\* What a step that neither loads nor discards the target may do to it.
Kept ==
    /\ target'.loaded = target.loaded
    /\ \A s \in Owner :
          \/ target'.db[s].state = target.db[s].state /\ target'.db[s].key = target.db[s].key
          \/ target.db[s].state = "deleting" /\ target'.db[s].state = "gone"
    /\ \A s \in target.bucket : target.db[s].state # "deleting" => s \in target'.bucket

Loads(r) == RestoreTables(r) \/ RestoreDatabase(r) \/ RestoreDataFails(r)

LEMMA RestoreKeeps ==
    ASSUME TypeOK, NEW r \in Restore, RestoreStep(r)
    PROVE  Kept \/ Loads(r)
<1>1. target \in Target /\ target.db \in Database
  BY DEF TypeOK, Target
<1>2. CASE UNCHANGED target
  BY <1>2 DEF Kept
<1>4. CASE RestoreObject(r)
  <2>1. PICK s : target' = [target EXCEPT !.bucket = @ \cup {s}]
    BY <1>4 DEF RestoreObject
  <2> QED BY <1>1, <2>1 DEF Kept, Target
<1>5. CASE Flush(r)
  BY <1>1, <1>5 DEF Flush, Kept, Target
<1>6. CASE Replay(r)
  <2>1. PICK ended, queued :
           target' = [target EXCEPT !.db = Swept(@, queued, ended), !.queue = @ \cup queued]
    BY <1>6 DEF Replay
  <2>2. /\ target'.loaded = target.loaded /\ target'.bucket = target.bucket
        /\ target'.db = Swept(target.db, queued, ended)
    BY <1>1, <2>1 DEF Target
  <2> QED BY <1>1, <2>2, SweptRows DEF Kept
<1>7. CASE ReplayDeletions(r)
  <2>1. PICK clean \in SUBSET {s \in Owner : target.db[s].state = "deleting"} :
           \E remove \in SUBSET clean :
           target' = [target EXCEPT
                        !.bucket = @ \ clean,
                        !.db = [s \in Owner |->
                                  IF s \in remove THEN [NoRow EXCEPT !.state = "gone"]
                                  ELSE target.db[s]]]
    BY <1>7 DEF ReplayDeletions
  <2>2. PICK remove \in SUBSET clean :
           target' = [target EXCEPT
                        !.bucket = @ \ clean,
                        !.db = [s \in Owner |->
                                  IF s \in remove THEN [NoRow EXCEPT !.state = "gone"]
                                  ELSE target.db[s]]]
    BY <2>1
  <2>3. /\ target'.loaded = target.loaded /\ target'.bucket = target.bucket \ clean
        /\ target'.db = [s \in Owner |-> IF s \in remove THEN [NoRow EXCEPT !.state = "gone"]
                                          ELSE target.db[s]]
    BY <1>1, <2>2 DEF Target
  <2>4. [NoRow EXCEPT !.state = "gone"].state = "gone"
    BY DEF NoRow
  <2> QED BY <2>3, <2>4 DEF Kept
<1> QED BY <1>2, <1>4, <1>5, <1>6, <1>7
        DEF RestoreStep, RestoreRuns, RestoreBegin, ReconcileBegin, RestoreTablesFail,
            RestoreMigrate, CheckReferences, RestoreStops, Drill, Loads

LEMMA ServiceKeeps ==
    ASSUME TypeOK, NEW s \in Owner, TargetStep(s)
    PROVE  Kept
<1>1. target \in Target /\ target.db \in Database /\ target.db[s] \in Row
  BY DEF TypeOK, Target, Database
<1>2. CASE TargetSweep(s)
  <2>1. PICK ended, queued :
           target' = [target EXCEPT !.db = Swept(@, queued, ended), !.queue = @ \cup queued]
    BY <1>2 DEF TargetSweep
  <2>2. /\ target'.loaded = target.loaded /\ target'.bucket = target.bucket
        /\ target'.db = Swept(target.db, queued, ended)
    BY <1>1, <2>1 DEF Target
  <2> QED BY <1>1, <2>2, SweptRows DEF Kept
<1>3. CASE TargetLeaseEnds(s)
  <2>1. /\ target'.loaded = target.loaded /\ target'.bucket = target.bucket
        /\ target'.db = [target.db EXCEPT ![s].due = TRUE]
    BY <1>1, <1>3 DEF TargetLeaseEnds, Target
  <2> QED BY <1>1, <2>1 DEF Kept, Database, Row
<1>4. CASE TargetRuns(s)
  <2>1. /\ target'.loaded = target.loaded /\ target'.bucket = target.bucket
        /\ target'.db = [target.db EXCEPT ![s] = Closed(@)]
    BY <1>1, <1>4 DEF TargetRuns, Target
  <2> QED BY <1>1, <2>1, ClosedRow DEF Kept, Database
<1> QED BY <1>2, <1>3, <1>4 DEF TargetStep

\* Every step keeps, loads or discards the target.
LEMMA TargetMoves ==
    ASSUME TypeOK, [Next]_vars
    PROVE  Kept \/ Discard \/ \E r \in Restore : Loads(r)
<1>1. CASE UNCHANGED target
  BY <1>1 DEF Kept
<1>2. ASSUME NEW s \in Owner, AppStep(s) PROVE UNCHANGED target
  BY <1>2, TypeApp
<1>3. ASSUME NEW b \in Backup, BackupStep(b) PROVE UNCHANGED target
  BY <1>3, TypeBackup
<1>4. CASE OperatorStarts \/ TargetStarts \/ UNCHANGED vars
  BY <1>1, <1>4 DEF OperatorStarts, TargetStarts, vars
<1> QED BY <1>1, <1>2, <1>3, <1>4, RestoreKeeps, ServiceKeeps DEF Next

LEMMA KeptRows ==
    ASSUME Kept, NEW b \in Backup, bk'[b] = bk[b], RowsOf(bk[b].dump)
    PROVE  RowsOf(bk[b].dump)'
BY DEF Kept, RowsOf

LEMMA KeptObjects ==
    ASSUME Kept, LiveObjectsThere
    PROVE  LiveObjectsThere'
BY DEF Kept, LiveObjectsThere

\* A command that takes no step keeps what it has loaded.
LEMMA LoadWaits ==
    ASSUME TargetInv, [Next]_vars, NEW r \in Restore, rs'[r] = rs[r]
    PROVE  LoadInv(r)'
<1> SUFFICES ASSUME rs[r].pc \in {"data"} \cup Loaded PROVE LoadInv(r)'
  BY DEF LoadInv, Loaded
<1>0. /\ TypeOK /\ LoadInv(r) /\ rs[r].package \in Backup /\ Published(rs[r].package)
      /\ rs \in [Restore -> RestoreState]
  BY DEF TargetInv, TypeInv, TypeOK, PackageKnown, Writing, Loaded, Checked
<1>1. bk'[rs[r].package] = bk[rs[r].package]
  BY <1>0, PackagesKept
<1>2. CASE Kept
  <2>1. RowsOf(bk[rs[r].package].dump) => RowsOf(bk[rs[r].package].dump)'
    <3> SUFFICES ASSUME RowsOf(bk[rs[r].package].dump) PROVE RowsOf(bk[rs[r].package].dump)'
      OBVIOUS
    <3>1. \A s \in Owner : LET d == bk[rs[r].package].dump IN
             \/ target'.db[s].state = d[s].state /\ target'.db[s].key = d[s].key
             \/ d[s].state = "deleting" /\ target'.db[s].state = "gone"
      BY <1>2 DEF RowsOf, Kept
    <3> QED BY <1>1, <3>1 DEF RowsOf
  <2>2. target'.loaded = target.loaded /\ (LiveObjectsThere => LiveObjectsThere')
    BY <1>2, KeptObjects DEF Kept
  <2> QED BY <1>0, <2>1, <2>2 DEF LoadInv
<1>3. CASE Discard
  BY <1>3 DEF Discard, Writing, Loaded, Checked
<1>4. ASSUME NEW q \in Restore, Loads(q), rs[r].fresh \/ rs[r].pc = "data" PROVE FALSE
  <2>0. target.loaded \in {"partial", "full"}
    BY <1>0, <1>4 DEF LoadInv
  <2>1. q # r
    <3>1. rs'[q].pc # rs[q].pc
      <4>1. CASE RestoreTables(q) \/ RestoreDatabase(q)
        BY <1>0, <4>1 DEF RestoreTables, RestoreDatabase, RestoreTo, RestoreState
      <4>2. CASE RestoreDataFails(q)
        BY <1>0, <4>2 DEF RestoreDataFails, RestoreEnds, NewRestore
      <4> QED BY <1>4, <4>1, <4>2 DEF Loads
    <3> QED BY <3>1
  <2>2. rs[q].pc = "data"
    BY <1>4, <2>0 DEF Loads, RestoreTables, RestoreDatabase, RestoreDataFails
  <2>3. target.loaded = "partial" /\ rs[r].pc # "data"
    BY <2>1, <2>2 DEF TargetInv, OneLoad, LoadInv
  <2> QED BY <1>0, <1>4, <2>3 DEF LoadInv
<1>5. CASE ~(rs[r].fresh \/ rs[r].pc = "data")
  BY <1>5 DEF LoadInv
<1> QED BY <1>0, <1>2, <1>3, <1>4, <1>5, TargetMoves

\* A command that has its rows keeps them while it goes on.
LEMMA LoadKept ==
    ASSUME TargetInv, NEW r \in Restore, RestoreStep(r), rs[r].fresh, rs[r].pc \in Loaded,
           rs'[r].package = rs[r].package
    PROVE  /\ Kept /\ target'.loaded = "full" /\ RowsOf(bk[rs[r].package].dump)'
           /\ RowsOf(bk[rs[r].package].dump)
<1>0. /\ TypeOK /\ bk' = bk /\ target.loaded = "full" /\ RowsOf(bk[rs[r].package].dump)
  BY TypeRestore DEF TargetInv, TypeInv, LoadInv
<1>1. Kept
  <2>1. ~Loads(r)
    BY DEF Loads, RestoreTables, RestoreDatabase, RestoreDataFails, Loaded, Checked
  <2> QED BY <1>0, <2>1, RestoreKeeps
<1>2. \A s \in Owner : LET d == bk[rs[r].package].dump IN
         \/ target'.db[s].state = d[s].state /\ target'.db[s].key = d[s].key
         \/ d[s].state = "deleting" /\ target'.db[s].state = "gone"
  BY <1>0, <1>1 DEF RowsOf, Kept
<1>3. RowsOf(bk[rs[r].package].dump)'
  BY <1>0, <1>2 DEF RowsOf
<1> QED BY <1>0, <1>1, <1>3 DEF Kept

LEMMA LoadMoves ==
    ASSUME TargetInv, NEW r \in Restore, RestoreStep(r)
    PROVE  LoadInv(r)'
<1>0. /\ TypeOK /\ TypeInv /\ bk' = bk /\ target \in Target /\ LoadInv(r)
      /\ rs \in [Restore -> RestoreState] /\ rs[r] \in RestoreState
  BY TypeRestore DEF TargetInv, TypeInv, TypeOK
<1>1. CASE RestoreEnds(r)
  BY <1>0, <1>1 DEF RestoreEnds, NewRestore, LoadInv
<1>2. ASSUME NEW b \in Backup, RestoreBegin(r, b) \/ ReconcileBegin(r, b) PROVE LoadInv(r)'
  BY <1>0, <1>2 DEF RestoreBegin, ReconcileBegin, LoadInv, Loaded, Checked
<1>3. CASE RestoreTables(r)
  <2>1. rs'[r].pc = "data" /\ target'.loaded = "partial"
    BY <1>0, <1>3 DEF RestoreTables, RestoreTo, RestoreState, Target
  <2> QED BY <2>1 DEF LoadInv, Loaded, Checked
<1>4. CASE RestoreDatabase(r)
  <2>1. rs'[r].pc = "objects" /\ rs'[r].package = rs[r].package
    BY <1>0, <1>4 DEF RestoreDatabase, RestoreTo, RestoreState
  <2>2. target'.loaded = "full" /\ target'.db = bk[rs[r].package].dump
    BY <1>0, <1>4 DEF RestoreDatabase, Target
  <2> QED BY <1>0, <2>1, <2>2 DEF LoadInv, RowsOf, Checked
<1>5. CASE RestoreObject(r)
  <2>1. /\ rs'[r].pc = "objects" /\ rs[r].pc = "objects" /\ rs'[r].package = rs[r].package
        /\ rs'[r].fresh = rs[r].fresh
    BY <1>0, <1>5 DEF RestoreObject, RestoreState
  <2> QED BY <1>0, <2>1, LoadKept DEF LoadInv, Loaded, Checked
<1>6. CASE RestoreMigrate(r)
  <2>1. /\ rs'[r].pc = "references" /\ rs[r].pc = "objects" /\ rs'[r].package = rs[r].package
        /\ rs'[r].fresh = rs[r].fresh
    BY <1>0, <1>6 DEF RestoreMigrate, RestoreTo, RestoreState
  <2> QED BY <1>0, <2>1, LoadKept DEF LoadInv, Loaded, Checked
<1>7. CASE CheckReferences(r)
  <2>1. /\ rs[r].pc = "references" /\ rs'[r].package = rs[r].package
        /\ rs'[r].fresh = rs[r].fresh /\ target' = target
        /\ \/ rs'[r].pc = "flush" /\ References(target.db) \subseteq target.bucket
           \/ rs'[r].pc = "refused"
    BY <1>0, <1>7 DEF CheckReferences, RestoreTo, RestoreState
  <2>2. rs'[r].pc = "flush" => LiveObjectsThere'
    BY <2>1 DEF LiveObjectsThere, References, Present
  <2> QED BY <1>0, <2>1, <2>2, LoadKept DEF LoadInv, Loaded, Checked
<1>8. CASE Flush(r) \/ Replay(r) \/ ReplayDeletions(r)
  <2>1. /\ rs[r].pc \in Checked /\ rs'[r].pc \in Checked /\ rs'[r].package = rs[r].package
        /\ rs'[r].fresh = rs[r].fresh
    <3>1. rs[r].pc \in Checked /\ \E q \in Checked : RestoreTo(r, q)
      BY <1>8 DEF Flush, Replay, ReplayDeletions, Checked
    <3>2. PICK q \in Checked : RestoreTo(r, q)
      BY <3>1
    <3> QED BY <1>0, <3>1, <3>2 DEF RestoreTo, RestoreState
  <2>2. rs[r].fresh => LiveObjectsThere'
    BY <1>0, <2>1, LoadKept, KeptObjects DEF LoadInv, Loaded
  <2> QED BY <1>0, <2>1, <2>2, LoadKept DEF LoadInv, Loaded, Checked
<1>9. CASE Drill(r)
  <2>1. rs'[r].pc \in {"passed", "missed"}
    BY <1>0, <1>9 DEF Drill, RestoreTo, RestoreState
  <2> QED BY <2>1 DEF LoadInv, Loaded, Checked
<1> QED BY <1>1, <1>2, <1>3, <1>4, <1>5, <1>6, <1>7, <1>8, <1>9
        DEF RestoreStep, RestoreRuns, RestoreTablesFail, RestoreDataFails, RestoreStops

\* Other commands stand still while one takes a step.
LEMMA OneCommand ==
    ASSUME TypeOK, [Next]_vars, NEW r \in Restore
    PROVE  RestoreStep(r) \/ rs'[r] = rs[r]
<1>1. ASSUME NEW q \in Restore, RestoreStep(q), q # r PROVE rs'[r] = rs[r]
  BY <1>1
     DEF TypeOK, RestoreStep, RestoreRuns, RestoreBegin, ReconcileBegin, RestoreTables,
         RestoreTablesFail, RestoreDatabase, RestoreDataFails, RestoreObject, RestoreMigrate,
         CheckReferences, Flush, Replay, ReplayDeletions, RestoreStops, Drill, RestoreTo,
         RestoreEnds
<1>2. ASSUME NEW s \in Owner, AppStep(s) PROVE rs'[r] = rs[r]
  BY <1>2, TypeApp
<1>3. ASSUME NEW b \in Backup, BackupStep(b) PROVE rs'[r] = rs[r]
  BY <1>3, TypeBackup
<1>4. ASSUME \/ \E s \in Owner : TargetStep(s)
             \/ Discard \/ TargetStarts
      PROVE  rs'[r] = rs[r]
  BY <1>4, TypeTarget
<1>5. CASE OperatorStarts \/ UNCHANGED vars
  BY <1>5 DEF OperatorStarts, vars
<1> QED BY <1>1, <1>2, <1>3, <1>4, <1>5 DEF Next

\* Only an empty target is given tables, and only the command that created them
\* copies rows.
LEMMA OneLoadStep ==
    ASSUME TargetInv, [Next]_vars
    PROVE  OneLoad'
<1>0. TypeOK /\ rs \in [Restore -> RestoreState]
  BY DEF TargetInv, TypeInv, TypeOK
<1>1. ASSUME NEW r \in Restore, rs'[r].pc = "data", rs[r].pc # "data"
      PROVE  RestoreTables(r)
  <2>1. RestoreStep(r)
    BY <1>0, <1>1, OneCommand
  <2>2. ASSUME NEW q, q # "data", RestoreTo(r, q) PROVE FALSE
    BY <1>0, <1>1, <2>2 DEF RestoreTo, RestoreState
  <2>3. ~RestoreEnds(r)
    BY <1>0, <1>1 DEF RestoreEnds, NewRestore
  <2>4. ASSUME NEW b \in Backup, RestoreBegin(r, b) \/ ReconcileBegin(r, b) PROVE FALSE
    BY <1>0, <1>1, <2>4 DEF RestoreBegin, ReconcileBegin
  <2>5. ~RestoreObject(r)
    BY <1>0, <1>1 DEF RestoreObject, RestoreState
  <2>6. ~CheckReferences(r)
    BY <2>2 DEF CheckReferences
  <2>7. ~Drill(r)
    BY <2>2 DEF Drill
  <2> QED BY <2>1, <2>2, <2>3, <2>4, <2>5, <2>6, <2>7
          DEF RestoreStep, RestoreRuns, RestoreTablesFail, RestoreDatabase, RestoreDataFails,
              RestoreMigrate, Flush, Replay, ReplayDeletions, RestoreStops
<1> SUFFICES ASSUME NEW r \in Restore, NEW q \in Restore, rs'[r].pc = "data",
                    rs'[q].pc = "data", r # q
             PROVE  FALSE
  BY DEF OneLoad
<1>2. ASSUME NEW t \in Restore, NEW u \in Restore, t # u, RestoreTables(t), rs'[u].pc = "data"
      PROVE  FALSE
  <2>1. rs'[u] = rs[u] /\ target.loaded = "empty"
    BY <1>0, <1>2 DEF RestoreTables, RestoreTo
  <2> QED BY <1>2, <2>1 DEF TargetInv, LoadInv
<1>3. rs[r].pc = "data" /\ rs[q].pc = "data"
  BY <1>1, <1>2
<1> QED BY <1>3 DEF TargetInv, OneLoad

LEMMA TargetStepInv == TargetInv /\ [Next]_vars => TargetInv'
<1> SUFFICES ASSUME TargetInv, [Next]_vars PROVE TargetInv'
  OBVIOUS
<1>0. TypeInv /\ TypeOK /\ TypeInv'
  BY TypeStep DEF TargetInv, TypeInv
<1>1. \A r \in Restore : LoadInv(r)'
  BY <1>0, OneCommand, LoadWaits, LoadMoves
<1>2. OneLoad'
  BY OneLoadStep
<1> QED BY <1>0, <1>1, <1>2 DEF TargetInv

LEMMA TargetInit == Init => TargetInv
<1> SUFFICES ASSUME Init PROVE TargetInv
  OBVIOUS
<1>1. TypeInv
  BY TypeInit DEF Init, TypeInv, PackageKnown, NewRestore, Writing
<1> QED BY <1>1 DEF Init, TargetInv, OneLoad, LoadInv, NewRestore, Loaded, Checked

LEMMA TargetInvariant == Spec => []TargetInv
BY TargetInit, TargetStepInv, PTL DEF Spec

\* run_restore calls a target completed only with the whole package it was given
\* in it, and it stays whole in service, also when backups overlap and other
\* restores, drills and reconciles run against the target or break off.
THEOREM CompletedIsWhole == Spec => []RestoredIsWhole
<1>1. TargetInv => RestoredIsWhole
  <2> SUFFICES ASSUME TargetInv, NEW r \in Restore, rs[r].pc = "completed", rs[r].fresh
               PROVE  Holds(bk[rs[r].package])
    BY DEF RestoredIsWhole
  <2> DEFINE p == bk[rs[r].package]
  <2>1. RowsOf(p.dump) /\ LiveObjectsThere
    BY DEF TargetInv, LoadInv, Loaded, Checked
  <2>2. ASSUME NEW s \in Owner, p.dump[s].state \in {"live", "skill"}
        PROVE  /\ target.db[s].state = p.dump[s].state
               /\ p.dump[s].key => target.db[s].key /\ s \in target.bucket
    BY <2>1, <2>2 DEF RowsOf, LiveObjectsThere
  <2>3. Present(target.db) \subseteq Present(p.dump)
    BY <2>1 DEF RowsOf, Present
  <2> QED BY <2>2, <2>3 DEF Holds
<1> QED BY <1>1, TargetInvariant, PTL

-----------------------------------------------------------------------------
(* A restore and its package *)

\* The objects of a package that are not being deleted stay where they are.
LEMMA ObjectsStay ==
    ASSUME TypeOK, Kept, NEW r \in Restore, rs[r].package \in Backup,
           RowsOf(bk[rs[r].package].dump), NEW s \in bk[rs[r].package].objects,
           bk[rs[r].package].dump[s].state # "deleting", s \in target.bucket
    PROVE  s \in target'.bucket
<1>1. s \in Owner
  BY DEF TypeOK, BackupState
<1>2. target.db[s].state # "deleting"
  BY <1>1 DEF RowsOf
<1> QED BY <1>2 DEF Kept

\* A command that takes no step keeps what it knows.
LEMMA CommandWaits ==
    ASSUME TargetInv, [Next]_vars, NEW r \in Restore, CommandInv(r), rs'[r] = rs[r]
    PROVE  CommandInv(r)'
<1> SUFFICES ASSUME rs[r].fresh,
                    rs[r].pc \in {"database", "data", "objects", "references", "refused"}
             PROVE  CommandInv(r)'
  BY DEF CommandInv
<1>0. TypeOK /\ rs[r].package \in Backup /\ Published(rs[r].package)
  BY DEF TargetInv, TypeInv, PackageKnown, Writing
<1>1. bk'[rs[r].package] = bk[rs[r].package]
  BY <1>0, PackagesKept
<1> DEFINE p == bk[rs[r].package]
<1>2. CASE rs[r].pc \in {"database", "data", "refused"}
  BY <1>1, <1>2 DEF CommandInv, Flawed
<1>3. CASE rs[r].pc \in {"objects", "references"}
  <2>0. target.loaded = "full" /\ RowsOf(p.dump)
    BY <1>3 DEF TargetInv, LoadInv, Loaded
  <2>1. Kept
    <3>1. ~Discard
      BY <1>3 DEF Discard, Writing
    <3>2. ASSUME NEW q \in Restore PROVE ~Loads(q)
      BY <2>0 DEF Loads, RestoreTables, RestoreDatabase, RestoreDataFails, TargetInv, LoadInv
    <3> QED BY <1>0, <3>1, <3>2, TargetMoves
  <2>3. ASSUME NEW s \in p.objects, p.dump[s].state # "deleting", s \in target.bucket
        PROVE  s \in target'.bucket
    BY <1>0, <2>0, <2>1, <2>3, ObjectsStay
  <2>4. rs[r].pc = "objects" => \A s \in p.objects :
           p.dump[s].state # "deleting" => s \in rs[r].left \cup target'.bucket
    BY <2>3 DEF CommandInv
  <2>5. rs[r].pc = "references" =>
           \A s \in p.objects : p.dump[s].state # "deleting" => s \in target'.bucket
    BY <2>3 DEF CommandInv
  <2> QED BY <1>1, <1>3, <2>4, <2>5 DEF CommandInv
<1> QED BY <1>2, <1>3

\* A restore that is refused has found a source whose deletion was under way or
\* a skill without files: the package has every other object.
LEMMA RefusedForFlaw ==
    ASSUME SnapshotInv, TargetInv, NEW r \in Restore, CommandInv(r), rs[r].fresh,
           rs[r].pc = "references",
           target.loaded # "full" \/ ~(References(target.db) \subseteq target.bucket)
    PROVE  Flawed(bk[rs[r].package])
<1> DEFINE p == bk[rs[r].package]
<1>1. rs[r].package \in Backup /\ Published(rs[r].package)
  BY DEF TargetInv, TypeInv, PackageKnown, Writing
<1>2. Complete(p)
  BY <1>1 DEF SnapshotInv, BackupInv, Published
<1>3. target.loaded = "full" /\ RowsOf(p.dump)
  BY DEF TargetInv, LoadInv, Loaded
<1>4. PICK s \in References(target.db) : s \notin target.bucket
  BY <1>3
<1>5. s \in Owner /\ target.db[s].state \in {"live", "deleting", "skill"} /\ target.db[s].key
  BY <1>4 DEF References, Present
<1>6. target.db[s].state = p.dump[s].state /\ target.db[s].key = p.dump[s].key
  BY <1>3, <1>5 DEF RowsOf
<1>7. s \in p.objects => p.dump[s].state = "deleting"
  BY <1>4 DEF CommandInv
<1>8. p.dump[s].state = "live" => s \in p.objects
  BY <1>2, <1>5, <1>6 DEF Complete
<1> QED BY <1>5, <1>6, <1>7, <1>8 DEF Flawed

LEMMA CommandMoves ==
    ASSUME SnapshotInv, TargetInv, NEW r \in Restore, CommandInv(r), RestoreStep(r)
    PROVE  CommandInv(r)'
<1>0. /\ TypeOK /\ TypeInv /\ bk' = bk /\ target \in Target
      /\ rs \in [Restore -> RestoreState] /\ rs[r] \in RestoreState
  BY TypeRestore DEF TargetInv, TypeInv, TypeOK
<1>1. CASE RestoreEnds(r)
  BY <1>0, <1>1 DEF RestoreEnds, NewRestore, CommandInv
<1>2. ASSUME NEW b \in Backup, RestoreBegin(r, b) PROVE CommandInv(r)'
  BY <1>0, <1>2 DEF RestoreBegin, CommandInv
<1>3. ASSUME NEW b \in Backup, ReconcileBegin(r, b) PROVE CommandInv(r)'
  BY <1>0, <1>3 DEF ReconcileBegin, CommandInv
<1>4. CASE RestoreTables(r) \/ RestoreDatabase(r)
  <2>1. /\ rs'[r].pc \in {"data", "objects"} /\ rs'[r].package = rs[r].package
        /\ rs'[r].left = rs[r].left /\ rs'[r].fresh = rs[r].fresh
        /\ rs[r].pc \in {"database", "data"}
    BY <1>0, <1>4 DEF RestoreTables, RestoreDatabase, RestoreTo, RestoreState
  <2> QED BY <1>0, <2>1 DEF CommandInv
<1>6. CASE RestoreObject(r)
  <2>1. PICK s \in rs[r].left : /\ target' = [target EXCEPT !.bucket = @ \cup {s}]
                                /\ rs' = [rs EXCEPT ![r].left = @ \ {s}]
    BY <1>6 DEF RestoreObject
  <2>2. /\ rs'[r].pc = "objects" /\ rs[r].pc = "objects" /\ rs'[r].package = rs[r].package
        /\ rs'[r].fresh = rs[r].fresh /\ rs'[r].left = rs[r].left \ {s}
    BY <1>0, <1>6, <2>1 DEF RestoreObject, RestoreState
  <2>3. target'.bucket = target.bucket \cup {s}
    BY <1>0, <2>1 DEF Target
  <2> QED BY <1>0, <2>2, <2>3 DEF CommandInv
<1>7. CASE RestoreMigrate(r)
  <2>1. /\ rs'[r].pc = "references" /\ rs[r].pc = "objects" /\ rs'[r].package = rs[r].package
        /\ rs'[r].fresh = rs[r].fresh /\ rs[r].left = {} /\ target' = target
    BY <1>0, <1>7 DEF RestoreMigrate, RestoreTo, RestoreState
  <2> QED BY <1>0, <2>1 DEF CommandInv
<1>8. CASE CheckReferences(r)
  <2>1. /\ rs[r].pc = "references" /\ rs'[r].package = rs[r].package
        /\ rs'[r].fresh = rs[r].fresh
        /\ \/ rs'[r].pc = "flush"
           \/ /\ rs'[r].pc = "refused"
              /\ target.loaded # "full" \/ ~(References(target.db) \subseteq target.bucket)
    BY <1>0, <1>8 DEF CheckReferences, RestoreTo, RestoreState
  <2>2. rs[r].fresh /\ rs'[r].pc = "refused" => Flawed(bk[rs[r].package])
    BY <2>1, RefusedForFlaw
  <2>3. Flawed(bk[rs[r].package]) => Flawed(bk'[rs'[r].package])
    BY <1>0, <2>1 DEF Flawed
  <2> QED BY <1>0, <2>1, <2>2, <2>3 DEF CommandInv, Flawed
<1>9. CASE Flush(r) \/ Replay(r) \/ ReplayDeletions(r) \/ Drill(r)
  <2>1. rs'[r].pc \in {"replay", "deletions", "completed", "passed", "missed"}
    <3>1. PICK q \in {"replay", "deletions", "completed", "passed", "missed"} : RestoreTo(r, q)
      <4>1. CASE Drill(r)
        BY <4>1 DEF Drill
      <4>2. CASE Flush(r) \/ Replay(r) \/ ReplayDeletions(r)
        BY <4>2 DEF Flush, Replay, ReplayDeletions
      <4> QED BY <1>9, <4>1, <4>2
    <3> QED BY <1>0, <3>1 DEF RestoreTo, RestoreState
  <2> QED BY <2>1 DEF CommandInv
<1> QED BY <1>1, <1>2, <1>3, <1>4, <1>6, <1>7, <1>8, <1>9
        DEF RestoreStep, RestoreRuns, RestoreTablesFail, RestoreDataFails, RestoreStops

LEMMA RestoreStepInv ==
    ASSUME ~MayOverlap, RestoreInv, [Next]_vars
    PROVE  RestoreInv'
<1>0. SnapshotInv /\ TargetInv /\ TypeInv /\ TypeOK
  BY DEF RestoreInv, TargetInv, TypeInv
<1>1. SnapshotInv' /\ TargetInv'
  BY <1>0, SnapshotStep, TargetStepInv
<1>2. \A r \in Restore : CommandInv(r)'
  BY <1>0, OneCommand, CommandMoves, CommandWaits DEF RestoreInv
<1> QED BY <1>1, <1>2 DEF RestoreInv

LEMMA RestoreInvariant == ASSUME ~MayOverlap PROVE Spec => []RestoreInv
<1>1. Init => RestoreInv
  BY SnapshotInit, TargetInit DEF Init, RestoreInv, CommandInv, NewRestore
<1>2. RestoreInv /\ [Next]_vars => RestoreInv'
  BY RestoreStepInv
<1> QED BY <1>1, <1>2, PTL DEF Spec

\* reconcile_object_references refuses a restored package only for a source
\* that was being deleted when the backup read it, or a skill that had lost its
\* files by then.
THEOREM RefusalIsThePackages == ASSUME ~MayOverlap PROVE Spec => []RefusedForItsPackage
<1>1. RestoreInv => RefusedForItsPackage
  BY DEF RestoreInv, CommandInv, RefusedForItsPackage, Flawed
<1> QED BY <1>1, RestoreInvariant, PTL

\* run_drill passes only on a target with every row and object of its package
\* and a job for everything that is open, although _drill_checks compares
\* numbers of rows only.
THEOREM DrillIsTruthful == ASSUME ~MayOverlap PROVE Spec => DrillTellsTruth
<1> DEFINE A == \A r \in Restore :
                  rs[r].pc = "completed" /\ rs'[r].pc = "passed" =>
                     LET p == bk[rs[r].package] IN
                     /\ Present(target.db) = Present(p.dump)
                     /\ p.objects \subseteq target.bucket
                     /\ \A s \in Owner : Open(target.db[s]) =>
                           s \in target.queue \/ target.db[s].work = "running"
<1>1. RestoreInv /\ [Next]_vars => A
  <2> SUFFICES ASSUME RestoreInv, [Next]_vars, NEW r \in Restore,
                      rs[r].pc = "completed", rs'[r].pc = "passed"
               PROVE  LET p == bk[rs[r].package] IN
                      /\ Present(target.db) = Present(p.dump)
                      /\ p.objects \subseteq target.bucket
                      /\ \A s \in Owner : Open(target.db[s]) =>
                            s \in target.queue \/ target.db[s].work = "running"
    OBVIOUS
  <2>0. SnapshotInv /\ TypeOK /\ rs \in [Restore -> RestoreState] /\ LoadInv(r)
        /\ rs[r].package \in Backup /\ Published(rs[r].package)
    BY DEF RestoreInv, TargetInv, TypeInv, TypeOK, PackageKnown
  <2>1. Drill(r)
    <3>1. rs'[r] # rs[r]
      OBVIOUS
    <3>2. RestoreStep(r)
      BY <2>0, <3>1, OneCommand
    <3> QED BY <3>2
            DEF RestoreStep, RestoreRuns, RestoreBegin, ReconcileBegin, RestoreTables,
                RestoreTablesFail, RestoreDatabase, RestoreDataFails, RestoreObject,
                RestoreMigrate, CheckReferences, Flush, Replay, ReplayDeletions,
                RestoreStops, Writing
  <2> DEFINE p == bk[rs[r].package]
  <2>2. rs[r].fresh /\ DrillChecks(p)
    <3>1. rs'[r].pc = IF DrillChecks(p) THEN "passed" ELSE "missed"
      BY <2>0, <2>1 DEF Drill, RestoreTo, RestoreState
    <3> QED BY <2>1, <3>1 DEF Drill
  <2>3. Present(target.db) = Present(p.dump)
    <3>1. Present(target.db) \subseteq Present(p.dump)
      BY <2>0, <2>2 DEF LoadInv, Loaded, Checked, RowsOf, Present
    <3>2. p.count = Cardinality(Present(p.dump))
      BY <2>0 DEF SnapshotInv, BackupInv, Published, Complete
    <3>3. Cardinality(Present(target.db)) = Cardinality(Present(p.dump))
      BY <2>2, <3>2 DEF DrillChecks
    <3>4. IsFiniteSet(Present(p.dump))
      <4>1. IsFiniteSet(Owner) /\ Present(p.dump) \subseteq Owner
        BY BackupRestoreConstants DEF Present
      <4> QED BY <4>1, FS_Subset
    <3> QED BY <3>1, <3>3, <3>4, FS_Subset
  <2>4. ASSUME NEW s \in Owner, Open(target.db[s])
        PROVE  s \in target.queue \/ target.db[s].work = "running"
    BY <2>2, <2>4 DEF DrillChecks, Open
  <2>5. p.objects \subseteq target.bucket
    BY <2>2 DEF DrillChecks
  <2> QED BY <2>3, <2>4, <2>5
<1>2. RestoreInv /\ [Next]_vars => [A]_vars
  BY <1>1
<1> QED BY <1>2, RestoreInvariant, PTL DEF Spec, DrillTellsTruth
=============================================================================
