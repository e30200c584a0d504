---------------------------- MODULE SourceDeletion ----------------------------
(***************************************************************************)
(* Database-led deletion of sources (src/cygnus/runtime/source_deletion.py): *)
(* a request commits the tombstone and a cleanup intent in one transaction; *)
(* the sweeps of the worker claim the intents, remove the storage prefix     *)
(* object by object outside any transaction, and only then remove the row.  *)
(* Two sweeps may overlap, a sweep may die anywhere, storage may fail in the *)
(* middle of a prefix, requests race each other and the sweeps, and a worker *)
(* of the source may still be uploading and committing.                     *)
(***************************************************************************)
EXTENDS Integers, FiniteSets

CONSTANTS
    Source,       \* the sources
    Ingesting,    \* those with an ingest task that may still run
    Object,       \* names of storage objects below a source's prefix
    Sweeper,      \* sweeps that may overlap
    Limit,        \* intents one sweep selects (25 in the code)
    MaxAttempts,  \* MAX_SOURCE_DELETION_ATTEMPTS
    MaxFaults     \* bound: storage errors, database errors and crashes

ASSUME DeletionAssumption ==
    /\ IsFiniteSet(Source)
    /\ Ingesting \subseteq Source
    /\ Limit \in Nat \ {0}
    /\ MaxAttempts \in Nat \ {0}
    /\ MaxFaults \in Nat

VARIABLES
    source,   \* sources rows: live, tombstoned (delete_requested_at), gone
    intent,   \* source_deletions rows, one per source
    store,    \* the objects below each source's prefix
    held,     \* those that were there when the tombstone was committed
    request,  \* transactions of request_source_deletion
    sweep,    \* runs of sweep_source_deletions
    work,     \* the worker of the source's current execution
    answer,   \* what the DELETE that tombstoned a source answered
    faults

vars == <<source, intent, store, held, request, sweep, work, answer, faults>>

\* who calls request_source_deletion: the DELETE handler or the orphan cron
Requester == {"delete", "orphans"}

Active == {"pending", "in_progress", "failed"}
Status == Active \cup {"none", "completed"}

NoSweep == [at |-> "idle", due |-> {}, row |-> {}, left |-> {}]
NoRequest == [at |-> "idle", src |-> {}, live |-> FALSE, seen |-> "none"]

IntentRow == [status : Status, linked : BOOLEAN, requested : Nat,
              attempts : 0..MaxAttempts, error : {"none", "error", "exhausted"},
              due : BOOLEAN]
RequestTx == [at : {"idle", "loaded", "read"}, src : SUBSET Source,
              live : BOOLEAN, seen : Status]
SweepRun == [at : {"idle", "claim", "list", "remove"}, due : SUBSET Source,
             row : SUBSET Source, left : SUBSET Object]
WorkRun == [at : {"new", "extract", "parked", "compile", "done"},
            exec : {"none", "running", "stale", "completed"},
            todo : SUBSET Object]

TypeOK ==
    /\ source \in [Source -> {"live", "tombstoned", "gone"}]
    /\ intent \in [Source -> IntentRow]
    /\ store \in [Source -> SUBSET Object]
    /\ held \in [Source -> SUBSET Object]
    /\ request \in [Requester -> RequestTx]
    /\ sweep \in [Sweeper -> SweepRun]
    /\ work \in [Source -> WorkRun]
    /\ answer \in [Source -> {"none", "completed"}]
    /\ faults \in 0..MaxFaults

\* a source has its objects, or those its ingest will add are still to come
Init ==
    /\ source = [s \in Source |-> "live"]
    /\ intent = [s \in Source |-> [status |-> "none", linked |-> FALSE,
                                   requested |-> 0, attempts |-> 0,
                                   error |-> "none", due |-> FALSE]]
    /\ store \in [Source -> SUBSET Object]
    /\ \A s \in Source \ Ingesting : store[s] = Object
    /\ held = [s \in Source |-> {}]
    /\ request = [r \in Requester |-> NoRequest]
    /\ sweep = [w \in Sweeper |-> NoSweep]
    /\ work = [s \in Source |-> [at |-> IF s \in Ingesting THEN "new" ELSE "done",
                                 exec |-> "none",
                                 todo |-> Object \ store[s]]]
    /\ answer = [s \in Source |-> "none"]
    /\ faults = 0

-------------------------------------------------------------------------------
(* Requests *)

\* the row lock an uncommitted UPDATE of the source row holds
Locked(s) == \E r \in Requester :
    request[r].at = "read" /\ request[r].live /\ s \in request[r].src

\* delete_source loads the row; one already tombstoned is answered "pending"
\* at once and nothing changes
ApiLoad(s) ==
    /\ request["delete"].at = "idle"
    /\ source[s] = "live"
    /\ request' = [request EXCEPT !["delete"] =
          [at |-> "loaded", src |-> {s}, live |-> TRUE, seen |-> "none"]]
    /\ UNCHANGED <<source, intent, store, held, sweep, work, answer, faults>>

\* cleanup_orphan_awaiting_approval_cron selects the sources parked past their
\* TTL, tombstoned ones too
CronLoad(s) ==
    /\ request["orphans"].at = "idle"
    /\ work[s].at = "parked"
    /\ source[s] # "gone"
    /\ request' = [request EXCEPT !["orphans"] =
          [at |-> "loaded", src |-> {s}, live |-> source[s] = "live",
           seen |-> "none"]]
    /\ UNCHANGED <<source, intent, store, held, sweep, work, answer, faults>>

\* request_source_deletion up to its SELECT of the intent: a row loaded live is
\* first updated, which waits for its lock; a removed row fails the transaction
RequestRead(r) ==
    /\ request[r].at = "loaded"
    /\ \E s \in request[r].src :
          /\ request[r].live => ~Locked(s)
          /\ request' = [request EXCEPT ![r] =
                IF source[s] = "gone" THEN NoRequest
                ELSE [@ EXCEPT !.at = "read", !.seen = intent[s].status]]
    /\ UNCHANGED <<source, intent, store, held, sweep, work, answer, faults>>

\* process_source_deletion(source_id): the DELETE handler passes the id of the
\* source where an id of an intent is looked up, and no intent has that id
ImmediateCleanup == "completed"

\* requested_at only orders the rows
Intents == Cardinality({s \in Source : intent[s].status # "none"})

\* mutant: a replayed request leaves the old error on the row
RequestedKeepsError(i, seen) ==
    IF seen = "none" THEN [i EXCEPT !.status = "pending", !.linked = TRUE,
                                    !.requested = Intents]
    ELSE IF seen = "failed" THEN [i EXCEPT !.status = "pending"] ELSE i

\* what the transaction writes to the intent it read
Requested(i, seen) ==
    CASE seen = "none" -> [i EXCEPT !.status = "pending", !.linked = TRUE,
                                    !.requested = Intents]
      [] seen = "failed" -> [i EXCEPT !.status = "pending", !.error = "none"]
      [] OTHER -> i

\* the commit: tombstone, closed executions and intent together
RequestCommit(r) ==
    /\ request[r].at = "read"
    /\ \E s \in request[r].src :
          /\ source' = [source EXCEPT ![s] =
                IF @ = "live" THEN "tombstoned" ELSE @]
          /\ held' = [held EXCEPT ![s] =
                IF source[s] = "live" THEN store[s] ELSE @]
          /\ work' = [work EXCEPT ![s].exec = IF @ = "running" THEN "stale" ELSE @]
          /\ intent' = [intent EXCEPT ![s] = Requested(@, request[r].seen)]
          /\ answer' = [answer EXCEPT ![s] =
                IF r = "delete" THEN ImmediateCleanup ELSE @]
    /\ request' = [request EXCEPT ![r] = NoRequest]
    /\ UNCHANGED <<store, sweep, faults>>

\* the process of the request dies before the commit
RequestAbort(r) ==
    /\ request[r].at # "idle"
    /\ faults < MaxFaults
    /\ faults' = faults + 1
    /\ request' = [request EXCEPT ![r] = NoRequest]
    /\ UNCHANGED <<source, intent, store, held, sweep, work, answer>>

-------------------------------------------------------------------------------
(* Sweeps *)

\* a failed intent waits for SOURCE_DELETION_BACKOFF since its last update
BackoffElapses(s) ==
    /\ intent[s].status = "failed"
    /\ ~intent[s].due
    /\ intent' = [intent EXCEPT ![s].due = TRUE]
    /\ UNCHANGED <<source, store, held, request, sweep, work, answer, faults>>

\* mutant: a claimed intent is left to the sweep that claimed it
IsRetryDueUnlessClaimed(i) ==
    i.status = "pending" \/ (i.status = "failed" /\ i.due)

IsRetryDue(i) == i.status = "failed" => i.due

\* the oldest Limit active intents that still name a source; only then is the
\* backoff applied
Selected ==
    LET active == {s \in Source : intent[s].status \in Active /\ intent[s].linked}
        older(s) == {t \in active : intent[t].requested < intent[s].requested}
    IN  {s \in active : Cardinality(older(s)) < Limit /\ IsRetryDue(intent[s])}

SweepSelect(w) ==
    /\ sweep[w].at = "idle"
    /\ Selected # {}
    /\ sweep' = [sweep EXCEPT ![w] =
          [at |-> "claim", due |-> Selected, row |-> {}, left |-> {}]]
    /\ UNCHANGED <<source, intent, store, held, request, work, answer, faults>>

\* the sweep goes on with the rows left, or ends
NextRow(due) ==
    IF due = {} THEN NoSweep
    ELSE [at |-> "claim", due |-> due, row |-> {}, left |-> {}]

\* process_source_deletion under the row lock: nothing to do, or claimed
Finished(i) == i.status = "completed" \/ ~i.linked

Claimed(i) ==
    [i EXCEPT !.status = "in_progress", !.error = "none", !.due = FALSE,
              !.attempts = IF @ < MaxAttempts THEN @ + 1 ELSE @]

Completed(i) ==
    [i EXCEPT !.status = "completed", !.linked = FALSE, !.error = "none",
              !.due = FALSE]

SweepClaim(w) ==
    /\ sweep[w].at = "claim"
    /\ \E s \in sweep[w].due :
          /\ \A t \in sweep[w].due : intent[s].requested <= intent[t].requested
          /\ intent' = [intent EXCEPT ![s] =
                IF Finished(@) THEN [@ EXCEPT !.status = "completed"]
                ELSE Claimed(@)]
          /\ sweep' = [sweep EXCEPT ![w] =
                IF Finished(intent[s]) THEN NextRow(sweep[w].due \ {s})
                ELSE [at |-> "list", due |-> sweep[w].due \ {s}, row |-> {s},
                      left |-> {}]]
    /\ UNCHANGED <<source, store, held, request, work, answer, faults>>

\* delete_prefix lists the prefix ...
SweepList(w) ==
    /\ sweep[w].at = "list"
    /\ \E s \in sweep[w].row :
          sweep' = [sweep EXCEPT ![w].at = "remove", ![w].left = store[s]]
    /\ UNCHANGED <<source, intent, store, held, request, work, answer, faults>>

\* ... and removes the listed objects one by one; a missing one is a success
SweepObject(w) ==
    /\ sweep[w].at = "remove"
    /\ \E s \in sweep[w].row, o \in sweep[w].left :
          /\ sweep' = [sweep EXCEPT ![w].left = @ \ {o}]
          /\ store' = [store EXCEPT ![s] = @ \ {o}]
          /\ held' = [held EXCEPT ![s] = @ \ {o}]
    /\ UNCHANGED <<source, intent, request, work, answer, faults>>

\* mutant: past the retry budget the intent is closed
FailedGivesUp(i, exhausted) ==
    IF i.status = "completed" \/ exhausted THEN [i EXCEPT !.status = "completed"]
    ELSE [i EXCEPT !.status = "failed", !.due = FALSE, !.error = "error"]

Failed(i, exhausted) ==
    IF i.status = "completed" THEN i
    ELSE [i EXCEPT !.status = "failed", !.due = FALSE,
                   !.error = IF exhausted THEN "exhausted" ELSE "error"]

\* a storage error, while listing or with some objects already removed; past
\* the budget only the text of the error changes
StorageFails(w) ==
    /\ sweep[w].at \in {"list", "remove"}
    /\ sweep[w].at = "remove" => sweep[w].left # {}
    /\ faults < MaxFaults
    /\ faults' = faults + 1
    /\ \E s \in sweep[w].row :
          intent' = [intent EXCEPT ![s] = Failed(@, @.attempts >= MaxAttempts)]
    /\ sweep' = [sweep EXCEPT ![w] = NextRow(sweep[w].due)]
    /\ UNCHANGED <<source, store, held, request, work, answer>>

\* the second transaction: under the locks of the intent and of the source row
RemoveRows(w) ==
    /\ sweep[w].at = "remove"
    /\ sweep[w].left = {}
    /\ \E s \in sweep[w].row :
          /\ ~Locked(s)
          /\ source' = [source EXCEPT ![s] =
                IF Finished(intent[s]) THEN @ ELSE "gone"]
          /\ work' = [work EXCEPT ![s].exec =
                IF Finished(intent[s]) THEN @ ELSE "none"]
          /\ intent' = [intent EXCEPT ![s] =
                IF Finished(@) THEN [@ EXCEPT !.status = "completed"]
                ELSE Completed(@)]
    /\ sweep' = [sweep EXCEPT ![w] = NextRow(sweep[w].due)]
    /\ UNCHANGED <<store, held, request, answer, faults>>

\* that transaction fails and rolls back (a deadlock, a detach error)
RemoveFails(w) ==
    /\ sweep[w].at = "remove"
    /\ sweep[w].left = {}
    /\ faults < MaxFaults
    /\ faults' = faults + 1
    /\ \E s \in sweep[w].row :
          intent' = [intent EXCEPT ![s] = Failed(@, FALSE)]
    /\ sweep' = [sweep EXCEPT ![w] = NextRow(sweep[w].due)]
    /\ UNCHANGED <<source, store, held, request, work, answer>>

\* the worker process dies; the intent stays in_progress, without a lease
SweepCrash(w) ==
    /\ sweep[w].at # "idle"
    /\ faults < MaxFaults
    /\ faults' = faults + 1
    /\ sweep' = [sweep EXCEPT ![w] = NoSweep]
    /\ UNCHANGED <<source, intent, store, held, request, work, answer>>

-------------------------------------------------------------------------------
(* The worker of a source that is being deleted *)

\* the task's entry check and its claim
WorkStart(s) ==
    /\ work[s].at = "new"
    /\ work' = [work EXCEPT ![s] =
          IF source[s] = "live"
          THEN [@ EXCEPT !.at = "extract", !.exec = "running"]
          ELSE [@ EXCEPT !.at = "done"]]
    /\ UNCHANGED <<source, intent, store, held, request, sweep, answer, faults>>

\* extraction uploads images below the prefix; nothing is checked around it
WorkUpload(s) ==
    /\ work[s].at = "extract"
    /\ \E o \in work[s].todo :
          /\ store' = [store EXCEPT ![s] = @ \cup {o}]
          /\ work' = [work EXCEPT ![s].todo = @ \ {o}]
    /\ UNCHANGED <<source, intent, held, request, sweep, answer, faults>>

\* a large text waits for a human: no fence, only the row must still exist
WorkPark(s) ==
    /\ work[s].at = "extract"
    /\ source[s] # "gone"
    /\ ~Locked(s)
    /\ work' = [work EXCEPT ![s].at = "parked",
                            ![s].exec = IF @ = "running" THEN "completed" ELSE @]
    /\ UNCHANGED <<source, intent, store, held, request, sweep, answer, faults>>

\* approve_extraction resumes a source that is not tombstoned
ApproveExtraction(s) ==
    /\ work[s].at = "parked"
    /\ source[s] = "live"
    /\ ~Locked(s)
    /\ work' = [work EXCEPT ![s].at = "compile", ![s].exec = "running"]
    /\ UNCHANGED <<source, intent, store, held, request, sweep, answer, faults>>

\* fence_source_dispatch: a plain read of the source and of the execution
WorkFence(s) ==
    /\ work[s].at = "extract"
    /\ work' = [work EXCEPT ![s].at =
          IF source[s] = "live" /\ work[s].exec = "running" THEN "compile"
          ELSE "done"]
    /\ UNCHANGED <<source, intent, store, held, request, sweep, answer, faults>>

\* run_commit_phase stages the drafts and marks plan and source, which fails
\* only on a removed row; complete_source_dispatch needs the claim
WorkCommit(s) ==
    /\ work[s].at = "compile"
    /\ ~Locked(s)
    /\ work' = [work EXCEPT ![s].at = "done",
                            ![s].exec = IF @ = "running" THEN "completed" ELSE @]
    /\ UNCHANGED <<source, intent, store, held, request, sweep, answer, faults>>

-------------------------------------------------------------------------------
Next ==
    \/ \E s \in Source :
          \/ ApiLoad(s) \/ CronLoad(s)
          \/ BackoffElapses(s)
          \/ WorkStart(s) \/ WorkUpload(s) \/ WorkFence(s)
          \/ WorkPark(s) \/ ApproveExtraction(s) \/ WorkCommit(s)
    \/ \E r \in Requester : RequestRead(r) \/ RequestCommit(r) \/ RequestAbort(r)
    \/ \E w \in Sweeper :
          \/ SweepSelect(w) \/ SweepClaim(w) \/ SweepList(w) \/ SweepObject(w)
          \/ StorageFails(w) \/ RemoveRows(w) \/ RemoveFails(w) \/ SweepCrash(w)

\* a sweep that runs goes on, and the cron starts the next one
SweepStep(w) ==
    SweepSelect(w) \/ SweepClaim(w) \/ SweepList(w) \/ SweepObject(w)
    \/ RemoveRows(w)

Fairness ==
    /\ \A w \in Sweeper : WF_vars(SweepStep(w))
    /\ \A s \in Source : WF_vars(BackoffElapses(s))
    /\ \A r \in Requester : WF_vars(RequestRead(r) \/ RequestCommit(r))

Spec == Init /\ [][Next]_vars /\ Fairness

-------------------------------------------------------------------------------
(* Properties *)

\* A completed intent means the row is gone, and a row is gone only with every
\* object it had at its tombstone: whatever sweeps overlapped, died or failed
\* halfway through the prefix (process_source_deletion).
ErasedMeansClean ==
    \A s \in Source :
        /\ intent[s].status = "completed" => source[s] = "gone"
        /\ source[s] = "gone" => held[s] = {} /\ ~intent[s].linked

\* While the source is there, a failed cleanup shows its error until it is
\* retried, and an intent that is not failed shows none (last_error over claims,
\* replayed requests and overlapping sweeps).
FailureIsVisible ==
    \A s \in Source : source[s] # "gone" =>
        (intent[s].status = "failed" <=> intent[s].error # "none")

\* Sweeps, retries and requests together do what deletion promises: hide, clean,
\* then remove, and every hidden source is removed (module docstring).
Contract == INSTANCE DeletionContract WITH
    Source <- Source, Object <- Object, source <- source, held <- held
DeletionContractHolds == Contract!Spec

\* The answer of DELETE is what became of the intent: "Returns the intent row's
\* terminal status" (docstring of process_source_deletion).
AnswerIsTrue ==
    \A s \in Source : answer[s] = "completed" => intent[s].status = "completed"

\* A request "never downgrades a row that is already being cleaned up" (docstring
\* of request_source_deletion).
NeverDowngraded ==
    [][\A s \in Source : intent[s].status = "completed" =>
                          intent'[s].status = "completed"]_vars

\* "a worker for a tombstoned source must never commit progress or pages in the
\* window before the sweeper removes the row" (comment in request_source_deletion).
NoLateCommit ==
    [][\A s \in Source : WorkCommit(s) => source[s] # "tombstoned"]_vars
===============================================================================
