----------------------------- MODULE PreReview -----------------------------
(***************************************************************************)
(* AI pre-review of one wiki draft: the durable outbox of                  *)
(* review/pre_review/dispatch.py, the worker task of runner.py, the cron   *)
(* sweep for runs whose worker died, and the draft lifecycle operations    *)
(* that stage, supersede or close a revision under their feet.             *)
(*                                                                         *)
(* A revision stands for the pair (version, revision_round): the version   *)
(* grows with every change of content and determines the round, so         *)
(* comparing the pair is comparing the version.  Each action is one        *)
(* database transaction, one call of the queue, or one fault; transactions *)
(* lock the draft row, then the intent.  A lease or a backoff is abstracted *)
(* to the flag due, and attempt_count to what the code compares it for: an *)
(* attempt still owns its lease if nobody has claimed the intent since, and *)
(* the retry budget is counted up to its limit.                            *)
(***************************************************************************)
EXTENDS Naturals, FiniteSets

CONSTANTS
    Sweeper,             \* concurrent runs of sweep_ai_pre_review_dispatches
    Worker,              \* ARQ worker slots
    MaxRevision,         \* bound: revisions of the draft
    MaxEnqueueAttempts,  \* MAX_AI_PRE_REVIEW_ENQUEUE_ATTEMPTS
    Ops,                 \* the lifecycle operations in scope
    Stalls,              \* operations that may stall between read and commit
    Faults,              \* which faults the environment may inject
    MaxFaults            \* bound: how many of them in one behaviour

Edits == {"update", "submit", "resubmit", "rebase"}

OpKinds == Edits \cup {"branch_submit", "disable"}

FaultKinds ==
    {"crash",          \* a sweeping or working process dies
     "timeout",        \* the queue cancels a task that ran too long
     "db_error",       \* the first transaction of a task fails
     "enqueue_error",  \* enqueue_job raises, with or without having enqueued
     "slow"}           \* a lease runs out although its work goes on

ASSUME PreReviewConstants ==
    /\ MaxRevision \in Nat \ {0}
    /\ MaxEnqueueAttempts \in Nat \ {0}
    /\ MaxFaults \in Nat
    /\ Ops \subseteq OpKinds
    /\ Stalls \subseteq Ops \cap Edits
    /\ Faults \subseteq FaultKinds

VARIABLES
    draft,     \* the columns of the wiki_page_drafts row that matter here
    edit,      \* an author's request that holds the aggregate lock
    dispatch,  \* the outbox rows, by revision
    job,       \* what Redis holds for the job id of a revision
    sw,        \* the claim each sweep is delivering
    wk,        \* the revision each worker is checking, 0 when idle
    stuck,     \* how far sweep_stuck_ai_review_cron is with the draft
    faults     \* how many faults have happened

vars == <<draft, edit, dispatch, job, sw, wk, stuck, faults>>

-----------------------------------------------------------------------------
(* Vocabulary *)

Revision == 1..MaxRevision

\* approved, rejected and withdrawn are one status here: nothing of the
\* pre-review tells them apart.
DraftStatus == {"draft", "pending", "needs_revision", "closed"}

\* passed, warned and failed are the verdict "checked".
Final == {"checked", "skipped"}

AiStatus == {"pending", "queued", "running"} \cup Final

\* results is the revision whose content ai_check_results is about, 0 for
\* none.  Two flags are history.  reopened: a branch once put the draft back into
\* review with a revision that was staged before, or under an open edit.  raced:
\* the last edit that starts the checks anew was a rebase that had read
\* "pending", while a sweep moved the mark on before it committed.
DraftRow ==
    [status : DraftStatus, rev : Revision, ai : AiStatus,
     results : 0..MaxRevision, reopened : BOOLEAN, raced : BOOLEAN]

Open == {"pending", "dispatching", "enqueued"}

Terminal == {"completed", "disabled", "stale", "failed"}

DispatchRow ==
    [status : {"none", "running"} \cup Open \cup Terminal,
     spent : 0..MaxEnqueueAttempts, due : BOOLEAN]

NoRow == [status |-> "none", spent |-> 0, due |-> FALSE]

NewRow == [status |-> "pending", spent |-> 0, due |-> TRUE]

NoEdit == [op |-> "none", status |-> "draft", ai |-> "pending", results |-> 0]

Edit ==
    [op : Edits \cup {"none"}, status : DraftStatus, ai : AiStatus, results : 0..MaxRevision]

SweepState ==
    [pc : {"idle", "enqueue", "ack", "nack"}, rev : Revision,
     spent : 0..MaxEnqueueAttempts, owns : BOOLEAN]

IdleSweep == [pc |-> "idle", rev |-> 1, spent |-> 0, owns |-> FALSE]

\* missed: the cron's first statement found the draft running no more
StuckState == {"no", "selected", "missed"}

JobState == {"none", "queued", "running", "result"}

TypeOK ==
    /\ draft \in DraftRow
    /\ edit \in Edit
    /\ dispatch \in [Revision -> DispatchRow]
    /\ job \in [Revision -> JobState]
    /\ sw \in [Sweeper -> SweepState]
    /\ wk \in [Worker -> 0..MaxRevision]
    /\ stuck \in StuckState
    /\ faults \in 0..MaxFaults

\* A draft is created in review with its intent, or as an unsubmitted draft.
Init ==
    /\ \E s \in {"draft", "pending"} :
          /\ draft = [status |-> s, rev |-> 1, ai |-> "pending",
                      results |-> 0, reopened |-> FALSE, raced |-> FALSE]
          /\ dispatch = [r \in Revision |->
                            IF r = 1 /\ s = "pending" THEN NewRow ELSE NoRow]
    /\ edit = NoEdit
    /\ job = [r \in Revision |-> "none"]
    /\ sw = [s \in Sweeper |-> IdleSweep]
    /\ wk = [w \in Worker |-> 0]
    /\ stuck = "no"
    /\ faults = 0

Fault(kind) ==
    /\ kind \in Faults
    /\ faults < MaxFaults
    /\ faults' = faults + 1

-----------------------------------------------------------------------------
(* The draft lifecycle *)

\* Mutant: the uniqueness constraint is on the draft alone
StagedOncePerDraft(r) ==
    IF \E q \in Revision : dispatch[q].status # "none" THEN dispatch
    ELSE [dispatch EXCEPT ![r] = NewRow]

\* stage_ai_pre_review: one intent per revision, the first one stays.
Staged(r) ==
    [dispatch EXCEPT ![r] = IF dispatch[r].status = "none" THEN NewRow ELSE dispatch[r]]

MayEdit(op) ==
    /\ edit.op = "none"
    /\ op \in Ops
    /\ draft.status \in CASE op = "update"   -> {"draft", "needs_revision"}
                          [] op = "submit"   -> {"draft"}
                          [] op = "resubmit" -> {"needs_revision"}
                          [] op = "rebase"   -> {"pending"}
    /\ op # "submit" => draft.rev < MaxRevision

\* The edit as it reaches the row: seen is what the request read, and the
\* session writes only the columns whose new value differs from that.
Edited(seen) ==
    LET resets == seen.op \in {"resubmit", "rebase"} \/ seen.status = "needs_revision"
        target == IF seen.op = "update" THEN "draft" ELSE "pending"
    IN  [status   |-> IF seen.status # target THEN target ELSE draft.status,
         rev      |-> IF seen.op = "submit" THEN draft.rev ELSE draft.rev + 1,
         ai       |-> IF resets /\ seen.ai # "pending" THEN "pending" ELSE draft.ai,
         results  |-> IF resets /\ seen.results # 0 THEN 0 ELSE draft.results,
         reopened |-> draft.reopened,
         raced    |-> IF resets THEN /\ seen.op = "rebase" /\ seen.ai = "pending"
                                     /\ draft.ai # "pending"
                      ELSE draft.raced]

CommitEdit(seen) ==
    /\ draft' = Edited(seen)
    /\ dispatch' = IF seen.op # "update" THEN Staged(Edited(seen).rev) ELSE dispatch
    /\ edit' = NoEdit

Seen(op) ==
    [op |-> op, status |-> draft.status, ai |-> draft.ai, results |-> draft.results]

Author(op) ==
    /\ MayEdit(op)
    /\ CommitEdit(Seen(op))
    /\ UNCHANGED <<job, sw, wk, stuck, faults>>

AuthorStalls(op) ==
    /\ MayEdit(op)
    /\ op \in Stalls
    /\ edit' = Seen(op)
    /\ UNCHANGED <<draft, dispatch, job, sw, wk, stuck, faults>>

AuthorResumes ==
    /\ edit.op # "none"
    /\ CommitEdit(edit)
    /\ UNCHANGED <<job, sw, wk, stuck, faults>>

\* The ledger event of these transitions needs the aggregate lock.
RequestChanges ==
    /\ edit.op = "none"
    /\ draft.status = "pending"
    /\ draft' = [draft EXCEPT !.status = "needs_revision"]
    /\ UNCHANGED <<edit, dispatch, job, sw, wk, stuck, faults>>

Close ==
    /\ edit.op = "none"
    /\ draft.status # "closed"
    /\ draft' = [draft EXCEPT !.status = "closed"]
    /\ UNCHANGED <<edit, dispatch, job, sw, wk, stuck, faults>>

\* submit_wiki_branch: back into review whatever the status, same revision,
\* without the aggregate lock.
BranchSubmit ==
    /\ "branch_submit" \in Ops
    /\ draft.status # "pending"
    /\ draft' = [draft EXCEPT !.status = "pending", !.ai = "pending", !.results = 0,
                              !.reopened = \/ draft.reopened \/ edit.op # "none"
                                           \/ dispatch[draft.rev].status # "none"]
    /\ dispatch' = Staged(draft.rev)
    /\ UNCHANGED <<edit, job, sw, wk, stuck, faults>>

-----------------------------------------------------------------------------
(* The outbox *)

\* Mutant: any revision in review will do
InReview(r) == draft.status = "pending"

\* _matches_draft_revision
Current(r) == draft.status = "pending" /\ draft.rev = r

Matches(r, ai) == Current(r) /\ draft.ai = ai

HasVerdict(r) == \E ai \in Final : Matches(r, ai)

\* Mutant: the queue mark outlives its intent
MarkKept(r) == draft

\* _clear_stale_queued_draft
Cleared(r) ==
    IF draft.rev = r /\ draft.ai = "queued"
    THEN [draft EXCEPT !.ai = "skipped", !.results = 0]
    ELSE draft

Skipped == [draft EXCEPT !.ai = "skipped", !.results = 0]

As(status, row) == [row EXCEPT !.status = status, !.due = FALSE]

\* Mutant: a job that was enqueued is taken as good as run
DueUnlessEnqueued(r) == dispatch[r].status \in Open \ {"enqueued"} /\ dispatch[r].due

Due(r) == dispatch[r].status \in Open /\ dispatch[r].due

\* What a sweep does with a due intent.
Fate(r, enabled) ==
    CASE HasVerdict(r)                                               -> "completed"
      [] Matches(r, "queued")                                        -> "claim"
      [] Matches(r, "pending") /\ dispatch[r].status = "pending"
            /\ enabled                                               -> "claim"
      [] Matches(r, "pending") /\ dispatch[r].status = "pending"
            /\ ~enabled                                              -> "disabled"
      [] OTHER                                                       -> "stale"

Spend(n) == IF n < MaxEnqueueAttempts THEN n + 1 ELSE n

ClaimedRow(row) ==
    [status |-> "dispatching", spent |-> Spend(row.spent), due |-> FALSE]

\* A new attempt takes the lease from every earlier one.
Claiming(s, r) ==
    [t \in Sweeper |->
        IF t = s THEN [pc |-> "enqueue", rev |-> r,
                       spent |-> Spend(dispatch[r].spent), owns |-> TRUE]
        ELSE IF sw[t].rev = r THEN [sw[t] EXCEPT !.owns = FALSE] ELSE sw[t]]

\* One transaction over every due intent; only the one of the current
\* revision can be claimed or change the draft.
SweepClaim(s) ==
    /\ sw[s].pc = "idle"
    /\ \E r \in Revision : Due(r)
    /\ \E enabled \in IF "disable" \in Ops THEN BOOLEAN ELSE {TRUE} :
        LET cur  == draft.rev
            fate == IF Due(cur) THEN Fate(cur, enabled) ELSE "none"
        IN  /\ dispatch' = [r \in Revision |->
                  IF ~Due(r) THEN dispatch[r]
                  ELSE IF Fate(r, enabled) = "claim" THEN ClaimedRow(dispatch[r])
                  ELSE As(Fate(r, enabled), dispatch[r])]
            /\ draft' = CASE fate = "claim"    -> [draft EXCEPT !.ai = "queued",
                                  !.results = IF draft.ai = "pending" THEN 0 ELSE draft.results]
                          [] fate = "disabled" -> Skipped
                          [] fate = "stale"    -> Cleared(cur)
                          [] OTHER             -> draft
            /\ sw' = IF fate = "claim" THEN Claiming(s, cur) ELSE sw
    /\ UNCHANGED <<edit, job, wk, stuck, faults>>

\* A duplicate of a job that is queued, running or remembered is accepted.
Enqueued(r) == [job EXCEPT ![r] = IF job[r] = "none" THEN "queued" ELSE job[r]]

SweepEnqueue(s) ==
    /\ sw[s].pc = "enqueue"
    /\ job' = Enqueued(sw[s].rev)
    /\ sw' = [sw EXCEPT ![s].pc = "ack"]
    /\ UNCHANGED <<draft, edit, dispatch, wk, stuck, faults>>

SweepEnqueueFails(s) ==
    /\ sw[s].pc = "enqueue"
    /\ Fault("enqueue_error")
    /\ job' \in {job, Enqueued(sw[s].rev)}
    /\ sw' = [sw EXCEPT ![s].pc = "nack"]
    /\ UNCHANGED <<draft, edit, dispatch, wk, stuck>>

\* Mutant: the attempt is compared, the status is not
OwnsByAttempt(s) == sw[s].owns

\* _owns_claim
Owns(s) == dispatch[sw[s].rev].status = "dispatching" /\ sw[s].owns

\* A sweep that lost its claim writes nothing.
Resolve(s, status, d) ==
    /\ dispatch' = IF Owns(s) THEN [dispatch EXCEPT ![sw[s].rev] = As(status, dispatch[sw[s].rev])]
                              ELSE dispatch
    /\ draft' = IF Owns(s) THEN d ELSE draft
    /\ sw' = [sw EXCEPT ![s] = IdleSweep]
    /\ UNCHANGED <<edit, job, wk, stuck, faults>>

SweepAck(s) ==
    LET r == sw[s].rev
    IN  /\ sw[s].pc = "ack"
        /\ \/ HasVerdict(r) /\ Resolve(s, "completed", draft)
           \/ Matches(r, "queued") /\ Resolve(s, "enqueued", draft)
           \/ ~HasVerdict(r) /\ ~Matches(r, "queued") /\ Resolve(s, "stale", Cleared(r))

SweepNack(s) ==
    LET r == sw[s].rev
    IN  /\ sw[s].pc = "nack"
        /\ \/ HasVerdict(r) /\ Resolve(s, "completed", draft)
           \/ ~HasVerdict(r) /\ ~Matches(r, "queued") /\ Resolve(s, "stale", Cleared(r))
           \/ Matches(r, "queued") /\ sw[s].spent = MaxEnqueueAttempts
                 /\ Resolve(s, "failed", Skipped)
           \/ Matches(r, "queued") /\ sw[s].spent < MaxEnqueueAttempts
                 /\ Resolve(s, "pending", draft)

SweepDies(s) ==
    /\ sw[s].pc # "idle"
    /\ Fault("crash")
    /\ sw' = [sw EXCEPT ![s] = IdleSweep]
    /\ UNCHANGED <<draft, edit, dispatch, job, wk, stuck>>

-----------------------------------------------------------------------------
(* The worker task *)

\* The first transaction of run_async_checks.
RunnerStart(w, r) ==
    LET row   == dispatch[r]
        turn(status, d, jb, busy) ==
            /\ dispatch' = [dispatch EXCEPT ![r] = As(status, row)]
            /\ draft' = d
            /\ job' = [job EXCEPT ![r] = jb]
            /\ wk' = [wk EXCEPT ![w] = busy]
        returns(status, d) == turn(status, d, "result", 0)
        taken == row.status \in {"dispatching", "enqueued"}
    IN  /\ wk[w] = 0
        /\ job[r] = "queued"
        /\ \/ /\ ~taken
              /\ job' = [job EXCEPT ![r] = "result"]
              /\ UNCHANGED <<draft, dispatch, wk>>
           \/ taken /\ draft.status # "pending" /\ returns("stale", Cleared(r))
           \/ taken /\ draft.status = "pending" /\ ~Current(r) /\ returns("stale", draft)
           \/ taken /\ HasVerdict(r) /\ returns("completed", draft)
           \/ taken /\ Current(r) /\ draft.ai \in {"pending", "running"}
                 /\ returns("stale", draft)
           \/ taken /\ Matches(r, "queued")
                 /\ turn("running", [draft EXCEPT !.ai = "running"], "running", r)
        /\ UNCHANGED <<edit, sw, stuck, faults>>

RunnerStartFails(r) ==
    /\ job[r] = "queued"
    /\ Fault("db_error")
    /\ job' = [job EXCEPT ![r] = "result"]
    /\ UNCHANGED <<draft, edit, dispatch, sw, wk, stuck>>

\* Its last transaction, after the checks.  The draft is read again; the
\* intent is the object of the first transaction, which this session still
\* holds as running, so that the guard on it always passes and the outcome is
\* written over whatever the row says by now.
RunnerFinish(w) ==
    LET r == wk[w]
        ends(status, d) ==
            /\ dispatch' = [dispatch EXCEPT ![r] = As(status, dispatch[r])]
            /\ draft' = d
    IN  /\ r # 0
        /\ \/ ~Current(r) /\ ends("stale", Cleared(r))
           \/ HasVerdict(r) /\ ends("completed", draft)
           \/ Current(r) /\ draft.ai \in {"pending", "queued"} /\ ends("stale", draft)
           \/ Matches(r, "running")
                 /\ ends("completed", [draft EXCEPT !.ai = "checked", !.results = r])
        /\ wk' = [wk EXCEPT ![w] = 0]
        /\ job' = [job EXCEPT ![r] = "result"]
        /\ UNCHANGED <<edit, sw, stuck, faults>>

\* A dead process leaves its job to be run again, a cancelled task does not.
RunnerDies(w) ==
    /\ wk[w] # 0
    /\ \/ Fault("crash") /\ job' = [job EXCEPT ![wk[w]] = "queued"]
       \/ Fault("timeout") /\ job' = [job EXCEPT ![wk[w]] = "result"]
    /\ wk' = [wk EXCEPT ![w] = 0]
    /\ UNCHANGED <<draft, edit, dispatch, sw, stuck>>

-----------------------------------------------------------------------------
(* sweep_stuck_ai_review_cron: a SELECT and two UPDATEs, each of which sees *)
(* what is committed when it starts.  It selects a draft that has been     *)
(* running for twice the task timeout: no worker is alive that started     *)
(* before that.                                                            *)

StuckSelect ==
    /\ stuck = "no"
    /\ draft.ai = "running"
    /\ \A w \in Worker : wk[w] = 0
    /\ stuck' = "selected"
    /\ UNCHANGED <<draft, edit, dispatch, job, sw, wk, faults>>

RunsFailed ==
    [r \in Revision |->
        IF dispatch[r].status = "running" THEN As("failed", dispatch[r]) ELSE dispatch[r]]

\* The first UPDATE.  When it writes the draft the row stays locked up to the
\* commit, no runner starts or ends, and the second follows in the same step.
StuckUpdate ==
    /\ stuck = "selected"
    /\ \/ /\ draft.ai = "running"
          /\ draft' = [draft EXCEPT !.ai = "skipped"]
          /\ dispatch' = RunsFailed
          /\ stuck' = "no"
       \/ /\ draft.ai # "running"
          /\ stuck' = "missed"
          /\ UNCHANGED <<draft, dispatch>>
    /\ UNCHANGED <<edit, job, sw, wk, faults>>

\* The second UPDATE after a first one that wrote nothing: it also fails a run
\* that started in between.
StuckFail ==
    /\ stuck = "missed"
    /\ dispatch' = RunsFailed
    /\ stuck' = "no"
    /\ UNCHANGED <<draft, edit, job, sw, wk, faults>>

-----------------------------------------------------------------------------
(* Time *)

BackoffPasses(r) ==
    /\ dispatch[r].status = "pending"
    /\ ~dispatch[r].due
    /\ dispatch' = [dispatch EXCEPT ![r].due = TRUE]
    /\ UNCHANGED <<draft, edit, job, sw, wk, stuck, faults>>

\* Nobody is left who would move the intent on.
Abandoned(r) ==
    /\ job[r] \notin {"queued", "running"}
    /\ \A s \in Sweeper : ~(sw[s].pc # "idle" /\ sw[s].rev = r /\ sw[s].owns)

LeaseRunsOut(r) ==
    /\ dispatch[r].status \in {"dispatching", "enqueued"}
    /\ ~dispatch[r].due
    /\ \/ Abandoned(r) /\ UNCHANGED faults
       \/ ~Abandoned(r) /\ Fault("slow")
    /\ dispatch' = [dispatch EXCEPT ![r].due = TRUE]
    /\ UNCHANGED <<draft, edit, job, sw, wk, stuck>>

\* The queue remembers the result of a job for a while, and refuses its id.
ResultExpires(r) ==
    /\ job[r] = "result"
    /\ job' = [job EXCEPT ![r] = "none"]
    /\ UNCHANGED <<draft, edit, dispatch, sw, wk, stuck, faults>>

-----------------------------------------------------------------------------
Lifecycle ==
    \/ \E op \in Edits : Author(op) \/ AuthorStalls(op)
    \/ AuthorResumes \/ RequestChanges \/ Close \/ BranchSubmit

SweepStep(s) ==
    \/ SweepClaim(s) \/ SweepEnqueue(s) \/ SweepEnqueueFails(s)
    \/ SweepAck(s) \/ SweepNack(s) \/ SweepDies(s)

RunnerStep(w) ==
    \/ \E r \in Revision : RunnerStart(w, r)
    \/ RunnerFinish(w) \/ RunnerDies(w)

Timed(r) ==
    RunnerStartFails(r) \/ BackoffPasses(r) \/ LeaseRunsOut(r) \/ ResultExpires(r)

Next ==
    \/ Lifecycle
    \/ \E s \in Sweeper : SweepStep(s)
    \/ \E w \in Worker : RunnerStep(w)
    \/ StuckSelect \/ StuckUpdate \/ StuckFail
    \/ \E r \in Revision : Timed(r)

Spec == Init /\ [][Next]_vars

\* The crons sweep every few minutes, workers take queued jobs, requests end
\* and time passes; nobody is obliged to edit or to review.
Fairness ==
    /\ WF_vars(\E s \in Sweeper : SweepClaim(s))
    /\ \A s \in Sweeper : WF_vars(SweepEnqueue(s) \/ SweepAck(s) \/ SweepNack(s))
    /\ \A r \in Revision : WF_vars(\E w \in Worker : RunnerStart(w, r))
    /\ \A w \in Worker : WF_vars(RunnerFinish(w))
    /\ \A r \in Revision : WF_vars(BackoffPasses(r) \/ LeaseRunsOut(r))
    /\ \A r \in Revision : WF_vars(ResultExpires(r))
    /\ WF_vars(StuckSelect \/ StuckUpdate \/ StuckFail)
    /\ WF_vars(AuthorResumes)

FairSpec == Spec /\ Fairness

-----------------------------------------------------------------------------
(* Properties *)

\* A draft in review that waits for its verdict has an intent in the outbox
\* or a run that owns it: a draft that is pending has an unclaimed intent for
\* exactly its revision, a queued one an open intent, and a running one an intent
\* that is running or that a late stuck-run cron has failed under the run.
\* stage_ai_pre_review and the claims of dispatch.py and runner.py write the two
\* rows together; the exceptions are a rebase that raced a sweep
\* (VerdictAlwaysCurrent) and a branch that reopens a revision.
IntentCoversDraft ==
    draft.status = "pending" /\ ~draft.reopened /\ ~draft.raced =>
        /\ draft.ai = "pending" => dispatch[draft.rev].status = "pending"
        /\ draft.ai = "queued"  => dispatch[draft.rev].status \in Open
        /\ draft.ai = "running" => dispatch[draft.rev].status \in {"running", "failed"}

\* The verdict a reviewer sees was reached on the content the draft has now,
\* whatever edits, duplicate runs and late workers interleave with the checks
\* of run_async_checks, with the same two exceptions: in particular a rebase that
\* stalls over a running check, or over its verdict, still takes it back.
VerdictIsCurrent ==
    draft.ai = "checked" /\ ~draft.reopened /\ ~draft.raced => draft.results = draft.rev

\* A resolved intent is history: no late acknowledgement, failure report,
\* sweep or cron reopens it or changes its outcome.  The one writer that does is
\* a run whose intent the stuck-run cron has failed under it: it finishes with its
\* own outcome (FailedStaysFailed).
TerminalIntentIsFinal ==
    [][\A r \in Revision : dispatch[r].status \in Terminal =>
            \/ dispatch'[r].status = dispatch[r].status
            \/ /\ dispatch[r].status = "failed" /\ \E w \in Worker : wk[w] = r
               /\ dispatch'[r].status \in {"completed", "stale"}]_vars

\* What the runner's comment says of every rebase: "Either makes this verdict
\* stale for the current content and must leave the newer staged job as the
\* sole writer".  Refuted by a rebase that stalls between its read and its flush.
VerdictAlwaysCurrent ==
    draft.ai = "checked" /\ ~draft.reopened => draft.results = draft.rev

\* What the runner's log line says of an intent that was failed under it: "no
\* longer running, dropping verdict".  Refuted: the guard reads its own copy.
FailedStaysFailed ==
    [][\A r \in Revision : dispatch[r].status = "failed" =>
            dispatch'[r].status = "failed"]_vars

\* Whoever dies, the verdict column of a draft in review does not stay
\* unresolved: the revision is checked or skipped, unless the author or a
\* reviewer moves the draft on first.
Unresolved(r) ==
    /\ draft.status = "pending" /\ draft.rev = r /\ ~draft.reopened
    /\ draft.ai \notin Final

VerdictComes == \A r \in Revision : []<>~Unresolved(r)

\* The queue mark of a draft that left review is taken back.
QueueMarkCleared ==
    draft.ai = "queued" /\ draft.status # "pending" /\ ~draft.reopened ~>
        draft.ai # "queued" \/ draft.status = "pending" \/ draft.reopened
=============================================================================
