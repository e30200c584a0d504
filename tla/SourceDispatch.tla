--------------------------- MODULE SourceDispatch ---------------------------
(***************************************************************************)
(* The durable dispatch outbox of one source                               *)
(* (src/cygnus/runtime/source_dispatch.py) together with the parts of the  *)
(* ARQ tasks, the sources router and the map-reduce pipeline that drive it.*)
(*                                                                         *)
(* A pipeline cycle is a generation of the source; each handoff to a       *)
(* worker is an execution <<generation, stage>> with an outbox row and a   *)
(* deterministic ARQ job id, so an execution also names its job.  Four     *)
(* kinds of process share the database and the queue: API requests, the    *)
(* ARQ tasks run by workers, the reconciliation sweep, and time.           *)
(*                                                                         *)
(* A step is one database transaction, or one call to ARQ, of the code: a  *)
(* transaction that spans a call to ARQ is split there, because that is    *)
(* where other processes get in.  Timestamps are abstracted to what the    *)
(* code compares them for: a lease is none, live or expired, and a row     *)
(* waits for its next attempt or does not.  A lease token is the worker    *)
(* that took it; a worker's earlier tokens on the same row are overwritten *)
(* by its later ones, so nothing is lost.                                  *)
(***************************************************************************)
EXTENDS Naturals, FiniteSets

CONSTANTS
    Worker,              \* ARQ worker slots (each runs one task at a time)
    Sweeper,             \* concurrent runs of sweep_source_dispatches
    Api,                 \* concurrent requests to the sources router
    Stage,               \* the pipeline stages in scope
    Continuation,        \* the stage a stage hands off to, NoStage at the end
    ClaimsAs,            \* the stage under which a stage's task claims
    Gated,               \* stages that stop at awaiting_approval
    AutoTriggered,       \* stages that hand off through _auto_trigger_refine
    SilentReturn,        \* stages whose task has a return with no terminal mark
    NoStage, NoWorker, NoExec,
    MaxGeneration,       \* bound: generations the API may start
    MaxEnqueueAttempts,  \* MAX_DISPATCH_ENQUEUE_ATTEMPTS
    Faults,              \* which faults the environment may inject
    MaxFaults            \* bound: how many of them in one behaviour

FaultKinds ==
    {"crash",          \* a worker process dies
     "cancel",         \* a worker shuts down: CancelledError in the task
     "enqueue_error",  \* pool.enqueue_job raises
     "gap",            \* the gap between enqueue_job and the commit shows
     "renewal_stops",  \* the lease renewal hit an exception and returned
     "rerun_finished"} \* the process dies after its last commit

ASSUME DispatchConstants ==
    /\ MaxGeneration \in Nat \ {0}
    /\ MaxEnqueueAttempts \in Nat \ {0}
    /\ MaxFaults \in Nat
    /\ Faults \subseteq FaultKinds
    /\ Gated \subseteq {s \in Stage : Continuation[s] # NoStage}
    /\ AutoTriggered \subseteq {s \in Stage : Continuation[s] # NoStage}
    /\ SilentReturn \subseteq Stage
    /\ NoStage \notin Stage
    /\ NoWorker \notin Worker
    /\ NoExec \notin (1..MaxGeneration) \X Stage
    /\ Continuation \in [Stage -> Stage \cup {NoStage}]
    /\ \A s \in Stage : Continuation[s] # s
    /\ ClaimsAs \in [Stage -> Stage]

VARIABLES
    source,  \* the sources row: generation, tombstone, status, gated stage
    row,     \* SourceDispatchExecution rows, by execution
    job,     \* ARQ: what Redis holds for the execution's job id
    wk,      \* the task each worker is running
    sw,      \* each sweep's progress
    api,     \* each request's open transaction
    faults   \* how many faults have happened

vars == <<source, row, job, wk, sw, api, faults>>

-----------------------------------------------------------------------------
(* Vocabulary *)

Exec == (1..MaxGeneration) \X Stage
NonTerminal == {"pending", "dispatching", "enqueued", "running"}
Terminal == {"completed", "stale", "failed"}
Reasons == {"none", "handoff", "gate", "done", "superseded", "exhausted",
            "orphaned", "execution_failed"}

Row == [status: {"absent"} \cup NonTerminal \cup Terminal,
        attempt: 0..MaxEnqueueAttempts,
        token: Worker \cup {NoWorker},
        lease: {"none", "live", "expired"},
        wait: BOOLEAN,
        reason: Reasons]

AbsentRow == [status |-> "absent", attempt |-> 0, token |-> NoWorker,
              lease |-> "none", wait |-> FALSE, reason |-> "none"]
FreshRow == [AbsentRow EXCEPT !.status = "pending"]

SourceState == [gen: 0..MaxGeneration, tomb: BOOLEAN,
                status: {"pending", "processing", "awaiting_approval",
                         "ready", "error"},
                gate: Stage \cup {NoStage}]

Task == [pc: {"idle", "started", "claimed", "work", "fenced", "handed",
              "effect", "failing", "superseded", "recorded", "acking",
              "triggered"},
         exec: Exec \cup {NoExec},
         seen: 0..MaxGeneration,     \* source.dispatch_generation as loaded
         claim: BOOLEAN,             \* FALSE: claim_source_dispatch gave None
         read: {"none", "owned", "lost"},  \* its row at db.get, before a mark
         next: Exec \cup {NoExec},   \* the row of an open handoff
         snap: Row,                  \* that row as this session loaded it
         ok: BOOLEAN]                \* whether enqueue_job accepted

IdleTask == [pc |-> "idle", exec |-> NoExec, seen |-> 0, claim |-> FALSE,
             read |-> "none", next |-> NoExec, snap |-> AbsentRow,
             ok |-> FALSE]

Sweep == [pc: {"idle", "enqueue", "ack", "nack"},
          todo: SUBSET Exec,         \* leased rows still to enqueue
          own: SUBSET Exec,          \* leases whose attempt_count still matches
          cur: Exec \cup {NoExec}]

IdleSweep == [pc |-> "idle", todo |-> {}, own |-> {}, cur |-> NoExec]

Request == [pc: {"idle", "loaded", "recorded", "acked"},
            exec: Exec \cup {NoExec},
            bump: BOOLEAN,           \* new_generation
            status: {"pending", "processing"},
            snap: Row,
            ok: BOOLEAN]

IdleRequest == [pc |-> "idle", exec |-> NoExec, bump |-> FALSE,
                status |-> "pending", snap |-> AbsentRow, ok |-> FALSE]

TypeOK ==
    /\ source \in SourceState
    /\ row \in [Exec -> Row]
    /\ job \in [Exec -> {"none", "queued", "running", "done"}]
    /\ wk \in [Worker -> Task]
    /\ sw \in [Sweeper -> Sweep]
    /\ api \in [Api -> Request]
    /\ faults \in 0..MaxFaults

Init ==
    /\ source = [gen |-> 0, tomb |-> FALSE, status |-> "pending",
                 gate |-> NoStage]
    /\ row = [e \in Exec |-> AbsentRow]
    /\ job = [e \in Exec |-> "none"]
    /\ wk = [w \in Worker |-> IdleTask]
    /\ sw = [s \in Sweeper |-> IdleSweep]
    /\ api = [p \in Api |-> IdleRequest]
    /\ faults = 0

-----------------------------------------------------------------------------
(* Rows *)

\* record_source_dispatch: a source without a cycle enters its first one
Cycle(g) == IF g < 1 THEN 1 ELSE g

\* _execution_is_superseded, and the sweep's first UPDATE
Superseded(e) == source.tomb \/ source.gen > e[1]

\* the current_sources subquery: exactly the current generation, no tombstone
IsCurrent(e) == ~source.tomb /\ source.gen = e[1]

\* Mutants: the lease of a running row is ignored; only pending rows are due
DueIgnoringLease(r) ==
    \/ r.status = "pending" /\ ~r.wait
    \/ r.status \in {"dispatching", "enqueued", "running"}
DueOnlyPending(r) == r.status = "pending" /\ ~r.wait

\* _dispatch_is_due: the backoff is over, or the lease has run out
Due(r) ==
    \/ r.status = "pending" /\ ~r.wait
    \/ r.status \in {"dispatching", "enqueued", "running"} /\ r.lease # "live"

Bumped(n) == IF n < MaxEnqueueAttempts THEN n + 1 ELSE n

StaleRow(r) == [r EXCEPT !.status = "stale", !.reason = "superseded",
                         !.lease = "none", !.wait = FALSE]
EnqueuedRow(r) == [r EXCEPT !.status = "enqueued", !.reason = "none",
                            !.lease = "live", !.wait = FALSE]
ClosedRow(r, status, reason) ==
    [r EXCEPT !.status = status, !.reason = reason, !.lease = "none",
              !.wait = FALSE]
Leased(r) == [r EXCEPT !.status = "dispatching", !.attempt = Bumped(@),
                       !.reason = "none", !.lease = "live", !.wait = FALSE]
RetryRow(r) == [r EXCEPT !.status = "pending", !.reason = "none",
                         !.lease = "none", !.wait = TRUE]

\* enqueue_dispatch_execution on a row object, ARQ having accepted or raised
OutboxRow(r, ok) ==
    IF ok THEN EnqueuedRow(r)
    ELSE LET b == [r EXCEPT !.attempt = Bumped(@)]
         IN  IF b.attempt >= MaxEnqueueAttempts
             THEN [ClosedRow(b, "failed", "exhausted") EXCEPT !.wait = r.wait]
             ELSE RetryRow(b)

\* What committing an ORM row does to the database: an INSERT if the session
\* created the row, else an UPDATE of the columns the session changed, with
\* no regard to what other sessions wrote since it was loaded.  A new lease
\* is a new timestamp, so it is always written; a terminal row is left alone.
Flushed(cur, snap, new) ==
    CASE snap.status = "absent" -> new
      [] snap.status \in Terminal -> cur
      [] OTHER ->
         [status  |-> IF new.status = snap.status THEN cur.status ELSE new.status,
          attempt |-> IF new.attempt = snap.attempt THEN cur.attempt ELSE new.attempt,
          token   |-> cur.token,
          lease   |-> IF new.lease = "live" \/ new.lease # snap.lease
                      THEN new.lease ELSE cur.lease,
          wait    |-> IF new.wait = snap.wait THEN cur.wait ELSE new.wait,
          reason  |-> IF new.reason = snap.reason THEN cur.reason ELSE new.reason]

\* The row object a session holds after record_source_dispatch.
Recorded(snap) == IF snap.status = "absent" THEN FreshRow ELSE snap

\* The row an outbox transaction commits.
Committed(e, snap, ok) == Flushed(row[e], snap, OutboxRow(Recorded(snap), ok))

\* uq_source_dispatch_execution_stage: an INSERT waits for an uncommitted one.
InsertOpen(e) ==
    \/ \E p \in Api : api[p].pc \in {"recorded", "acked"} /\ api[p].exec = e
                       /\ api[p].snap.status = "absent"
    \/ \E w \in Worker : wk[w].pc = "handed" /\ wk[w].next = e
                          /\ wk[w].snap.status = "absent"

-----------------------------------------------------------------------------
(* ARQ: enqueue_job gives None, and changes nothing, while the job id has a *)
(* job or a kept result.  An exception may come before or after Redis took  *)
(* the job.                                                                 *)

Accepted(j, e) == IF j[e] = "none" THEN [j EXCEPT ![e] = "queued"] ELSE j

Enqueue(e) == job' = Accepted(job, e) /\ UNCHANGED faults

CanFail(kind) == kind \in Faults /\ faults < MaxFaults

EnqueueRaises(e) ==
    /\ CanFail("enqueue_error")
    /\ faults' = faults + 1
    /\ job' \in {job, Accepted(job, e)}

\* pool.enqueue_job, with its outcome
EnqueueJob(e, ok) == IF ok THEN Enqueue(e) ELSE EnqueueRaises(e)

\* keep_result, an hour, runs out: longer than any sweep takes to get from
\* leasing a row to enqueueing it.  Nobody enqueues a closed or superseded
\* execution again, so only there is it not worth a step.
ResultExpires(e) ==
    /\ job[e] = "done"
    /\ row[e].status \notin Terminal /\ ~Superseded(e)
    /\ \A s \in Sweeper : e \notin sw[s].todo
    /\ job' = [job EXCEPT ![e] = "none"]
    /\ UNCHANGED <<source, row, wk, sw, api, faults>>

-----------------------------------------------------------------------------
(* Requests to the sources router *)

\* A request loads the source and passes its status check: a first upload,
\* retry_source, a re-ingesting update_source (each a new generation), or
\* approve_extraction (the next stage of the current one).
ApiLoad(p) ==
    /\ api[p].pc = "idle"
    /\ ~source.tomb
    /\ \/ \E s \in Stage :
             /\ source.gen < MaxGeneration
             /\ \/ /\ source.gen = 0 /\ \A q \in Api : api[q].pc = "idle"
                   /\ \A t \in Stage : Continuation[t] # s
                \/ source.gen > 0 /\ source.status \in {"error", "ready"}
             /\ api' = [api EXCEPT ![p] =
                   [IdleRequest EXCEPT
                      !.pc = "loaded", !.exec = <<source.gen + 1, s>>,
                      !.bump = TRUE,
                      !.status = IF source.status = "ready"
                                 THEN "processing" ELSE "pending"]]
       \/ /\ source.status = "awaiting_approval"
          /\ Continuation[source.gate] # NoStage
          /\ api' = [api EXCEPT ![p] =
                [IdleRequest EXCEPT
                   !.pc = "loaded", !.bump = source.gen < 1,
                   !.exec = <<Cycle(source.gen), Continuation[source.gate]>>,
                   !.status = "processing"]]
    /\ UNCHANGED <<source, row, job, wk, sw, faults>>

\* record_source_dispatch: a request for a new generation has flushed the
\* changed source, which locks its row, so two of them take turns; the
\* generation is the one already loaded.
ApiRecord(p) ==
    /\ api[p].pc = "loaded"
    /\ api[p].bump => \A q \in Api : api[q].bump => api[q].pc = "loaded"
    /\ ~InsertOpen(api[p].exec)
    /\ api' = [api EXCEPT ![p].pc = "recorded", ![p].snap = row[api[p].exec]]
    /\ UNCHANGED <<source, row, job, wk, sw, faults>>

\* enqueue_dispatch_execution, still inside the request's transaction
ApiEnqueue(p) ==
    LET e == api[p].exec IN
    /\ api[p].pc = "recorded"
    /\ \/ /\ api[p].snap.status \in Terminal
          /\ api' = [api EXCEPT ![p].pc = "acked", ![p].ok = FALSE]
          /\ UNCHANGED <<job, faults>>
       \/ /\ api[p].snap.status \notin Terminal
          /\ \E ok \in BOOLEAN :
                /\ EnqueueJob(e, ok)
                /\ api' = [api EXCEPT ![p].pc = "acked", ![p].ok = ok]
    /\ UNCHANGED <<source, row, wk, sw>>

\* The request commits the source, with its generation, and the outbox row.
ApiCommit(p) ==
    LET e == api[p].exec IN
    /\ api[p].pc = "acked"
    /\ row' = [row EXCEPT ![e] = Committed(e, api[p].snap, api[p].ok)]
    /\ source' = [source EXCEPT
                    !.gen = IF api[p].bump THEN e[1] ELSE @,
                    !.status = api[p].status,
                    !.gate = NoStage]
    /\ api' = [api EXCEPT ![p] = IdleRequest]
    /\ UNCHANGED <<job, wk, sw, faults>>

\* The request dies before its commit: the transaction is gone, a job it
\* already enqueued is not.
ApiAbort(p) ==
    /\ api[p].pc \in {"recorded", "acked"}
    /\ CanFail("gap")
    /\ faults' = faults + 1
    /\ api' = [api EXCEPT ![p] = IdleRequest]
    /\ UNCHANGED <<source, row, job, wk, sw>>

\* Mutant: request_source_deletion leaves the open executions to the sweep
ApiDeleteTombstoneOnly ==
    /\ ~source.tomb
    /\ source.gen > 0
    /\ source' = [source EXCEPT !.tomb = TRUE]
    /\ UNCHANGED <<row, job, wk, sw, api, faults>>

\* delete_source: request_source_deletion commits the tombstone and, with it,
\* closes every open execution as stale.
ApiDelete ==
    /\ ~source.tomb
    /\ source.gen > 0
    /\ source' = [source EXCEPT !.tomb = TRUE]
    /\ row' = [e \in Exec |-> IF row[e].status \in NonTerminal
                              THEN StaleRow(row[e]) ELSE row[e]]
    /\ UNCHANGED <<job, wk, sw, api, faults>>

-----------------------------------------------------------------------------
(* ARQ tasks *)

\* The recording transaction of e has called enqueue_job and not committed.
CommitPending(e) ==
    \/ \E p \in Api : api[p].pc = "acked" /\ api[p].exec = e
    \/ \E w \in Worker : wk[w].pc = "handed" /\ wk[w].next = e

\* A task ends: ARQ keeps the result; or the process dies first and ARQ,
\* which never saw the end, runs the job again.
EndTask(w) ==
    /\ wk' = [wk EXCEPT ![w] = IdleTask]
    /\ \/ job' = [job EXCEPT ![wk[w].exec] = "done"] /\ UNCHANGED faults
       \/ /\ CanFail("rerun_finished")
          /\ faults' = faults + 1
          /\ job' = [job EXCEPT ![wk[w].exec] = "queued"]

\* _claim_owns_execution
Owns(w) == LET r == row[wk[w].exec]
           IN  wk[w].claim /\ r.status \in NonTerminal /\ r.token = w

\* The terminal marks find their row with an unlocked db.get, decide there
\* whether the claim still owns it, and write it at the commit.
TaskReadRow(w) ==
    /\ wk[w].pc \in {"handed", "effect", "failing", "superseded"}
    /\ wk[w].read = "none"
    /\ wk' = [wk EXCEPT ![w].read = IF Owns(w) THEN "owned" ELSE "lost"]
    /\ UNCHANGED <<source, row, job, sw, api, faults>>

\* complete_/fail_/mark_stale: the flush overwrites whatever the row of an
\* execution that was read as owned has become by then.
Marked(w, status, reason) ==
    LET e == wk[w].exec IN
    IF wk[w].read = "owned" THEN [row EXCEPT ![e] = ClosedRow(@, status, reason)]
    ELSE row

\* A worker picks a queued job up and the task loads the source.
TaskStart(w, e) ==
    /\ wk[w].pc = "idle"
    /\ job[e] = "queued"
    /\ "gap" \in Faults \/ ~CommitPending(e)
    /\ IF source.tomb
       THEN job' = [job EXCEPT ![e] = "done"] /\ UNCHANGED wk
       ELSE /\ job' = [job EXCEPT ![e] = "running"]
            /\ wk' = [wk EXCEPT ![w] = [IdleTask EXCEPT
                         !.pc = "started", !.exec = e, !.seen = source.gen]]
    /\ UNCHANGED <<source, row, sw, api, faults>>

\* Mutant: a failed execution may be claimed again
TaskClaimRearms(w) ==
    LET e == wk[w].exec IN
    /\ wk[w].pc = "started"
    /\ IF row[e].status \in NonTerminal \cup {"failed"}
       THEN /\ row' = [row EXCEPT ![e].status = "running", ![e].token = w,
                                  ![e].lease = "live"]
            /\ wk' = [wk EXCEPT ![w].pc = "claimed", ![w].claim = TRUE]
       ELSE wk' = [wk EXCEPT ![w].pc = "claimed"] /\ UNCHANGED row
    /\ UNCHANGED <<source, job, sw, api, faults>>

\* claim_source_dispatch at the task's entry, for the generation the task
\* loaded and the stage its code names.  SourceDispatchSuperseded ends the
\* task and rolls back.
TaskClaim(w) ==
    LET e == wk[w].exec
        g == wk[w].seen
        c == ClaimsAs[e[2]]
        cur == IF g \in 1..MaxGeneration THEN row[<<g, c>>] ELSE AbsentRow
        fenced == \/ c = e[2] /\ e[1] < g
                  \/ cur.status \in NonTerminal /\ e # <<g, c>>
    IN
    /\ wk[w].pc = "started"
    /\ \/ fenced /\ EndTask(w) /\ UNCHANGED row
       \/ /\ ~fenced
          /\ cur.status \notin NonTerminal
          /\ wk' = [wk EXCEPT ![w].pc = "claimed"]
          /\ UNCHANGED <<row, job, faults>>
       \/ /\ ~fenced
          /\ cur.status \in NonTerminal
          /\ row' = [row EXCEPT ![e] = [@ EXCEPT
                       !.status = "running", !.token = w, !.lease = "live",
                       !.wait = FALSE, !.reason = "none"]]
          /\ wk' = [wk EXCEPT ![w].pc = "claimed", ![w].claim = TRUE]
          /\ UNCHANGED <<job, faults>>
    /\ UNCHANGED <<source, sw, api>>

\* mark_source_processing, a commit of its own that no fence protects
TaskProcessing(w) ==
    /\ wk[w].pc = "claimed"
    /\ wk' = [wk EXCEPT ![w].pc = "work"]
    /\ source' = [source EXCEPT !.status = "processing"]
    /\ UNCHANGED <<row, job, sw, api, faults>>

\* fence_source_dispatch would let w pass
FencePasses(w) ==
    LET e == wk[w].exec IN
    \/ ~wk[w].claim
    \/ /\ IsCurrent(e)
       /\ row[e].status = "running"
       /\ row[e].token = w
       /\ row[e].lease = "live"

\* Whether the task is where its code calls the fence.
AtFence(w) ==
    LET s == wk[w].exec[2] IN
    \/ wk[w].pc = "work" /\ s \notin Gated /\ s \notin AutoTriggered
    \/ wk[w].pc = "triggered"

TaskFence(w) ==
    /\ AtFence(w)
    /\ FencePasses(w)
    /\ wk' = [wk EXCEPT ![w].pc = IF @ = "triggered" THEN "effect"
                                  ELSE "fenced"]
    /\ UNCHANGED <<source, row, job, sw, api, faults>>

\* The fence raises: what the session had not committed is rolled back.
TaskSuperseded(w) ==
    /\ AtFence(w)
    /\ ~FencePasses(w)
    /\ wk' = [wk EXCEPT ![w].pc = "superseded"]
    /\ UNCHANGED <<source, row, job, sw, api, faults>>

\* The handler marks the execution stale and the task ends.
TaskStale(w) ==
    /\ wk[w].pc = "superseded"
    /\ wk[w].read # "none"
    /\ row' = Marked(w, "stale", "superseded")
    /\ EndTask(w)
    /\ UNCHANGED <<source, sw, api>>

\* Past the extraction threshold: the gate is committed without a fence.
TaskGate(w) ==
    /\ wk[w].pc = "work"
    /\ wk[w].exec[2] \in Gated
    /\ source' = [source EXCEPT !.status = "awaiting_approval",
                                !.gate = wk[w].exec[2]]
    /\ wk' = [wk EXCEPT ![w].pc = "effect"]
    /\ UNCHANGED <<row, job, sw, api, faults>>

\* A stage with a continuation records it, for the generation the task has
\* loaded, and enqueues it before the commit.
TaskHandoff(w) ==
    LET s == wk[w].exec[2]
        n == <<Cycle(wk[w].seen), Continuation[s]>>
    IN
    /\ wk[w].pc = "fenced"
    /\ Continuation[s] # NoStage
    /\ ~InsertOpen(n)
    /\ \/ /\ row[n].status \in Terminal
          /\ wk' = [wk EXCEPT ![w].pc = "handed", ![w].next = n,
                              ![w].snap = row[n], ![w].ok = FALSE]
          /\ UNCHANGED <<job, faults>>
       \/ /\ row[n].status \notin Terminal
          /\ \E ok \in BOOLEAN :
                /\ EnqueueJob(n, ok)
                /\ wk' = [wk EXCEPT ![w].pc = "handed", ![w].next = n,
                                    ![w].snap = row[n], ![w].ok = ok]
    /\ UNCHANGED <<source, row, sw, api>>

\* Mutant: complete_source_dispatch is forgotten at the handoff
TaskHandoffCommitUnmarked(w) ==
    LET n == wk[w].next IN
    /\ wk[w].pc = "handed"
    /\ wk[w].read # "none"
    /\ row' = [row EXCEPT ![n] = Committed(n, wk[w].snap, wk[w].ok)]
    /\ source' = [source EXCEPT
                    !.gen = IF wk[w].seen < 1 THEN 1 ELSE @,
                    !.status = "processing"]
    /\ EndTask(w)
    /\ UNCHANGED <<sw, api>>

\* One commit: the continuation's row, the source, and the completed mark.
TaskHandoffCommit(w) ==
    LET n == wk[w].next IN
    /\ wk[w].pc = "handed"
    /\ wk[w].read # "none"
    /\ row' = [Marked(w, "completed", "handoff")
                 EXCEPT ![n] = Committed(n, wk[w].snap, wk[w].ok)]
    /\ source' = [source EXCEPT
                    !.gen = IF wk[w].seen < 1 THEN 1 ELSE @,
                    !.status = "processing"]
    /\ EndTask(w)
    /\ UNCHANGED <<sw, api>>

\* The last stage commits its pages and mark_source_ready.
TaskFinal(w) ==
    /\ wk[w].pc = "fenced"
    /\ Continuation[wk[w].exec[2]] = NoStage
    /\ source' = [source EXCEPT !.status = "ready"]
    /\ wk' = [wk EXCEPT ![w].pc = "effect"]
    /\ UNCHANGED <<row, job, sw, api, faults>>

\* complete_source_dispatch in a commit after the one of its effect.
TaskComplete(w) ==
    LET s == wk[w].exec[2] IN
    /\ wk[w].pc = "effect"
    /\ wk[w].read # "none"
    /\ row' = Marked(w, "completed",
                     IF s \in Gated THEN "gate"
                     ELSE IF Continuation[s] = NoStage THEN "done"
                     ELSE "handoff")
    /\ EndTask(w)
    /\ UNCHANGED <<source, sw, api>>

\* _auto_trigger_refine, in a session of its own and before any fence:
\* records the continuation for the generation it finds, and commits.
TaskAutoRecord(w) ==
    LET n == <<Cycle(source.gen), Continuation[wk[w].exec[2]]>> IN
    /\ wk[w].pc = "work"
    /\ wk[w].exec[2] \in AutoTriggered
    /\ ~InsertOpen(n)
    /\ source' = [source EXCEPT !.gen = Cycle(@)]
    /\ row' = [row EXCEPT ![n] = Recorded(@)]
    /\ wk' = [wk EXCEPT ![w].pc = "recorded", ![w].next = n,
                        ![w].snap = Recorded(row[n])]
    /\ UNCHANGED <<job, sw, api, faults>>

TaskAutoEnqueue(w) ==
    /\ wk[w].pc = "recorded"
    /\ \/ /\ wk[w].snap.status \in Terminal
          /\ wk' = [wk EXCEPT ![w].pc = "acking", ![w].ok = FALSE]
          /\ UNCHANGED <<job, faults>>
       \/ /\ wk[w].snap.status \notin Terminal
          /\ \E ok \in BOOLEAN :
                /\ EnqueueJob(wk[w].next, ok)
                /\ wk' = [wk EXCEPT ![w].pc = "acking", ![w].ok = ok]
    /\ UNCHANGED <<source, row, sw, api>>

\* Mutant: an enqueue that failed takes the recorded row with it
TaskAutoAckDropsRow(w) ==
    LET n == wk[w].next IN
    /\ wk[w].pc = "acking"
    /\ row' = [row EXCEPT ![n] =
                 IF wk[w].ok THEN Committed(n, wk[w].snap, TRUE) ELSE AbsentRow]
    /\ wk' = [wk EXCEPT ![w].pc = "triggered"]
    /\ UNCHANGED <<source, job, sw, api, faults>>

TaskAutoAck(w) ==
    LET n == wk[w].next IN
    /\ wk[w].pc = "acking"
    /\ row' = [row EXCEPT ![n] = Committed(n, wk[w].snap, wk[w].ok)]
    /\ wk' = [wk EXCEPT ![w].pc = "triggered"]
    /\ UNCHANGED <<source, job, sw, api, faults>>

\* An exception or a cancellation anywhere after the claim: what the session
\* had not committed is rolled back, and the error handler marks the source,
\* unfenced.
TaskError(w) ==
    /\ wk[w].pc \notin {"idle", "started", "failing", "superseded"}
    /\ wk[w].pc # "handed" \/ "gap" \in Faults
    /\ source' = [source EXCEPT !.status = "error"]
    /\ wk' = [wk EXCEPT ![w].pc = "failing", ![w].read = "none"]
    /\ UNCHANGED <<row, job, sw, api, faults>>

\* The handler's second transaction fails the execution; ARQ keeps the
\* failure, or queues the job again if the exception was a cancellation.
TaskFail(w) ==
    /\ wk[w].pc = "failing"
    /\ wk[w].read # "none"
    /\ row' = Marked(w, "failed", "execution_failed")
    /\ \/ EndTask(w)
       \/ /\ CanFail("cancel")
          /\ faults' = faults + 1
          /\ wk' = [wk EXCEPT ![w] = IdleTask]
          /\ job' = [job EXCEPT ![wk[w].exec] = "queued"]
    /\ UNCHANGED <<source, sw, api>>

\* "No text content": the source is marked and the task returns with its
\* execution still running.
TaskReturn(w) ==
    /\ wk[w].pc = "work"
    /\ wk[w].exec[2] \in SilentReturn
    /\ source' = [source EXCEPT !.status = "error"]
    /\ EndTask(w)
    /\ UNCHANGED <<row, sw, api>>

\* The worker process dies: ARQ runs the job again, or gives it up.
TaskCrash(w) ==
    /\ wk[w].pc # "idle"
    /\ wk[w].pc # "handed" \/ "gap" \in Faults
    /\ CanFail("crash")
    /\ faults' = faults + 1
    /\ wk' = [wk EXCEPT ![w] = IdleTask]
    /\ \E j \in {"queued", "done"} : job' = [job EXCEPT ![wk[w].exec] = j]
    /\ UNCHANGED <<source, row, sw, api>>

\* sweep_stuck_processing_cron: no progress for at least half an hour, longer
\* than a task or a request may take
StuckSweep ==
    /\ source.status = "processing"
    /\ \A w \in Worker : wk[w].pc = "idle"
    /\ \A p \in Api : api[p].pc = "idle"
    /\ source' = [source EXCEPT !.status = "error"]
    /\ UNCHANGED <<row, job, wk, sw, api, faults>>

-----------------------------------------------------------------------------
(* sweep_source_dispatches *)

\* Mutant: the current generation counts as superseded
ReconciledTooFar(e) ==
    LET r == row[e] IN
    IF r.status \in NonTerminal /\ (source.tomb \/ source.gen >= e[1])
    THEN StaleRow(r)
    ELSE IF r.status = "running" /\ r.lease # "live" /\ source.status = "error"
         THEN ClosedRow(r, "failed", "orphaned")
         ELSE r

\* The first transaction closes superseded rows and orphaned running ones.
Reconciled(e) ==
    LET r == row[e] IN
    IF r.status \in NonTerminal /\ Superseded(e) THEN StaleRow(r)
    ELSE IF r.status = "running" /\ r.lease # "live" /\ source.status = "error"
         THEN ClosedRow(r, "failed", "orphaned")
         ELSE r

\* _claim_due_executions, the transaction right after it, leases what is due
\* then; another sweep's lease on the same row no longer matches its
\* attempt_count.
SweepClaim(s) ==
    LET clean == [e \in Exec |-> Reconciled(e)]
        due == {e \in Exec : IsCurrent(e) /\ Due(clean[e])}
    IN
    /\ sw[s].pc = "idle"
    /\ row' = [e \in Exec |-> IF e \in due THEN Leased(clean[e]) ELSE clean[e]]
    /\ sw' = [t \in Sweeper |->
                IF t = s
                THEN [pc |-> IF due = {} THEN "idle" ELSE "enqueue",
                      todo |-> due, own |-> due, cur |-> NoExec]
                ELSE [sw[t] EXCEPT !.own = @ \ due]]
    /\ UNCHANGED <<source, job, wk, api, faults>>

SweepEnqueue(s) ==
    /\ sw[s].pc = "enqueue"
    /\ \E e \in sw[s].todo, ok \in BOOLEAN :
          /\ EnqueueJob(e, ok)
          /\ sw' = [sw EXCEPT ![s].pc = IF ok THEN "ack" ELSE "nack",
                              ![s].todo = @ \ {e}, ![s].cur = e]
    /\ UNCHANGED <<source, row, wk, api>>

\* _owns_claim: the row is still dispatching under this sweep's attempt.
OwnsLease(s) == row[sw[s].cur].status = "dispatching" /\ sw[s].cur \in sw[s].own

NextLease(s) == [sw EXCEPT ![s].pc = IF sw[s].todo = {} THEN "idle" ELSE "enqueue",
                           ![s].own = @ \ {sw[s].cur}, ![s].cur = NoExec]

\* _acknowledge_enqueue
SweepAck(s) ==
    LET e == sw[s].cur IN
    /\ sw[s].pc = "ack"
    /\ row' = IF OwnsLease(s)
              THEN [row EXCEPT ![e] = IF Superseded(e) THEN StaleRow(@)
                                      ELSE EnqueuedRow(@)]
              ELSE row
    /\ sw' = NextLease(s)
    /\ UNCHANGED <<source, job, wk, api, faults>>

\* Mutant: any failed enqueue gives the row up
SweepNackGivesUp(s) ==
    LET e == sw[s].cur IN
    /\ sw[s].pc = "nack"
    /\ row' = IF OwnsLease(s)
              THEN [row EXCEPT ![e] = ClosedRow(@, "failed", "exhausted")]
              ELSE row
    /\ sw' = NextLease(s)
    /\ UNCHANGED <<source, job, wk, api, faults>>

\* _record_enqueue_failure
SweepNack(s) ==
    LET e == sw[s].cur IN
    /\ sw[s].pc = "nack"
    /\ row' = IF OwnsLease(s)
              THEN [row EXCEPT ![e] =
                      IF Superseded(e) THEN StaleRow(@)
                      ELSE IF @.attempt >= MaxEnqueueAttempts
                           THEN ClosedRow(@, "failed", "exhausted")
                           ELSE RetryRow(@)]
              ELSE row
    /\ sw' = NextLease(s)
    /\ UNCHANGED <<source, job, wk, api, faults>>

\* The sweeping process dies; its leases run out by themselves.
SweepCrash(s) ==
    /\ sw[s].pc # "idle"
    /\ CanFail("crash")
    /\ faults' = faults + 1
    /\ sw' = [sw EXCEPT ![s] = IdleSweep]
    /\ UNCHANGED <<source, row, job, wk, api>>

-----------------------------------------------------------------------------
(* Time *)

\* start_dispatch_lease_renewal keeps the lease of e alive: its task runs,
\* the row is still the task's, and the source has not moved on.
Renewed(e) ==
    /\ row[e].status = "running"
    /\ IsCurrent(e)
    /\ \E w \in Worker : /\ wk[w].pc \notin {"idle", "started"}
                         /\ wk[w].claim
                         /\ wk[w].exec = e
                         /\ row[e].token = w

\* (The lease of a superseded row decides nothing any more.)
LeaseExpires(e) ==
    /\ row[e].lease = "live"
    /\ ~Superseded(e) /\ ~Renewed(e)
    /\ row' = [row EXCEPT ![e].lease = "expired"]
    /\ UNCHANGED <<source, job, wk, sw, api, faults>>

\* The renewal of a running task met an exception and returned, for good.
RenewalStops(e) ==
    /\ row[e].lease = "live"
    /\ Renewed(e)
    /\ CanFail("renewal_stops")
    /\ faults' = faults + 1
    /\ row' = [row EXCEPT ![e].lease = "expired"]
    /\ UNCHANGED <<source, job, wk, sw, api>>

BackoffEnds(e) ==
    /\ row[e].wait /\ ~Superseded(e)
    /\ row' = [row EXCEPT ![e].wait = FALSE]
    /\ UNCHANGED <<source, job, wk, sw, api, faults>>

-----------------------------------------------------------------------------
ApiStep(p) == ApiLoad(p) \/ ApiRecord(p) \/ ApiEnqueue(p) \/ ApiCommit(p)
TaskStep(w) ==
    \/ TaskClaim(w) \/ TaskProcessing(w) \/ TaskFence(w) \/ TaskSuperseded(w)
    \/ TaskReadRow(w) \/ TaskStale(w)
    \/ TaskGate(w) \/ TaskHandoff(w) \/ TaskHandoffCommit(w) \/ TaskFinal(w)
    \/ TaskComplete(w) \/ TaskAutoRecord(w) \/ TaskAutoEnqueue(w)
    \/ TaskAutoAck(w) \/ TaskError(w) \/ TaskFail(w) \/ TaskReturn(w)
SweepStep(s) == SweepClaim(s) \/ SweepEnqueue(s) \/ SweepAck(s) \/ SweepNack(s)

Next ==
    \/ \E p \in Api : ApiStep(p) \/ ApiAbort(p)
    \/ ApiDelete
    \/ \E w \in Worker, e \in Exec : TaskStart(w, e)
    \/ \E w \in Worker : TaskStep(w) \/ TaskCrash(w)
    \/ StuckSweep
    \/ \E s \in Sweeper : SweepStep(s) \/ SweepCrash(s)
    \/ \E e \in Exec : LeaseExpires(e) \/ RenewalStops(e) \/ BackoffEnds(e) \/ ResultExpires(e)

Spec == Init /\ [][Next]_vars

\* What the deployment guarantees: a request and a task keep going, ARQ hands
\* a queued job to a worker, the cron keeps sweeping, and time passes.
Fairness ==
    /\ \A p \in Api : WF_vars(ApiRecord(p) \/ ApiEnqueue(p) \/ ApiCommit(p))
    /\ \A w \in Worker : WF_vars(TaskStep(w))
    /\ \A s \in Sweeper : WF_vars(SweepStep(s))
    /\ \A e \in Exec : /\ SF_vars(\E w \in Worker : TaskStart(w, e))
                        /\ WF_vars(LeaseExpires(e))
                        /\ WF_vars(BackoffEnds(e))
                        /\ SF_vars(ResultExpires(e))

FairSpec == Spec /\ Fairness

-----------------------------------------------------------------------------
(* Properties *)

\* A worker that is alive inside a claimed execution of the current cycle
\* still holds its row: running, under its own token, with a live lease.
\* Neither the sweep, nor a request, nor another task took it away.
LiveOwnerKeepsRow ==
    \A w \in Worker :
        LET e == wk[w].exec IN
        wk[w].claim /\ IsCurrent(e) =>
            /\ row[e].status = "running"
            /\ row[e].token = w
            /\ row[e].lease = "live"

\* "stale" is kept for executions the source has moved past: no execution of
\* the current generation of a source that is not being deleted is closed as
\* stale, which would lose its work without an error.
StaleMeansSuperseded ==
    \A e \in Exec : row[e].status = "stale" => Superseded(e)

\* A stage that completed by handing off left its continuation in the outbox,
\* whatever crashed afterwards.
ContinuationRecorded ==
    \A e \in Exec :
        row[e].reason = "handoff" =>
            row[<<e[1], Continuation[e[2]]>>].status # "absent"

\* Only a row that used up its budget of enqueue attempts is given up.
ExhaustedUsedBudget ==
    \A e \in Exec :
        row[e].reason = "exhausted" => row[e].attempt = MaxEnqueueAttempts

\* "Terminal rows are never re-armed".  A late mark, of a task that read its
\* row as owned before the sweep or a deletion closed it, may still change
\* the verdict, but only of an execution the source has moved past.
TerminalIsFinal ==
    [][\A e \in Exec : row[e].status \in Terminal =>
          /\ row'[e].status \in Terminal
          /\ row'[e].status # row[e].status => Superseded(e)]_vars

\* Every execution in the outbox is eventually closed: no crash, lost job or
\* failed enqueue leaves it waiting forever.
Settles ==
    \A e \in Exec : row[e].status \in NonTerminal ~> row[e].status \in Terminal

\* dispatch_generation only grows.
GenerationMonotone == [][source'.gen >= source.gen]_vars

\* The outbox implements its contract: whatever leases, jobs, sweeps and retries
\* do, the executions of a source go through what DispatchContract describes.
ExecutionState(r) ==
    IF r.status = "absent" THEN "none"
    ELSE IF r.status \in NonTerminal THEN "open" ELSE r.status

Contract == INSTANCE DispatchContract WITH
    gen <- source.gen, deleted <- source.tomb,
    state <- [e \in Exec |-> ExecutionState(row[e])]

DispatchContractHolds == Contract!Spec

-----------------------------------------------------------------------------
(* What the module's own documentation says, where the code does otherwise *)

\* "A stale worker must not mark the source failed".
StaleNeverMarksError ==
    [][\A w \in Worker :
          TaskError(w) \/ TaskReturn(w) => source.gen <= wk[w].exec[1]]_vars

\* "worker tasks claim the current-generation execution at entry": no task
\* works unclaimed on an execution that is open in the outbox.
RunsAreClaimed ==
    \A w \in Worker :
        wk[w].pc \notin {"idle", "started"} /\ row[wk[w].exec].status \in NonTerminal
            => wk[w].claim

=============================================================================
