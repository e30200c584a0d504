------------------------- MODULE SourceDispatchInv -------------------------
(***************************************************************************)
(* The inductive invariants behind the theorems about SourceDispatch.      *)
(***************************************************************************)
EXTENDS SourceDispatch

-----------------------------------------------------------------------------
(* What the types leave open: a task, a request, a sweep and a gate that    *)
(* are under way name an execution, not NoExec, and only a task with a      *)
(* claim reads its row as owned.                                            *)

TaskNamed ==
    \A w \in Worker :
        /\ wk[w].pc # "idle" => wk[w].exec \in Exec
        /\ wk[w].pc \in {"handed", "recorded", "acking"} => wk[w].next \in Exec
        /\ wk[w].read # "none" =>
              wk[w].pc \in {"handed", "effect", "failing", "superseded"}
        /\ wk[w].read = "owned" => wk[w].claim
RequestNamed == \A p \in Api : api[p].pc # "idle" => api[p].exec \in Exec
SweepNamed == \A s \in Sweeper : sw[s].pc \in {"ack", "nack"} => sw[s].cur \in Exec
GateNamed == source.status = "awaiting_approval" => source.gate \in Stage

TypeInv == TypeOK /\ TaskNamed /\ RequestNamed /\ SweepNamed /\ GateNamed

-----------------------------------------------------------------------------
(* The part of the deployment for which the outbox keeps its promises: one  *)
(* request at a time per source, tasks that claim their own stage and hand  *)
(* off in one commit, and no fault but a dying worker or sweep, a worker    *)
(* shutting down, an enqueue that fails and a lease renewal that stops.     *)

Tolerated ==
    /\ Faults \subseteq {"crash", "cancel", "enqueue_error", "renewal_stops"}
    /\ Gated = {}
    /\ AutoTriggered = {}
    /\ ClaimsAs = [s \in Stage |-> s]
    /\ \A p, q \in Api : p = q

\* The lease of a live task is renewed for as long as the task runs.
Renewing == "renewal_stops" \notin Faults

Exists(e) == row[e].status # "absent"

\* Nothing will run the execution again.
Finished(e) == row[e].status \in Terminal /\ job[e] = "done"

\* No row belongs to a cycle that has not begun.
RowsOfCycles == \A e \in Exec : Exists(e) => e[1] <= source.gen

\* A job in the queue has a row, or one about to be committed.
JobsHaveRows == \A e \in Exec : job[e] # "none" => Exists(e) \/ CommitPending(e)

LeasesHaveRows ==
    \A s \in Sweeper :
        /\ \A e \in sw[s].todo : Exists(e)
        /\ sw[s].pc \in {"ack", "nack"} => Exists(sw[s].cur)

\* The only request under way starts the next cycle, with a row nobody has.
RequestsAreNew ==
    \A p \in Api : api[p].pc # "idle" =>
        /\ api[p].bump
        /\ api[p].exec[1] = source.gen + 1
        /\ api[p].pc \in {"recorded", "acked"} => api[p].snap.status = "absent"

\* ARQ runs a job once at a time, and the task loaded the source later than
\* its cycle began.
TasksHaveRows ==
    \A w \in Worker : wk[w].pc # "idle" =>
        /\ job[wk[w].exec] = "running"
        /\ Exists(wk[w].exec)
        /\ wk[w].exec[1] <= wk[w].seen
        /\ wk[w].seen <= source.gen
        /\ \A v \in Worker : wk[v].pc # "idle" /\ wk[v].exec = wk[w].exec => v = w

\* A task that claimed its row still has its token on it, or finds it closed;
\* a task without a claim runs an execution that was closed before, and a task
\* reads its row as lost only when it is closed.
TasksPastClaim ==
    \A w \in Worker :
        /\ wk[w].pc \notin {"recorded", "acking", "triggered"}
        /\ wk[w].pc \in {"idle", "started"} => ~wk[w].claim
        /\ wk[w].pc \notin {"idle", "started"} =>
              /\ wk[w].seen = wk[w].exec[1]
              /\ IF wk[w].claim
                 THEN \/ row[wk[w].exec].status \in NonTerminal /\ row[wk[w].exec].token = w
                      \/ row[wk[w].exec].status \in Terminal
                 ELSE row[wk[w].exec].status \in Terminal
              /\ wk[w].read = "lost" => row[wk[w].exec].status \in Terminal

\* A handoff that has not committed holds a row no other session can change:
\* one that is not there yet, or one that is closed.
HandoffsAreFresh ==
    \A w \in Worker : wk[w].pc = "handed" =>
        /\ wk[w].next[1] = wk[w].exec[1]
        /\ wk[w].next # wk[w].exec
        /\ wk[w].snap.status = row[wk[w].next].status
        /\ wk[w].snap.status \in Terminal \cup {"absent"}

\* A cycle has at most one execution that is not finished: the handoff closes
\* a stage in the commit that opens the next one, and nothing runs a closed
\* stage beside it.
SingleTip ==
    \A e, f \in Exec :
        e # f /\ e[1] = f[1] /\ Exists(e) /\ Exists(f) => Finished(e) \/ Finished(f)

NoGates == source.status # "awaiting_approval"

\* What an execution of the current cycle owes to its renewals alone.
OwnersKeep == Renewing => LiveOwnerKeepsRow
StaleIsPast == Renewing => StaleMeansSuperseded
FencedArePast ==
    Renewing => \A w \in Worker : wk[w].pc = "superseded" => Superseded(wk[w].exec)

\* The inductive invariant: whatever tasks, requests, sweeps and the faults
\* of Tolerated do to the outbox and the queue, they stay in this relation.
OutboxInv ==
    /\ TypeInv
    /\ RowsOfCycles /\ JobsHaveRows /\ LeasesHaveRows
    /\ RequestsAreNew /\ TasksHaveRows /\ TasksPastClaim /\ HandoffsAreFresh
    /\ SingleTip /\ NoGates
    /\ OwnersKeep /\ StaleIsPast /\ FencedArePast

-----------------------------------------------------------------------------
(* What holds beyond Tolerated, with gates, stages that hand off through    *)
(* _auto_trigger_refine, and tasks that claim another stage.                *)

\* Requests to the router take turns and do not die before their commit.
Serial == (\A p, q \in Api : p = q) /\ "gap" \notin Faults

\* Before its first cycle a source has no row and nothing running, and nothing
\* queued but the job of a request that is about to commit.
CycleBegins ==
    source.gen = 0 =>
        /\ \A e \in Exec : ~Exists(e)
        /\ \A e \in Exec : job[e] # "none" =>
              \E p \in Api : api[p].pc = "acked" /\ api[p].exec = e
        /\ \A w \in Worker : wk[w].pc = "idle"
        /\ \A s \in Sweeper : sw[s].todo = {}

\* A task loaded a cycle that had begun; a request starts one that is not older
\* than the current one, or continues one.
TasksSawCycle ==
    \A w \in Worker : wk[w].pc # "idle" => 1 <= wk[w].seen /\ wk[w].seen <= source.gen
RequestsAhead ==
    \A p \in Api : api[p].pc # "idle" =>
        IF api[p].bump THEN api[p].exec[1] >= source.gen ELSE source.gen >= 1

CyclesInv == CycleBegins /\ TasksSawCycle /\ RequestsAhead

\* A session that found a row, or committed one, still finds it.
SnapsHaveRows ==
    /\ \A p \in Api :
          api[p].pc \in {"recorded", "acked"} /\ api[p].snap.status # "absent"
              => Exists(api[p].exec)
    /\ \A w \in Worker :
          /\ wk[w].pc = "handed" /\ wk[w].snap.status # "absent" => Exists(wk[w].next)
          /\ wk[w].pc \in {"recorded", "acking", "triggered"} =>
                wk[w].next \in Exec /\ Exists(wk[w].next)

\* A task claims the execution of the cycle it loaded, and its handoff is to
\* the continuation of its stage, in the cycle it loaded or, through
\* _auto_trigger_refine, in one it found later.
ClaimsAreOfCycle == \A w \in Worker : wk[w].claim => wk[w].seen = wk[w].exec[1]
HandoffsContinue ==
    \A w \in Worker :
        /\ wk[w].pc = "handed" =>
              wk[w].next = <<Cycle(wk[w].seen), Continuation[wk[w].exec[2]]>>
        /\ wk[w].pc \in {"recorded", "acking", "triggered"} =>
              /\ wk[w].exec[2] \in AutoTriggered
              /\ wk[w].next[2] = Continuation[wk[w].exec[2]]
              /\ wk[w].seen <= wk[w].next[1] /\ wk[w].next[1] <= source.gen

\* A task that is about to complete a stage has recorded its continuation,
\* unless the stage stops at the gate or is the last.
EffectsRecorded ==
    \A w \in Worker :
        LET n == <<wk[w].exec[1], Continuation[wk[w].exec[2]]>> IN
        wk[w].pc = "effect" =>
            \/ wk[w].exec[2] \in Gated \/ Continuation[wk[w].exec[2]] = NoStage
            \/ wk[w].exec[2] \in AutoTriggered /\ (wk[w].claim => Exists(n))

HandoffReasons ==
    \A e \in Exec : row[e].reason = "handoff" => Continuation[e[2]] # NoStage

ContinuationInv ==
    /\ SnapsHaveRows /\ ClaimsAreOfCycle /\ HandoffsContinue /\ EffectsRecorded
    /\ HandoffReasons /\ ContinuationRecorded
=============================================================================
