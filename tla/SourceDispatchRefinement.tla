---------------------- MODULE SourceDispatchRefinement ----------------------
(***************************************************************************)
(* The outbox implements DispatchContract: every step of SourceDispatch is *)
(* a step of the contract on what ExecutionState shows of the rows, or     *)
(* changes nothing the contract speaks of.                                 *)
(***************************************************************************)
EXTENDS SourceDispatchProofs

\* What ExecutionState makes of a row.
LEMMA StateOfRow ==
    ASSUME NEW r \in Row
    PROVE  /\ r.status = "absent" <=> ExecutionState(r) = "none"
           /\ r.status \in NonTerminal <=> ExecutionState(r) = "open"
           /\ r.status \in Terminal <=> ExecutionState(r) \in {"completed", "failed", "stale"}
           /\ r.status \in Terminal => ExecutionState(r) = r.status
           /\ ExecutionState(r) \in {"none", "open", "completed", "failed", "stale"}
  BY DEF ExecutionState, Row, NonTerminal, Terminal

\* A verdict a row may be given outside a handoff: it is open, or the source
\* has moved past it.
MayClose(e, verdict) ==
    /\ \/ row[e].status \in NonTerminal
       \/ row[e].status \in Terminal /\ Superseded(e)
    /\ verdict \in Terminal
    /\ verdict = "stale" => Superseded(e)
    /\ verdict = "completed" =>
          \/ Continuation[e[2]] = NoStage
          \/ Exists(<<e[1], Continuation[e[2]]>>)

\* A step that leaves the source's cycle alone, and the rows too but for those
\* it gives a verdict, is a Close of the contract.
LEMMA ClosesAreCloses ==
    ASSUME TypeInv, TypeInv', source'.gen = source.gen, source'.tomb = source.tomb,
           \A e \in Exec : \/ row'[e].status = row[e].status
                           \/ row[e].status \in NonTerminal /\ row'[e].status \in NonTerminal
                           \/ MayClose(e, row'[e].status)
    PROVE  Contract!Next
  <1> DEFINE st == [e \in Exec |-> ExecutionState(row[e])]
             nx == [e \in Exec |-> ExecutionState(row'[e])]
  <1>1. /\ \A e \in Exec : row[e] \in Row /\ row'[e] \in Row
        /\ source.gen \in Nat
    BY DEF TypeInv, TypeOK, SourceState
  <1>2. nx \in [Exec -> {"none", "open"} \cup {"completed", "failed", "stale"}]
    BY <1>1, StateOfRow
  <1>3. ASSUME NEW e \in Exec, nx[e] # st[e]
        PROVE  /\ nx[e] \in {"completed", "failed", "stale"}
               /\ \/ st[e] = "open"
                  \/ st[e] # "none" /\ (source.tomb \/ source.gen > e[1])
               /\ nx[e] = "stale" => source.tomb \/ source.gen > e[1]
               /\ nx[e] = "completed" =>
                     \/ Continuation[e[2]] = NoStage
                     \/ st[<<e[1], Continuation[e[2]]>>] # "none"
    <2>1. MayClose(e, row'[e].status)
      <3>1. row'[e].status # row[e].status
        BY <1>3 DEF ExecutionState
      <3>2. ~(row[e].status \in NonTerminal /\ row'[e].status \in NonTerminal)
        BY <1>1, <1>3, StateOfRow
      <3>3. QED
        BY <3>1, <3>2
    <2>2. /\ nx[e] = row'[e].status /\ nx[e] \in Terminal
          /\ st[e] = "open" \/ (st[e] # "none" /\ Superseded(e))
      BY <1>1, <2>1, StateOfRow DEF MayClose
    <2>3. ASSUME nx[e] = "completed", Continuation[e[2]] # NoStage
          PROVE  st[<<e[1], Continuation[e[2]]>>] # "none"
      <3>1. <<e[1], Continuation[e[2]]>> \in Exec
        BY <2>3, ExecParts, DispatchConstants
      <3>2. QED
        BY <1>1, <2>1, <2>2, <2>3, <3>1, StateOfRow DEF MayClose, Exists
    <2>4. QED
      BY <2>1, <2>2, <2>3 DEF MayClose, Superseded, Terminal
  <1> HIDE DEF st, nx
  <1>4. Contract!Close
    BY <1>2, <1>3 DEF Contract!Close, Contract!Closable, Contract!Past, Contract!Execution, Contract!Verdict,
                      Contract!After, Exec, st, nx
  <1>5. QED
    BY <1>4 DEF Contract!Next

\* What a step of the contract is, and what it may ignore.
ContractStep == Contract!Next \/ UNCHANGED Contract!vars

\* A request's commit begins the next cycle with its first execution.
LEMMA CommitBegins ==
    ASSUME Tolerated, OutboxInv, OutboxInv', NEW p \in Api, ApiCommit(p)
    PROVE  Contract!Next
  <1> DEFINE e == api[p].exec
             st == [f \in Exec |-> ExecutionState(row[f])]
             nx == [f \in Exec |-> ExecutionState(row'[f])]
  <1>1. /\ e \in Exec /\ api[p].bump /\ e[1] = source.gen + 1
        /\ api[p].snap.status = "absent" /\ api[p].snap \in Row /\ api[p].ok \in BOOLEAN
    BY Typed DEF ApiCommit, OutboxInv, RequestsAreNew, TypeInv, RequestNamed, Request
  <1>2. /\ e[2] \in Stage /\ e = <<source.gen + 1, e[2]>> /\ source.gen < MaxGeneration
        /\ source.gen \in Nat
    BY <1>1, ExecParts, Typed, DispatchConstants DEF OutboxInv
  <1>3. source'.gen = source.gen + 1 /\ source'.tomb = source.tomb
    BY <1>1 DEF ApiCommit, OutboxInv, TypeInv, TypeOK, SourceState
  <1>4. row[e].status = "absent" /\ \A f \in Exec : row[f] \in Row /\ row'[f] \in Row
    BY <1>1, Typed DEF OutboxInv, TypeInv, TypeOK, RowsOfCycles, Exists
  <1>5. /\ row'[e].status \in {"pending", "enqueued", "failed"}
        /\ \A f \in Exec : f # e => row'[f] = row[f]
    BY <1>1, <1>4, CommittedRow, Typed DEF ApiCommit, OutboxInv
  <1>6. st[e] = "none" /\ nx[e] \in {"open", "failed"}
    BY <1>1, <1>4, <1>5 DEF ExecutionState, NonTerminal
  <1>7. nx = [st EXCEPT ![e] = nx[e]]
    BY <1>1, <1>5
  <1> HIDE DEF st, nx
  <1>8. Contract!Begin(e[2], nx[e])
    BY <1>2, <1>3, <1>6, <1>7 DEF Contract!Begin, st, nx
  <1>9. QED
    BY <1>2, <1>6, <1>8 DEF Contract!Next

\* The commit of a handoff opens the continuation in the step that closes its
\* stage, while no other stage of the cycle is open; where the continuation is
\* already over, it is a Close.
LEMMA CommitHandsOff ==
    ASSUME Tolerated, Renewing, OutboxInv, ContinuationInv, OutboxInv', NEW w \in Worker,
           TaskHandoffCommit(w)
    PROVE  Contract!Next
  <1> DEFINE e == wk[w].exec
             n == wk[w].next
             snap == wk[w].snap
             st == [f \in Exec |-> ExecutionState(row[f])]
             nx == [f \in Exec |-> ExecutionState(row'[f])]
  <1>1. /\ wk[w].pc = "handed" /\ e \in Exec /\ Exists(e) /\ job[e] = "running"
        /\ wk[w].seen = e[1] /\ e[1] >= 1
    BY Typed DEF TaskHandoffCommit, OutboxInv, TypeInv, TaskNamed, TasksHaveRows, TasksPastClaim
  <1>2. /\ n \in Exec /\ n # e /\ n = <<e[1], Continuation[e[2]]>>
        /\ snap.status = row[n].status
        /\ snap.status = "absent" \/ snap.status \in Terminal
        /\ snap \in Row /\ wk[w].ok \in BOOLEAN
    BY <1>1, Typed DEF OutboxInv, TypeInv, TaskNamed, HandoffsAreFresh, ContinuationInv,
                       HandoffsContinue, Cycle, Task
  <1>3. source'.gen = source.gen /\ source'.tomb = source.tomb
    BY <1>1, Typed DEF TaskHandoffCommit, OutboxInv, TypeInv, TypeOK, SourceState
  <1>4. \A f \in Exec : row[f] \in Row /\ row'[f] \in Row
    BY DEF OutboxInv, TypeInv, TypeOK
  <1>5. /\ row'[e].status = "completed" \/ row'[e] = row[e]
        /\ row[e].status \in NonTerminal => row'[e].status = "completed"
        /\ row[e].status \in Terminal => row'[e] = row[e] \/ Superseded(e)
    <2>1. row'[e] = Marked(w, "completed", "handoff")[e]
      BY <1>1, <1>2, Typed DEF TaskHandoffCommit, Marked, OutboxInv
    <2>2. row[e].status \in NonTerminal => wk[w].read = "owned"
      <3>1. wk[w].read = "lost" => row[e].status \in Terminal
        BY <1>1 DEF OutboxInv, TasksPastClaim
      <3>2. wk[w].read \in {"owned", "lost"}
        BY Typed DEF TaskHandoffCommit, OutboxInv, Task
      <3>3. QED
        BY <3>1, <3>2 DEF Terminal, NonTerminal
    <2>3. ClosedRow(row[e], "completed", "handoff").status = "completed"
      BY <1>1, <1>4 DEF ClosedRow, Row
    <2>4. wk[w].read = "owned" /\ row[e].status \in Terminal => Superseded(e)
      BY <1>1, ClosedClaimIsPast DEF OutboxInv, TypeInv, TaskNamed
    <2>5. IF wk[w].read = "owned"
          THEN row'[e].status = "completed" ELSE row'[e] = row[e]
      BY <1>1, <2>1, <2>3, Typed DEF Marked, OutboxInv
    <2>6. QED
      BY <2>2, <2>4, <2>5
  <1>6. /\ row'[n] = Committed(n, snap, wk[w].ok)
        /\ \A f \in Exec : f # e /\ f # n => row'[f] = row[f]
    BY <1>1, <1>2, Typed DEF TaskHandoffCommit, Marked, OutboxInv
  <1>7. /\ snap.status = "absent" => row'[n].status \in {"pending", "enqueued", "failed"}
        /\ snap.status \in Terminal => row'[n] = row[n]
    BY <1>2, <1>4, <1>6, CommittedRow
  <1>8. row[e].status \in NonTerminal \cup Terminal
    BY <1>1, <1>4 DEF Exists, Row
  <1> HIDE DEF e, n, snap
  <1>9. CASE snap.status = "absent"
    <2>1. st[e] # "none" /\ st[n] = "none" /\ nx[n] \in {"open", "failed"}
      BY <1>1, <1>2, <1>4, <1>7, <1>8, <1>9 DEF ExecutionState, NonTerminal, Terminal
    <2>2. /\ nx[e] \in {"completed", st[e]}
          /\ st[e] = "open" => nx[e] = "completed"
          /\ nx[e] # st[e] => st[e] = "open" \/ source.tomb \/ source.gen > e[1]
      BY <1>1, <1>5, <1>8 DEF ExecutionState, NonTerminal, Terminal, Superseded
    <2>3. \A f \in Exec : f[1] = e[1] /\ f # e => st[f] # "open"
      <3>1. SUFFICES ASSUME NEW f \in Exec, f[1] = e[1], f # e, Exists(f)
                     PROVE  row[f].status \in Terminal
        BY <1>4 DEF ExecutionState, Exists, NonTerminal, Terminal
      <3>2. QED
        BY <1>1, <3>1 DEF OutboxInv, SingleTip, Finished
    <2>4. nx = [st EXCEPT ![e] = nx[e], ![n] = nx[n]]
      BY <1>1, <1>2, <1>6
    <2>5. Continuation[e[2]] # NoStage
      BY <1>2, ExecParts, DispatchConstants
    <2> HIDE DEF st, nx
    <2>6. Contract!HandOff(e, nx[n])
      BY <1>2, <1>3, <2>1, <2>2, <2>3, <2>4, <2>5
      DEF Contract!HandOff, Contract!After, Contract!Past, Contract!Execution, Exec, st, nx
    <2>7. e \in Contract!Execution
      BY <1>1 DEF Contract!Execution, Exec
    <2>8. QED
      BY <2>1, <2>6, <2>7 DEF Contract!Next
  <1>10. CASE snap.status \in Terminal
    <2>1. \A f \in Exec : f # e => row'[f] = row[f]
      BY <1>6, <1>7, <1>10
    <2>2. Exists(n)
      BY <1>2, <1>10 DEF Exists, Terminal
    <2>3. row'[e].status # row[e].status => MayClose(e, row'[e].status)
      BY <1>2, <1>5, <1>8, <2>2 DEF MayClose, Terminal
    <2>4. QED
      BY <1>3, <2>1, <2>3, ClosesAreCloses DEF OutboxInv
  <1>11. QED
    BY <1>2, <1>9, <1>10

\* Every other step of a task closes its own execution at most.
LEMMA TasksClose ==
    ASSUME Tolerated, Renewing, OutboxInv, ContinuationInv, OutboxInv', NEW w \in Worker,
           TaskStep(w) \/ TaskCrash(w), ~TaskHandoffCommit(w)
    PROVE  Contract!Next
  <1>1. ~TaskGate(w) /\ ~TaskAutoRecord(w) /\ ~TaskAutoEnqueue(w) /\ ~TaskAutoAck(w)
    BY DEF TaskGate, TaskAutoRecord, Tolerated, OutboxInv, TasksPastClaim, TaskAutoEnqueue,
           TaskAutoAck
  <1>2. source'.gen = source.gen /\ source'.tomb = source.tomb
    BY <1>1 DEF TaskStep, TaskCrash, TaskClaim, TaskProcessing, TaskFence, TaskFinal, TaskError,
                TaskHandoff, TaskReturn, TaskSuperseded, TaskReadRow, TaskStale, TaskComplete,
                TaskFail, OutboxInv, TypeInv, TypeOK, SourceState
  <1>3. CASE TaskClaim(w)
    <2> DEFINE e == wk[w].exec
    <2>1. e \in Exec /\ e = <<e[1], e[2]>> /\ ClaimsAs[e[2]] = e[2]
          /\ e[1] \in 1..MaxGeneration
      BY <1>3, ExecParts DEF TaskClaim, OutboxInv, TypeInv, TaskNamed, Tolerated
    <2>2. /\ row' # row => row[e].status \in NonTerminal /\ row'[e].status = "running"
          /\ \A f \in Exec : f # e => row'[f] = row[f]
      <3>1. row[e] \in Row /\ row \in [Exec -> Row]
        BY <2>1, Typed DEF OutboxInv
      <3>2. row' # row => row[e].status \in NonTerminal
        BY <1>3, <2>1 DEF TaskClaim, AbsentRow, NonTerminal
      <3>3. row' = row \/ row' = [row EXCEPT ![e] = [@ EXCEPT
                       !.status = "running", !.token = w, !.lease = "live",
                       !.wait = FALSE, !.reason = "none"]]
        BY <1>3 DEF TaskClaim
      <3>4. [row[e] EXCEPT !.status = "running", !.token = w, !.lease = "live",
                           !.wait = FALSE, !.reason = "none"].status = "running"
        BY <3>1 DEF Row
      <3>5. QED
        BY <2>1, <3>1, <3>2, <3>3, <3>4
    <2>3. QED
      BY <1>2, <2>2, ClosesAreCloses DEF OutboxInv, NonTerminal
  <1>4. CASE TaskProcessing(w) \/ TaskFence(w) \/ TaskFinal(w) \/ TaskError(w)
             \/ TaskHandoff(w) \/ TaskReturn(w) \/ TaskCrash(w)
             \/ TaskSuperseded(w) \/ TaskReadRow(w)
    <2>1. row' = row
      BY <1>4 DEF TaskProcessing, TaskFence, TaskFinal, TaskError, TaskHandoff, TaskReturn,
                  TaskCrash, TaskSuperseded, TaskReadRow
    <2>2. QED
      BY <1>2, <2>1, ClosesAreCloses DEF OutboxInv
  <1>5. ASSUME NEW st \in Terminal, NEW re, row' = Marked(w, st, re), wk[w].pc # "idle",
               st = "stale" => Superseded(wk[w].exec),
               st = "completed" => Continuation[wk[w].exec[2]] = NoStage
        PROVE  Contract!Next
    <2>1. \A f \in Exec : f # wk[w].exec => row'[f] = row[f]
      BY <1>5, MarkedEffect
    <2>2. row'[wk[w].exec] = row[wk[w].exec] \/ MayClose(wk[w].exec, row'[wk[w].exec].status)
      <3>1. CASE wk[w].read = "owned"
        <4>1. wk[w].claim /\ wk[w].exec \in Exec /\ row[wk[w].exec] \in Row
          BY <1>5, <3>1, Typed DEF OutboxInv, TypeInv, TaskNamed
        <4>2. row[wk[w].exec].status \in NonTerminal \cup Terminal
          BY <1>5, <4>1 DEF OutboxInv, TasksHaveRows, Exists, Row
        <4>3. row[wk[w].exec].status \in Terminal => Superseded(wk[w].exec)
          BY <1>5, <4>1, ClosedClaimIsPast
        <4>4. row'[wk[w].exec].status = st
          BY <1>5, <3>1, MarkedEffect
        <4>5. QED
          BY <1>5, <4>2, <4>3, <4>4 DEF MayClose
      <3>2. CASE wk[w].read # "owned"
        BY <1>5, <3>2 DEF Marked
      <3>3. QED
        BY <3>1, <3>2
    <2>3. QED
      BY <1>2, <2>1, <2>2, ClosesAreCloses DEF OutboxInv
  <1>6. CASE TaskStale(w)
    <2>1. row' = Marked(w, "stale", "superseded") /\ wk[w].pc = "superseded"
      BY <1>6 DEF TaskStale
    <2>2. Superseded(wk[w].exec)
      BY <2>1 DEF OutboxInv, FencedArePast
    <2>3. QED
      BY <1>5, <2>1, <2>2 DEF Terminal
  <1>7. CASE TaskComplete(w)
    <2>1. wk[w].pc = "effect" /\ Continuation[wk[w].exec[2]] = NoStage
      BY <1>7 DEF TaskComplete, ContinuationInv, EffectsRecorded, Tolerated
    <2>2. \E re \in Reasons : row' = Marked(w, "completed", re)
      BY <1>7 DEF TaskComplete, Reasons
    <2>3. QED
      BY <1>5, <2>1, <2>2 DEF Terminal
  <1>8. CASE TaskFail(w)
    <2>1. row' = Marked(w, "failed", "execution_failed") /\ wk[w].pc # "idle"
      BY <1>8 DEF TaskFail
    <2>2. QED
      BY <1>5, <2>1 DEF Terminal
  <1>9. QED
    BY <1>1, <1>3, <1>4, <1>6, <1>7, <1>8 DEF TaskStep

\* A sweep leases open rows, and closes as stale what the source has moved past
\* and as failed what was orphaned or used its attempts up.
LEMMA SweepsClose ==
    ASSUME OutboxInv, OutboxInv', NEW s \in Sweeper, SweepStep(s) \/ SweepCrash(s)
    PROVE  Contract!Next
  <1>1. UNCHANGED source
    BY DEF SweepStep, SweepClaim, SweepEnqueue, SweepAck, SweepNack, SweepCrash
  <1>2. ASSUME NEW r \in Row
        PROVE  /\ StaleRow(r).status = "stale" /\ EnqueuedRow(r).status = "enqueued"
               /\ Leased(r).status = "dispatching" /\ RetryRow(r).status = "pending"
               /\ \A st, re : ClosedRow(r, st, re).status = st
    BY DEF StaleRow, EnqueuedRow, Leased, RetryRow, ClosedRow, Row
  <1>3. CASE SweepClaim(s)
    <2> DEFINE clean == [e \in Exec |-> Reconciled(e)]
               due == {e \in Exec : IsCurrent(e) /\ Due(clean[e])}
    <2>1. row' = [e \in Exec |-> IF e \in due THEN Leased(clean[e]) ELSE clean[e]]
      BY <1>3 DEF SweepClaim
    <2>2. ASSUME NEW e \in Exec
          PROVE  /\ clean[e] \in Row
                 /\ clean[e] = row[e] \/ MayClose(e, clean[e].status)
      <3>1. row[e] \in Row
        BY Typed DEF OutboxInv
      <3>2. StaleRow(row[e]) \in Row /\ ClosedRow(row[e], "failed", "orphaned") \in Row
        BY <3>1, DerivedRows, ClosedRowType DEF Terminal, Reasons
      <3>3. QED
        BY <1>2, <3>1, <3>2 DEF Reconciled, MayClose, NonTerminal, Terminal
    <2>3. ASSUME NEW e \in due
          PROVE  row[e].status \in NonTerminal /\ row'[e].status \in NonTerminal
      <3>1. clean[e].status \in NonTerminal
        BY <2>3 DEF Due, NonTerminal
      <3>2. clean[e] = row[e]
        BY <2>2, <3>1 DEF MayClose, NonTerminal, Terminal
      <3>3. QED
        BY <1>2, <2>1, <2>2, <3>1, <3>2 DEF NonTerminal
    <2> HIDE DEF clean, due
    <2>4. \A e \in Exec : \/ row'[e].status = row[e].status
                          \/ row[e].status \in NonTerminal /\ row'[e].status \in NonTerminal
                          \/ MayClose(e, row'[e].status)
      BY <2>1, <2>2, <2>3
    <2>5. QED
      BY <1>1, <2>4, ClosesAreCloses DEF OutboxInv
  <1>4. CASE SweepEnqueue(s) \/ SweepCrash(s)
    <2>1. row' = row
      BY <1>4 DEF SweepEnqueue, SweepCrash
    <2>2. QED
      BY <1>1, <2>1, ClosesAreCloses DEF OutboxInv
  <1>5. CASE SweepAck(s) \/ SweepNack(s)
    <2> DEFINE e == sw[s].cur
    <2>1. e \in Exec /\ row[e] \in Row /\ row \in [Exec -> Row]
      BY <1>5, Typed DEF SweepAck, SweepNack, OutboxInv, TypeInv, SweepNamed
    <2>2. \/ row' = row
          \/ /\ row[e].status = "dispatching"
             /\ \/ row' = [row EXCEPT ![e] = StaleRow(@)] /\ Superseded(e)
                \/ row' = [row EXCEPT ![e] = EnqueuedRow(@)]
                \/ row' = [row EXCEPT ![e] = ClosedRow(@, "failed", "exhausted")]
                \/ row' = [row EXCEPT ![e] = RetryRow(@)]
      BY <1>5, <2>1 DEF SweepAck, SweepNack, OwnsLease
    <2>3. /\ \A f \in Exec : f # e => row'[f] = row[f]
          /\ \/ row'[e] = row[e]
             \/ row[e].status \in NonTerminal /\ row'[e].status \in NonTerminal
             \/ MayClose(e, row'[e].status)
      BY <1>2, <2>1, <2>2 DEF MayClose, NonTerminal, Terminal
    <2>4. QED
      BY <1>1, <2>3, ClosesAreCloses DEF OutboxInv
  <1>6. QED
    BY <1>3, <1>4, <1>5 DEF SweepStep

LEMMA StepsOfContract ==
    ASSUME Tolerated, Renewing, OutboxInv, ContinuationInv, [Next]_vars
    PROVE  ContractStep
  <1>1. OutboxInv'
    BY OutboxStep
  <1>2. CASE source' = source /\ row' = row
    BY <1>2 DEF ContractStep, Contract!vars
  <1>3. CASE UNCHANGED vars
    BY <1>2, <1>3 DEF vars
  <1>4. ASSUME NEW p \in Api, ApiStep(p) \/ ApiAbort(p), ~ApiCommit(p)
        PROVE  source' = source /\ row' = row
    BY <1>4 DEF ApiStep, ApiLoad, ApiRecord, ApiEnqueue, ApiAbort
  <1>5. CASE ApiDelete
    <2> DEFINE st == [e \in Exec |-> ExecutionState(row[e])]
               nx == [e \in Exec |-> ExecutionState(row'[e])]
    <2>1. source'.tomb = TRUE /\ source'.gen = source.gen
      BY <1>5 DEF ApiDelete, OutboxInv, TypeInv, TypeOK, SourceState
    <2>2. ASSUME NEW e \in Exec
          PROVE  nx[e] = IF st[e] = "open" THEN "stale" ELSE st[e]
      <3>1. /\ row[e].status \in NonTerminal => row'[e].status = "stale"
            /\ row[e].status \notin NonTerminal => row'[e] = row[e]
        BY <1>5, DeleteEffect DEF OutboxInv
      <3>2. row[e] \in Row /\ row'[e] \in Row
        BY <1>1 DEF OutboxInv, TypeInv, TypeOK
      <3>3. CASE row[e].status \in NonTerminal
        <4>1. st[e] = "open" /\ row'[e].status \in Terminal
          BY <3>1, <3>2, <3>3, StateOfRow DEF Terminal
        <4>2. nx[e] = "stale"
          BY <3>1, <3>2, <3>3, <4>1, StateOfRow
        <4>3. QED
          BY <4>1, <4>2
      <3>4. CASE row[e].status \notin NonTerminal
        BY <3>1, <3>2, <3>4, StateOfRow
      <3>5. QED
        BY <3>3, <3>4
    <2>3. nx = [e \in Exec |-> IF st[e] = "open" THEN "stale" ELSE st[e]]
      BY <2>2
    <2> HIDE DEF st, nx
    <2>4. QED
      BY <2>1, <2>3 DEF ContractStep, Contract!Next, Contract!Delete, Contract!Execution,
                        Exec, st, nx
  <1>6. CASE StuckSweep
    <2>1. source'.tomb = source.tomb /\ source'.gen = source.gen /\ row' = row
      BY <1>6 DEF StuckSweep, OutboxInv, TypeInv, TypeOK, SourceState
    <2>2. QED
      BY <2>1 DEF ContractStep, Contract!vars
  <1>7. ASSUME NEW w \in Worker, NEW e \in Exec, TaskStart(w, e)
        PROVE  source' = source /\ row' = row
    BY <1>7 DEF TaskStart
  <1>8. ASSUME NEW e \in Exec, \/ LeaseExpires(e) \/ RenewalStops(e)
                               \/ BackoffEnds(e) \/ ResultExpires(e)
        PROVE  ContractStep
    <2>1. UNCHANGED source
      BY <1>8 DEF LeaseExpires, RenewalStops, BackoffEnds, ResultExpires
    <2>2. row[e] \in Row /\ row \in [Exec -> Row]
      BY Typed DEF OutboxInv
    <2>3. \/ row' = row
          \/ row' = [row EXCEPT ![e].lease = "expired"]
          \/ row' = [row EXCEPT ![e].wait = FALSE]
      BY <1>8 DEF LeaseExpires, RenewalStops, BackoffEnds, ResultExpires
    <2>4. \A f \in Exec : row'[f].status = row[f].status
      BY <2>2, <2>3 DEF Row
    <2>5. QED
      BY <1>1, <2>1, <2>4, ClosesAreCloses DEF OutboxInv, ContractStep
  <1>9. QED
    BY <1>1, <1>2, <1>3, <1>4, <1>5, <1>6, <1>7, <1>8, CommitBegins, CommitHandsOff,
       TasksClose, SweepsClose DEF Next, ContractStep

\* Where Tolerated holds and leases are renewed, the outbox implements its
\* contract: a cycle begins with one execution, a stage is handed off in the
\* step that completes it and beside no other open stage, a deletion closes
\* what is open, and every other change is a verdict given to an execution
\* that is open or that the source has moved past.
THEOREM OutboxImplementsContract ==
    ASSUME Tolerated, Renewing
    PROVE  Spec => DispatchContractHolds
  <1>1. Init => Contract!Init
    <2> SUFFICES ASSUME Init PROVE Contract!Init
      OBVIOUS
    <2>1. \A e \in Exec : ExecutionState(row[e]) = "none"
      BY DEF Init, AbsentRow, ExecutionState
    <2>2. source.gen = 0 /\ source.tomb = FALSE
      BY DEF Init
    <2>3. QED
      BY <2>1, <2>2 DEF Contract!Init, Contract!Execution, Exec
  <1>2. OutboxInv /\ ContinuationInv /\ [Next]_vars => [Contract!Next]_(Contract!vars)
    BY StepsOfContract DEF ContractStep
  <1>3. OutboxInv /\ OutboxInv' /\ ContinuationInv /\ [Next]_vars => ContinuationInv'
    BY ContinuationStep DEF OutboxInv, Tolerated
  <1>4. QED
    BY <1>1, <1>2, <1>3, OutboxInit, OutboxStep, ContinuationInit, PTL
    DEF Spec, DispatchContractHolds, Contract!Spec
=============================================================================
