------------------------ MODULE SourceDispatchProofs ------------------------
(***************************************************************************)
(* Proofs about SourceDispatch, for every number of workers, sweeps,       *)
(* stages, generations, attempts and faults.                               *)
(***************************************************************************)
EXTENDS SourceDispatchInv, TLAPS

-----------------------------------------------------------------------------
(* Types of rows *)

\* The parts of an execution, and the two constant rows.
LEMMA ExecParts ==
    /\ \A e \in Exec : /\ e[1] \in 1..MaxGeneration
                       /\ e[2] \in Stage
                       /\ e = <<e[1], e[2]>>
    /\ \A g \in 1..MaxGeneration, s \in Stage : <<g, s>> \in Exec
  BY DEF Exec

\* Every row the operations build is a row.
LEMMA ConstantRows ==
    AbsentRow \in Row /\ FreshRow \in Row
  <1>1. 0 \in 0..MaxEnqueueAttempts
    BY DispatchConstants
  <1>2. AbsentRow \in Row
    BY <1>1 DEF AbsentRow, Row, Reasons
  <1>3. FreshRow \in Row
    BY <1>2 DEF FreshRow, Row, NonTerminal
  <1>4. QED
    BY <1>2, <1>3

LEMMA BumpedType ==
    \A n \in 0..MaxEnqueueAttempts : Bumped(n) \in 0..MaxEnqueueAttempts
  BY DispatchConstants DEF Bumped

LEMMA ClosedRowType ==
    ASSUME NEW r \in Row, NEW st \in Terminal, NEW re \in Reasons
    PROVE  ClosedRow(r, st, re) \in Row
  BY DEF ClosedRow, Row

LEMMA DerivedRows ==
    ASSUME NEW r \in Row
    PROVE  /\ StaleRow(r) \in Row
           /\ EnqueuedRow(r) \in Row
           /\ Leased(r) \in Row
           /\ RetryRow(r) \in Row
           /\ Recorded(r) \in Row
           /\ \A ok \in BOOLEAN : OutboxRow(r, ok) \in Row
  <1>1. StaleRow(r) \in Row
    BY DEF StaleRow, Row, Terminal, Reasons
  <1>2. EnqueuedRow(r) \in Row
    BY DEF EnqueuedRow, Row, NonTerminal, Reasons
  <1>3. Leased(r) \in Row
    BY BumpedType DEF Leased, Row, NonTerminal, Reasons
  <1>4. \A q \in Row : RetryRow(q) \in Row
    BY DEF RetryRow, Row, NonTerminal, Reasons
  <1>5. Recorded(r) \in Row
    BY ConstantRows DEF Recorded
  <1>6. ASSUME NEW ok \in BOOLEAN PROVE OutboxRow(r, ok) \in Row
    <2> DEFINE b == [r EXCEPT !.attempt = Bumped(@)]
    <2>1. b \in Row
      BY BumpedType DEF Row
    <2>2. ClosedRow(b, "failed", "exhausted") \in Row
      BY <2>1, ClosedRowType DEF Terminal, Reasons
    <2>3. [ClosedRow(b, "failed", "exhausted") EXCEPT !.wait = r.wait] \in Row
      BY <2>2 DEF Row
    <2>4. QED
      BY <1>2, <1>4, <2>1, <2>3 DEF OutboxRow
  <1>7. QED
    BY <1>1, <1>2, <1>3, <1>4, <1>5, <1>6

\* A flush mixes the fields of the rows it is given.
LEMMA FlushedType ==
    ASSUME NEW cur \in Row, NEW snap \in Row, NEW new \in Row
    PROVE  Flushed(cur, snap, new) \in Row
  BY DEF Flushed, Row

LEMMA CommittedType ==
    ASSUME row \in [Exec -> Row], NEW e \in Exec, NEW snap \in Row,
           NEW ok \in BOOLEAN
    PROVE  Committed(e, snap, ok) \in Row
  <1>1. OutboxRow(Recorded(snap), ok) \in Row
    BY DerivedRows
  <1>2. QED
    BY <1>1, FlushedType DEF Committed

-----------------------------------------------------------------------------
(* Type correctness *)

\* A fault that may happen stays within its bound.
LEMMA FaultType ==
    ASSUME faults \in 0..MaxFaults, NEW k, CanFail(k), faults' = faults + 1
    PROVE  faults' \in 0..MaxFaults
  BY DispatchConstants DEF CanFail

\* What enqueue_job does to the queue and the fault counter.
LEMMA EnqueueType ==
    ASSUME TypeInv, NEW e \in Exec, NEW ok \in BOOLEAN, EnqueueJob(e, ok)
    PROVE  /\ job' \in [Exec -> {"none", "queued", "running", "done"}]
           /\ faults' \in 0..MaxFaults
  <1>1. Accepted(job, e) \in [Exec -> {"none", "queued", "running", "done"}]
    BY DEF TypeInv, TypeOK, Accepted
  <1>2. CASE ok
    BY <1>1, <1>2 DEF EnqueueJob, Enqueue, TypeInv, TypeOK
  <1>3. CASE ~ok
    <2>1. job' \in {job, Accepted(job, e)} /\ CanFail("enqueue_error")
          /\ faults' = faults + 1
      BY <1>3 DEF EnqueueJob, EnqueueRaises
    <2>2. QED
      BY <1>1, <2>1, FaultType DEF TypeInv, TypeOK
  <1>4. QED
    BY <1>2, <1>3

\* Requests of the sources router preserve the types.
LEMMA TypeApi ==
    ASSUME TypeInv, NEW p \in Api, ApiStep(p) \/ ApiAbort(p)
    PROVE  TypeInv'
  <1> USE DEF TypeInv
  <1>0. api[p] \in Request /\ (api[p].pc # "idle" => api[p].exec \in Exec)
        /\ IdleRequest \in Request
    BY ConstantRows DEF TypeOK, RequestNamed, Request, IdleRequest
  <1>1. CASE ApiLoad(p)
    <2>1. PICK x \in Exec, b \in BOOLEAN, st \in {"pending", "processing"} :
            api' = [api EXCEPT ![p] = [IdleRequest EXCEPT
                      !.pc = "loaded", !.exec = x, !.bump = b, !.status = st]]
      <3>1. ASSUME NEW s \in Stage, source.gen < MaxGeneration
            PROVE  <<source.gen + 1, s>> \in Exec
        <4>1. source.gen \in 0..MaxGeneration /\ MaxGeneration \in Nat
          BY DispatchConstants DEF TypeOK, SourceState
        <4>2. source.gen + 1 \in 1..MaxGeneration
          BY <3>1, <4>1
        <4>3. QED
          BY <4>2, ExecParts
      <3>2. ASSUME source.status = "awaiting_approval",
                   Continuation[source.gate] # NoStage
            PROVE  /\ <<Cycle(source.gen), Continuation[source.gate]>> \in Exec
                   /\ (source.gen < 1) \in BOOLEAN
        <4>1. Cycle(source.gen) \in 1..MaxGeneration
          BY DispatchConstants DEF TypeOK, SourceState, Cycle
        <4>2. Continuation[source.gate] \in Stage
          BY <3>2, DispatchConstants DEF GateNamed
        <4>3. QED
          BY <4>1, <4>2, ExecParts
      <3>3. CASE source.status = "awaiting_approval"
                 /\ Continuation[source.gate] # NoStage
                 /\ api' = [api EXCEPT ![p] = [IdleRequest EXCEPT
                      !.pc = "loaded", !.bump = source.gen < 1,
                      !.exec = <<Cycle(source.gen), Continuation[source.gate]>>,
                      !.status = "processing"]]
        <4>1. api' = [api EXCEPT ![p] = [IdleRequest EXCEPT
                      !.pc = "loaded",
                      !.exec = <<Cycle(source.gen), Continuation[source.gate]>>,
                      !.bump = source.gen < 1,
                      !.status = "processing"]]
          BY <3>3 DEF IdleRequest
        <4>2. QED
          BY <4>1, <3>2, <3>3
      <3>4. QED
        BY <1>1, <3>1, <3>3 DEF ApiLoad
    <2>2. api' \in [Api -> Request]
      BY <1>0, <2>1 DEF TypeOK, Request
    <2>3. QED
      BY <1>1, <2>1, <2>2
      DEF ApiLoad, TypeOK, TaskNamed, RequestNamed, SweepNamed, GateNamed,
          IdleRequest
  <1>2. CASE ApiRecord(p)
    <2>1. /\ api' = [api EXCEPT ![p].pc = "recorded", ![p].snap = row[api[p].exec]]
          /\ api[p].pc # "idle"
          /\ UNCHANGED <<source, row, job, wk, sw, faults>>
      BY <1>2 DEF ApiRecord
    <2>2. row[api[p].exec] \in Row
      BY <1>0, <2>1 DEF TypeOK
    <2>3. api' \in [Api -> Request] /\ RequestNamed'
      BY <1>0, <2>1, <2>2 DEF TypeOK, RequestNamed, Request
    <2>4. QED
      BY <2>1, <2>3 DEF TypeOK, TaskNamed, SweepNamed, GateNamed
  <1>3. CASE ApiEnqueue(p)
    <2>1. /\ job' \in [Exec -> {"none", "queued", "running", "done"}]
          /\ faults' \in 0..MaxFaults
      BY <1>0, <1>3, EnqueueType DEF ApiEnqueue, TypeOK
    <2>2. PICK ok \in BOOLEAN :
            api' = [api EXCEPT ![p].pc = "acked", ![p].ok = ok]
      BY <1>3 DEF ApiEnqueue
    <2>3. QED
      BY <1>0, <1>3, <2>1, <2>2
      DEF ApiEnqueue, TypeOK, TaskNamed, RequestNamed, SweepNamed, GateNamed,
          Request
  <1>4. CASE ApiCommit(p)
    <2>1. row' \in [Exec -> Row]
      BY <1>0, <1>4, CommittedType DEF ApiCommit, TypeOK, Request
    <2>2. source' \in SourceState /\ GateNamed'
      <3>1. api[p].exec[1] \in 0..MaxGeneration
        BY <1>0, <1>4, ExecParts DEF ApiCommit
      <3>2. QED
        BY <1>0, <1>4, <3>1
        DEF ApiCommit, TypeOK, Request, SourceState, GateNamed
    <2>3. api' \in [Api -> Request] /\ RequestNamed'
      BY <1>0, <1>4 DEF ApiCommit, TypeOK, RequestNamed, IdleRequest
    <2>4. QED
      BY <1>4, <2>1, <2>2, <2>3 DEF ApiCommit, TypeOK, TaskNamed, SweepNamed
  <1>5. CASE ApiAbort(p)
    <2>1. faults' \in 0..MaxFaults
      BY <1>5, FaultType DEF ApiAbort, TypeOK
    <2>2. QED
      BY <1>0, <1>5, <2>1
      DEF ApiAbort, TypeOK, TaskNamed, RequestNamed, SweepNamed, GateNamed,
          IdleRequest
  <1>6. QED
    BY <1>1, <1>2, <1>3, <1>4, <1>5 DEF ApiStep

\* Ending a task leaves an idle worker and a known job state.
LEMMA EndTaskType ==
    ASSUME TypeInv, NEW w \in Worker, wk[w].pc # "idle", EndTask(w)
    PROVE  /\ wk' \in [Worker -> Task] /\ TaskNamed'
           /\ job' \in [Exec -> {"none", "queued", "running", "done"}]
           /\ faults' \in 0..MaxFaults
  <1> USE DEF TypeInv
  <1>1. wk' = [wk EXCEPT ![w] = IdleTask]
    BY DEF EndTask
  <1>2. IdleTask \in Task
    BY ConstantRows, DispatchConstants DEF IdleTask, Task
  <1>3. wk' \in [Worker -> Task] /\ TaskNamed'
    BY <1>1, <1>2 DEF TypeOK, TaskNamed, IdleTask
  <1>4. job' \in [Exec -> {"none", "queued", "running", "done"}]
    BY DEF EndTask, TypeOK
  <1>5. faults' \in 0..MaxFaults
    BY FaultType DEF EndTask, TypeOK
  <1>6. QED
    BY <1>3, <1>4, <1>5

\* A terminal mark leaves rows.
LEMMA MarkedType ==
    ASSUME TypeInv, NEW w \in Worker, wk[w].pc # "idle",
           NEW st \in Terminal, NEW re \in Reasons
    PROVE  Marked(w, st, re) \in [Exec -> Row]
  <1>1. wk[w].exec \in Exec /\ row[wk[w].exec] \in Row
    BY DEF TypeInv, TypeOK, TaskNamed
  <1>2. ClosedRow(row[wk[w].exec], st, re) \in Row
    BY <1>1, ClosedRowType
  <1>3. QED
    BY <1>1, <1>2 DEF Marked, TypeInv, TypeOK

\* The ARQ tasks preserve the types.
LEMMA TypeTask ==
    ASSUME TypeInv, NEW w \in Worker, TaskStep(w) \/ TaskCrash(w)
    PROVE  TypeInv'
  <1> USE DEF TypeInv
  <1>0. wk[w] \in Task /\ IdleTask \in Task
    BY ConstantRows, DispatchConstants DEF IdleTask, Task, TypeOK
  <1>a. wk[w].pc # "idle" => wk[w].exec \in Exec
    BY DEF TaskNamed
  <1>1. CASE TaskClaim(w)
    <2> DEFINE e == wk[w].exec
               claimed == [row[e] EXCEPT
                       !.status = "running", !.token = w, !.lease = "live",
                       !.wait = FALSE, !.reason = "none"]
    <2>0. wk[w].pc # "idle" /\ e \in Exec
      BY <1>1, <1>a DEF TaskClaim
    <2>1. claimed \in Row
      <3>1. row[e] \in Row
        BY <2>0 DEF TypeOK
      <3>2. QED
        BY <3>1 DEF Row, NonTerminal, Reasons
    <2>2. row' \in [Exec -> Row]
      BY <1>1, <2>0, <2>1 DEF TaskClaim, TypeOK
    <2>3. /\ wk' \in [Worker -> Task] /\ TaskNamed'
          /\ job' \in [Exec -> {"none", "queued", "running", "done"}]
          /\ faults' \in 0..MaxFaults
      <3>1. CASE EndTask(w)
        BY <3>1, <2>0, EndTaskType
      <3>2. CASE ~EndTask(w)
        <4>1. UNCHANGED <<job, faults>>
          BY <1>1, <3>2 DEF TaskClaim
        <4>2. PICK c \in BOOLEAN :
                wk' = [wk EXCEPT ![w].pc = "claimed", ![w].claim = c]
          <5>1. wk[w].claim \in BOOLEAN
            BY <1>0 DEF Task
          <5>2. [wk EXCEPT ![w].pc = "claimed"] =
                [wk EXCEPT ![w].pc = "claimed", ![w].claim = wk[w].claim]
            BY <1>0 DEF TypeOK, Task
          <5>3. QED
            BY <1>1, <3>2, <5>1, <5>2 DEF TaskClaim
        <4>3. wk[w].read = "none"
          BY <1>0, <1>1 DEF TaskClaim, TaskNamed, Task
        <4>4. QED
          BY <1>0, <2>0, <4>1, <4>2, <4>3 DEF TypeOK, TaskNamed, Task
      <3>3. QED
        BY <3>1, <3>2
    <2>4. QED
      BY <1>1, <2>2, <2>3
      DEF TaskClaim, TypeOK, RequestNamed, SweepNamed, GateNamed
  <1>2. CASE TaskProcessing(w) \/ TaskFence(w) \/ TaskGate(w)
             \/ TaskFinal(w) \/ TaskError(w) \/ TaskSuperseded(w) \/ TaskReadRow(w)
    <2>1. wk[w].pc # "idle"
      BY <1>2 DEF TaskProcessing, TaskFence, AtFence, TaskGate, TaskFinal,
                  TaskError, TaskSuperseded, TaskReadRow
    <2>2. wk' \in [Worker -> Task] /\ TaskNamed'
      <3>1. CASE TaskProcessing(w) \/ TaskFence(w) \/ TaskGate(w)
                 \/ TaskFinal(w) \/ TaskSuperseded(w)
        <4>1. PICK q \in {"work", "effect", "fenced", "superseded"} :
                wk' = [wk EXCEPT ![w].pc = q]
          BY <3>1 DEF TaskProcessing, TaskFence, TaskGate, TaskFinal, TaskSuperseded
        <4>2. wk[w].pc \in {"claimed", "work", "triggered", "fenced"}
          BY <3>1 DEF TaskProcessing, TaskFence, AtFence, TaskGate, TaskFinal,
                      TaskSuperseded
        <4>3. QED
          BY <1>0, <1>a, <2>1, <4>1, <4>2 DEF TypeOK, TaskNamed, Task
      <3>2. CASE TaskError(w)
        <4>1. wk' = [wk EXCEPT ![w].pc = "failing", ![w].read = "none"]
          BY <3>2 DEF TaskError
        <4>2. QED
          BY <1>0, <1>a, <2>1, <4>1 DEF TypeOK, TaskNamed, Task
      <3>3. CASE TaskReadRow(w)
        <4>1. PICK q \in {"owned", "lost"} :
                /\ wk' = [wk EXCEPT ![w].read = q]
                /\ q = "owned" => wk[w].claim
                /\ wk[w].pc \in {"handed", "effect", "failing", "superseded"}
          BY <3>3 DEF TaskReadRow, Owns
        <4>2. QED
          BY <1>0, <1>a, <2>1, <4>1 DEF TypeOK, TaskNamed, Task
      <3>4. QED
        BY <1>2, <3>1, <3>2, <3>3
    <2>3. UNCHANGED <<row, job, sw, api, faults>>
      BY <1>2 DEF TaskProcessing, TaskFence, TaskGate, TaskFinal, TaskError,
                  TaskSuperseded, TaskReadRow
    <2>4. source' \in SourceState /\ GateNamed'
      <3>1. wk[w].exec[2] \in Stage
        BY <1>a, <2>1, ExecParts
      <3>2. QED
        BY <1>2, <3>1 DEF TaskProcessing, TaskFence, TaskGate, TaskFinal,
                          TaskError, TaskSuperseded, TaskReadRow, TypeOK,
                          SourceState, GateNamed
    <2>5. QED
      BY <2>2, <2>3, <2>4 DEF TypeOK, RequestNamed, SweepNamed
  <1>3. CASE TaskStale(w) \/ TaskComplete(w)
    <2>1. wk[w].pc # "idle" /\ EndTask(w) /\ UNCHANGED <<source, sw, api>>
      BY <1>3 DEF TaskStale, TaskComplete
    <2>2. PICK st \in Terminal, re \in Reasons : row' = Marked(w, st, re)
      BY <1>3 DEF TaskStale, TaskComplete, Terminal, Reasons
    <2>3. QED
      BY <2>1, <2>2, EndTaskType, MarkedType
      DEF TypeOK, RequestNamed, SweepNamed, GateNamed
  <1>4. CASE TaskHandoff(w)
    <2> DEFINE n == <<Cycle(wk[w].seen), Continuation[wk[w].exec[2]]>>
    <2>1. n \in Exec
      <3>1. Cycle(wk[w].seen) \in 1..MaxGeneration
        BY <1>0, DispatchConstants DEF Task, Cycle
      <3>2. Continuation[wk[w].exec[2]] \in Stage
        BY <1>4, <1>a, ExecParts, DispatchConstants DEF TaskHandoff
      <3>3. QED
        BY <3>1, <3>2, ExecParts
    <2>2. PICK ok \in BOOLEAN :
            wk' = [wk EXCEPT ![w].pc = "handed", ![w].next = n,
                             ![w].snap = row[n], ![w].ok = ok]
      BY <1>4 DEF TaskHandoff
    <2>3. /\ job' \in [Exec -> {"none", "queued", "running", "done"}]
          /\ faults' \in 0..MaxFaults
      BY <1>4, <2>1, EnqueueType DEF TaskHandoff, TypeOK
    <2>4. row[n] \in Row
      BY <2>1 DEF TypeOK
    <2>5. wk[w].pc = "fenced" /\ UNCHANGED <<source, row, sw, api>>
      BY <1>4 DEF TaskHandoff
    <2>6. wk' \in [Worker -> Task] /\ TaskNamed'
      <3> HIDE DEF n
      <3> QED
      BY <1>0, <1>a, <2>1, <2>2, <2>4, <2>5 DEF TypeOK, TaskNamed, Task
    <2>7. QED
      BY <2>3, <2>5, <2>6 DEF TypeOK, RequestNamed, SweepNamed, GateNamed
  <1>5. CASE TaskHandoffCommit(w)
    <2>1. wk[w].pc = "handed" /\ EndTask(w) /\ UNCHANGED <<sw, api>>
      BY <1>5 DEF TaskHandoffCommit
    <2>2. wk[w].next \in Exec /\ wk[w].snap \in Row /\ wk[w].ok \in BOOLEAN
      BY <1>0, <2>1 DEF TaskNamed, Task
    <2>3. Marked(w, "completed", "handoff") \in [Exec -> Row]
      BY <2>1, MarkedType DEF Terminal, Reasons
    <2>4. Committed(wk[w].next, wk[w].snap, wk[w].ok) \in Row
      BY <2>2, CommittedType DEF TypeOK
    <2>5. row' \in [Exec -> Row]
      BY <1>5, <2>2, <2>3, <2>4 DEF TaskHandoffCommit
    <2>6. source' \in SourceState /\ GateNamed'
      <3>1. 1 \in 0..MaxGeneration
        BY DispatchConstants
      <3>2. QED
        BY <1>5, <3>1 DEF TaskHandoffCommit, TypeOK, SourceState, GateNamed
    <2>7. QED
      BY <2>1, <2>5, <2>6, EndTaskType DEF TypeOK, RequestNamed, SweepNamed
  <1>6. CASE TaskAutoRecord(w)
    <2> DEFINE n == <<Cycle(source.gen), Continuation[wk[w].exec[2]]>>
    <2>1. Cycle(source.gen) \in 1..MaxGeneration
      BY DispatchConstants DEF Cycle, TypeOK, SourceState
    <2>2. n \in Exec
      <3>1. Continuation[wk[w].exec[2]] \in Stage
        BY <1>6, <1>a, ExecParts, DispatchConstants DEF TaskAutoRecord
      <3>2. QED
        BY <2>1, <3>1, ExecParts
    <2>3. Recorded(row[n]) \in Row
      BY <2>2, DerivedRows DEF TypeOK
    <2>4. wk[w].pc = "work" /\ UNCHANGED <<job, sw, api, faults>>
      BY <1>6 DEF TaskAutoRecord
    <2>5. source' \in SourceState /\ GateNamed'
      BY <1>6, <2>1 DEF TaskAutoRecord, TypeOK, SourceState, GateNamed
    <2>6. /\ row' = [row EXCEPT ![n] = Recorded(row[n])]
          /\ wk' = [wk EXCEPT ![w].pc = "recorded", ![w].next = n,
                               ![w].snap = Recorded(row[n])]
      BY <1>6 DEF TaskAutoRecord
    <2> HIDE DEF n
    <2>7. row' \in [Exec -> Row]
      BY <2>2, <2>3, <2>6 DEF TypeOK
    <2>8. wk' \in [Worker -> Task] /\ TaskNamed'
      BY <1>0, <1>a, <2>2, <2>3, <2>4, <2>6 DEF TypeOK, TaskNamed, Task
    <2>9. QED
      BY <2>4, <2>5, <2>7, <2>8 DEF TypeOK, RequestNamed, SweepNamed
  <1>7. CASE TaskAutoEnqueue(w)
    <2>1. wk[w].pc = "recorded" /\ wk[w].next \in Exec
          /\ UNCHANGED <<source, row, sw, api>>
      BY <1>7 DEF TaskAutoEnqueue, TaskNamed
    <2>2. PICK ok \in BOOLEAN :
            wk' = [wk EXCEPT ![w].pc = "acking", ![w].ok = ok]
      BY <1>7 DEF TaskAutoEnqueue
    <2>3. /\ job' \in [Exec -> {"none", "queued", "running", "done"}]
          /\ faults' \in 0..MaxFaults
      BY <1>7, <2>1, EnqueueType DEF TaskAutoEnqueue, TypeOK
    <2>4. wk' \in [Worker -> Task] /\ TaskNamed'
      BY <1>0, <1>a, <2>1, <2>2 DEF TypeOK, TaskNamed, Task
    <2>5. QED
      BY <2>1, <2>3, <2>4 DEF TypeOK, RequestNamed, SweepNamed, GateNamed
  <1>8. CASE TaskAutoAck(w)
    <2>1. /\ wk[w].pc = "acking" /\ wk[w].next \in Exec
          /\ wk[w].snap \in Row /\ wk[w].ok \in BOOLEAN
          /\ UNCHANGED <<source, job, sw, api, faults>>
      BY <1>0, <1>8 DEF TaskAutoAck, TaskNamed, Task
    <2>2. row' \in [Exec -> Row]
      BY <1>8, <2>1, CommittedType DEF TaskAutoAck, TypeOK
    <2>3. wk' \in [Worker -> Task] /\ TaskNamed'
      BY <1>0, <1>a, <1>8, <2>1 DEF TaskAutoAck, TypeOK, TaskNamed, Task
    <2>4. QED
      BY <2>1, <2>2, <2>3 DEF TypeOK, RequestNamed, SweepNamed, GateNamed
  <1>9. CASE TaskFail(w)
    <2>1. wk[w].pc = "failing" /\ UNCHANGED <<source, sw, api>>
      BY <1>9 DEF TaskFail
    <2>2. row' \in [Exec -> Row]
      BY <1>9, <2>1, MarkedType DEF TaskFail, Terminal, Reasons
    <2>3. /\ wk' \in [Worker -> Task] /\ TaskNamed'
          /\ job' \in [Exec -> {"none", "queued", "running", "done"}]
          /\ faults' \in 0..MaxFaults
      <3>1. CASE EndTask(w)
        BY <2>1, <3>1, EndTaskType
      <3>2. CASE ~EndTask(w)
        <4>1. /\ CanFail("cancel") /\ faults' = faults + 1
              /\ wk' = [wk EXCEPT ![w] = IdleTask]
              /\ job' = [job EXCEPT ![wk[w].exec] = "queued"]
          BY <1>9, <3>2 DEF TaskFail
        <4>2. QED
          BY <1>0, <4>1, FaultType DEF TypeOK, TaskNamed, IdleTask
      <3>3. QED
        BY <3>1, <3>2
    <2>4. QED
      BY <2>1, <2>2, <2>3 DEF TypeOK, RequestNamed, SweepNamed, GateNamed
  <1>10. CASE TaskReturn(w)
    <2>1. wk[w].pc = "work" /\ EndTask(w) /\ UNCHANGED <<row, sw, api>>
      BY <1>10 DEF TaskReturn
    <2>2. source' \in SourceState /\ GateNamed'
      BY <1>10 DEF TaskReturn, TypeOK, SourceState, GateNamed
    <2>3. QED
      BY <2>1, <2>2, EndTaskType DEF TypeOK, RequestNamed, SweepNamed
  <1>11. CASE TaskCrash(w)
    <2>1. /\ CanFail("crash") /\ faults' = faults + 1
          /\ wk' = [wk EXCEPT ![w] = IdleTask]
          /\ UNCHANGED <<source, row, sw, api>>
      BY <1>11 DEF TaskCrash
    <2>2. job' \in [Exec -> {"none", "queued", "running", "done"}]
      BY <1>11 DEF TaskCrash, TypeOK
    <2>3. faults' \in 0..MaxFaults
      BY <2>1, FaultType DEF TypeOK
    <2>4. wk' \in [Worker -> Task] /\ TaskNamed'
      BY <1>0, <2>1 DEF TypeOK, TaskNamed, IdleTask
    <2>5. QED
      BY <2>1, <2>2, <2>3, <2>4 DEF TypeOK, RequestNamed, SweepNamed, GateNamed
  <1>12. QED
    BY <1>1, <1>2, <1>3, <1>4, <1>5, <1>6, <1>7, <1>8, <1>9, <1>10, <1>11
    DEF TaskStep

\* Picking a job up preserves the types.
LEMMA TypeTaskStart ==
    ASSUME TypeInv, NEW w \in Worker, NEW e \in Exec, TaskStart(w, e)
    PROVE  TypeInv'
  <1> USE DEF TypeInv
  <1>1. job' \in [Exec -> {"none", "queued", "running", "done"}]
    BY DEF TaskStart, TypeOK
  <1>2. wk' \in [Worker -> Task] /\ TaskNamed'
    <2>1. IdleTask \in Task /\ source.gen \in 0..MaxGeneration
      BY ConstantRows, DispatchConstants DEF IdleTask, Task, TypeOK, SourceState
    <2>2. [IdleTask EXCEPT !.pc = "started", !.exec = e, !.seen = source.gen]
          \in Task
      BY <2>1 DEF Task
    <2>3. CASE source.tomb
      BY <2>3 DEF TaskStart, TypeOK, TaskNamed
    <2>4. CASE ~source.tomb
      <3> DEFINE t == [IdleTask EXCEPT !.pc = "started", !.exec = e,
                                       !.seen = source.gen]
      <3>1. wk' = [wk EXCEPT ![w] = t]
        BY <2>4 DEF TaskStart
      <3>2. t \in Task /\ t.pc = "started" /\ t.exec = e /\ t.read = "none"
        BY <2>2 DEF IdleTask
      <3> HIDE DEF t
      <3>3. QED
        BY <3>1, <3>2 DEF TypeOK, TaskNamed
    <2>5. QED
      BY <2>3, <2>4
  <1>3. QED
    BY <1>1, <1>2 DEF TaskStart, TypeOK, RequestNamed, SweepNamed, GateNamed

\* sweep_source_dispatches preserves the types.
LEMMA TypeSweep ==
    ASSUME TypeInv, NEW s \in Sweeper, SweepStep(s) \/ SweepCrash(s)
    PROVE  TypeInv'
  <1> USE DEF TypeInv
  <1>0. sw[s] \in Sweep /\ IdleSweep \in Sweep
    BY DEF TypeOK, Sweep, IdleSweep
  <1>1. CASE SweepClaim(s)
    <2> DEFINE clean == [e \in Exec |-> Reconciled(e)]
               due == {e \in Exec : IsCurrent(e) /\ Due(clean[e])}
    <2>1. ASSUME NEW e \in Exec PROVE clean[e] \in Row
      <3>1. row[e] \in Row
        BY DEF TypeOK
      <3>2. /\ StaleRow(row[e]) \in Row
            /\ ClosedRow(row[e], "failed", "orphaned") \in Row
        BY <3>1, DerivedRows, ClosedRowType DEF Terminal, Reasons
      <3>3. QED
        BY <3>1, <3>2 DEF Reconciled
    <2>2. /\ row' = [e \in Exec |-> IF e \in due THEN Leased(clean[e])
                                    ELSE clean[e]]
          /\ sw' = [t \in Sweeper |->
                IF t = s
                THEN [pc |-> IF due = {} THEN "idle" ELSE "enqueue",
                      todo |-> due, own |-> due, cur |-> NoExec]
                ELSE [sw[t] EXCEPT !.own = @ \ due]]
          /\ UNCHANGED <<source, job, wk, api, faults>>
      BY <1>1 DEF SweepClaim
    <2>3. due \in SUBSET Exec
      OBVIOUS
    <2> HIDE DEF clean, due
    <2>4. row' \in [Exec -> Row]
      BY <2>1, <2>2, DerivedRows
    <2>5. sw' \in [Sweeper -> Sweep] /\ SweepNamed'
      BY <2>2, <2>3 DEF TypeOK, Sweep, SweepNamed
    <2>6. QED
      BY <2>2, <2>4, <2>5 DEF TypeOK, TaskNamed, RequestNamed, GateNamed
  <1>2. CASE SweepEnqueue(s)
    <2>1. PICK e \in sw[s].todo, ok \in BOOLEAN :
            /\ EnqueueJob(e, ok)
            /\ sw' = [sw EXCEPT ![s].pc = IF ok THEN "ack" ELSE "nack",
                                ![s].todo = @ \ {e}, ![s].cur = e]
      BY <1>2 DEF SweepEnqueue
    <2>2. e \in Exec
      BY <1>0 DEF Sweep
    <2>3. /\ job' \in [Exec -> {"none", "queued", "running", "done"}]
          /\ faults' \in 0..MaxFaults
      BY <2>1, <2>2, EnqueueType
    <2>4. sw' \in [Sweeper -> Sweep] /\ SweepNamed'
      BY <1>0, <2>1, <2>2 DEF TypeOK, Sweep, SweepNamed
    <2>5. QED
      BY <1>2, <2>3, <2>4
      DEF SweepEnqueue, TypeOK, TaskNamed, RequestNamed, GateNamed
  <1>3. CASE SweepAck(s) \/ SweepNack(s)
    <2> DEFINE e == sw[s].cur
    <2>1. e \in Exec
      BY <1>3 DEF SweepAck, SweepNack, SweepNamed
    <2>2. row[e] \in Row
      BY <2>1 DEF TypeOK
    <2>3. /\ StaleRow(row[e]) \in Row
          /\ EnqueuedRow(row[e]) \in Row
          /\ RetryRow(row[e]) \in Row
          /\ ClosedRow(row[e], "failed", "exhausted") \in Row
      BY <2>2, DerivedRows, ClosedRowType DEF Terminal, Reasons
    <2>4. row' \in [Exec -> Row]
      BY <1>3, <2>1, <2>3 DEF SweepAck, SweepNack, TypeOK
    <2>5. sw' = NextLease(s) /\ UNCHANGED <<source, job, wk, api, faults>>
      BY <1>3 DEF SweepAck, SweepNack
    <2>6. sw' \in [Sweeper -> Sweep] /\ SweepNamed'
      BY <1>0, <2>5 DEF NextLease, TypeOK, Sweep, SweepNamed
    <2>7. QED
      BY <2>4, <2>5, <2>6 DEF TypeOK, TaskNamed, RequestNamed, GateNamed
  <1>4. CASE SweepCrash(s)
    <2>1. faults' \in 0..MaxFaults
      BY <1>4, FaultType DEF SweepCrash, TypeOK
    <2>2. QED
      BY <1>0, <1>4, <2>1
      DEF SweepCrash, IdleSweep, TypeOK, TaskNamed, RequestNamed, SweepNamed,
          GateNamed
  <1>5. QED
    BY <1>1, <1>2, <1>3, <1>4 DEF SweepStep

\* A deletion request closes the open rows and leaves the others.
LEMMA DeleteEffect ==
    ASSUME TypeInv, ApiDelete
    PROVE  /\ row' \in [Exec -> Row]
           /\ \A e \in Exec :
                /\ row[e].status \in NonTerminal =>
                      row'[e] = StaleRow(row[e]) /\ row'[e].status = "stale"
                /\ row[e].status \notin NonTerminal => row'[e] = row[e]
           /\ source'.tomb /\ source'.gen = source.gen
           /\ source'.status = source.status
           /\ UNCHANGED <<job, wk, sw, api, faults>>
  <1>1. \A e \in Exec : row[e] \in Row /\ StaleRow(row[e]) \in Row
    BY DerivedRows DEF TypeInv, TypeOK
  <1>2. \A e \in Exec : StaleRow(row[e]).status = "stale"
    BY <1>1 DEF StaleRow, Row
  <1>3. row' = [e \in Exec |-> IF row[e].status \in NonTerminal
                              THEN StaleRow(row[e]) ELSE row[e]]
    BY DEF ApiDelete
  <1>4. /\ source'.tomb /\ source'.gen = source.gen /\ source'.status = source.status
        /\ UNCHANGED <<job, wk, sw, api, faults>>
    BY DEF ApiDelete, TypeInv, TypeOK, SourceState
  <1>5. QED
    BY <1>1, <1>2, <1>3, <1>4

\* Time, the stuck-source sweep and a deletion preserve the types.
LEMMA TypeRest ==
    ASSUME TypeInv,
           \/ ApiDelete \/ StuckSweep
           \/ \E e \in Exec : \/ LeaseExpires(e) \/ RenewalStops(e)
                              \/ BackoffEnds(e) \/ ResultExpires(e)
    PROVE  TypeInv'
  <1> USE DEF TypeInv
  <1>1. CASE ApiDelete \/ StuckSweep
    <2>1. row' \in [Exec -> Row]
      BY <1>1, DeleteEffect DEF StuckSweep, TypeOK
    <2>2. source' \in SourceState /\ GateNamed'
      BY <1>1 DEF ApiDelete, StuckSweep, TypeOK, SourceState, GateNamed
    <2>3. UNCHANGED <<job, wk, sw, api, faults>>
      BY <1>1 DEF ApiDelete, StuckSweep
    <2>4. QED
      BY <2>1, <2>2, <2>3 DEF TypeOK, TaskNamed, RequestNamed, SweepNamed
  <1>2. ASSUME NEW e \in Exec,
               \/ LeaseExpires(e) \/ RenewalStops(e)
               \/ BackoffEnds(e) \/ ResultExpires(e)
        PROVE  TypeInv'
    <2>1. row' \in [Exec -> Row]
      <3>1. row[e] \in Row
        BY DEF TypeOK
      <3>2. /\ [row[e] EXCEPT !.lease = "expired"] \in Row
            /\ [row[e] EXCEPT !.wait = FALSE] \in Row
        BY <3>1 DEF Row
      <3>3. QED
        BY <1>2, <3>2 DEF LeaseExpires, RenewalStops, BackoffEnds,
                          ResultExpires, TypeOK
    <2>2. job' \in [Exec -> {"none", "queued", "running", "done"}]
      BY <1>2 DEF LeaseExpires, RenewalStops, BackoffEnds, ResultExpires,
                  TypeOK
    <2>3. faults' \in 0..MaxFaults
      BY <1>2, FaultType DEF LeaseExpires, RenewalStops, BackoffEnds,
                             ResultExpires, TypeOK
    <2>4. UNCHANGED <<source, wk, sw, api>>
      BY <1>2 DEF LeaseExpires, RenewalStops, BackoffEnds, ResultExpires
    <2>5. QED
      BY <2>1, <2>2, <2>3, <2>4 DEF TypeOK, TaskNamed, RequestNamed,
                                    SweepNamed, GateNamed
  <1>3. QED
    BY <1>1, <1>2

LEMMA TypeInit == Init => TypeInv
  <1> SUFFICES ASSUME Init PROVE TypeInv
    OBVIOUS
  <1>1. /\ IdleTask \in Task /\ IdleSweep \in Sweep /\ IdleRequest \in Request
        /\ 0 \in 0..MaxGeneration /\ 0 \in 0..MaxFaults
    BY ConstantRows, DispatchConstants
    DEF IdleTask, Task, IdleSweep, Sweep, IdleRequest, Request
  <1>2. source \in SourceState
    BY <1>1 DEF Init, SourceState
  <1>3. QED
    BY <1>1, <1>2, ConstantRows
    DEF Init, TypeInv, TypeOK, TaskNamed, RequestNamed, SweepNamed, GateNamed,
        IdleTask, IdleSweep, IdleRequest

LEMMA TypeStep == TypeInv /\ [Next]_vars => TypeInv'
  <1> SUFFICES ASSUME TypeInv, [Next]_vars PROVE TypeInv'
    OBVIOUS
  <1>1. CASE UNCHANGED vars
    BY <1>1 DEF vars, TypeInv, TypeOK, TaskNamed, RequestNamed, SweepNamed,
                GateNamed
  <1>2. CASE Next
    BY <1>2, TypeApi, TypeTaskStart, TypeTask, TypeSweep, TypeRest DEF Next
  <1>3. QED
    BY <1>1, <1>2

\* Every state of the outbox, the queue, the tasks, the sweeps and the
\* requests has the type its code gives it, whatever the numbers of them and
\* whichever faults happen.
THEOREM TypeCorrect == Spec => []TypeOK
  <1>1. TypeInv => TypeOK
    BY DEF TypeInv
  <1>2. QED
    BY <1>1, TypeInit, TypeStep, PTL DEF Spec

-----------------------------------------------------------------------------
(* The outbox keeps its promises where Tolerated holds *)

\* The types the steps below need, without their definitions.
LEMMA Typed ==
    ASSUME TypeInv
    PROVE  /\ row \in [Exec -> Row] /\ job \in [Exec -> {"none", "queued", "running", "done"}]
           /\ wk \in [Worker -> Task] /\ sw \in [Sweeper -> Sweep]
           /\ api \in [Api -> Request]
           /\ source.gen \in Nat /\ source.tomb \in BOOLEAN
           /\ \A e \in Exec : e[1] \in Nat /\ e[1] >= 1
           /\ \A w \in Worker : wk[w].seen \in Nat
  BY ExecParts, DispatchConstants DEF TypeInv, TypeOK, SourceState, Task

\* A task whose execution the source has moved past stays that way.
LEMMA FencedKept ==
    ASSUME OutboxInv, source'.gen \in Nat, source'.gen >= source.gen,
           source.tomb => source'.tomb,
           \A w \in Worker : wk'[w].pc = "superseded" =>
               wk[w].pc = "superseded" /\ wk'[w].exec = wk[w].exec
    PROVE  FencedArePast'
  BY Typed DEF OutboxInv, FencedArePast, Superseded, TypeInv, TaskNamed

\* Loading the source and recording the dispatch, in one request.
LEMMA OutboxApiOpen ==
    ASSUME Tolerated, OutboxInv, NEW p \in Api, ApiLoad(p) \/ ApiRecord(p)
    PROVE  OutboxInv'
  <1>1. TypeInv'
    BY TypeApi DEF ApiStep, OutboxInv
  <1>2. UNCHANGED <<source, row, job, wk, sw, faults>>
    BY DEF ApiLoad, ApiRecord
  <1>3. \A q \in Api : q = p
    BY DEF Tolerated
  <1>4. api[p].pc # "acked"
    BY DEF ApiLoad, ApiRecord
  <1>5. RequestsAreNew' /\ api'[p].pc # "acked"
    <2>1. CASE ApiLoad(p)
      <3>1. source.status # "awaiting_approval"
        BY DEF OutboxInv, NoGates
      <3>2. PICK s \in Stage : api' = [api EXCEPT ![p] =
                   [IdleRequest EXCEPT
                      !.pc = "loaded", !.exec = <<source.gen + 1, s>>,
                      !.bump = TRUE,
                      !.status = IF source.status = "ready"
                                 THEN "processing" ELSE "pending"]]
        BY <2>1, <3>1 DEF ApiLoad
      <3>3. /\ api'[p].pc = "loaded" /\ api'[p].bump
            /\ api'[p].exec = <<source.gen + 1, s>>
        BY <3>2, Typed DEF IdleRequest, OutboxInv
      <3>4. QED
        BY <1>2, <1>3, <3>3 DEF RequestsAreNew
    <2>2. CASE ApiRecord(p)
      <3>1. /\ api[p].exec \in Exec /\ api[p].bump
            /\ api[p].exec[1] = source.gen + 1
        BY <2>2 DEF ApiRecord, OutboxInv, RequestsAreNew, TypeInv, RequestNamed
      <3>2. row[api[p].exec].status = "absent"
        BY <3>1, Typed DEF OutboxInv, RowsOfCycles, Exists
      <3>3. /\ api'[p].pc = "recorded" /\ api'[p].bump = api[p].bump
            /\ api'[p].exec = api[p].exec /\ api'[p].snap = row[api[p].exec]
        BY <2>2, Typed DEF ApiRecord, Request, OutboxInv
      <3>4. QED
        BY <1>2, <1>3, <3>1, <3>2, <3>3 DEF RequestsAreNew
    <2>3. QED
      BY <2>1, <2>2
  <1>6. JobsHaveRows'
    BY <1>2, <1>3, <1>4 DEF OutboxInv, JobsHaveRows, CommitPending, Exists
  <1>fp. FencedArePast'
    BY <1>2, FencedKept, Typed DEF OutboxInv
  <1>7. QED
    BY <1>1, <1>2, <1>5, <1>6, <1>fp
    DEF OutboxInv, RowsOfCycles, LeasesHaveRows, TasksHaveRows, TasksPastClaim,
        HandoffsAreFresh, SingleTip, NoGates, OwnersKeep, LiveOwnerKeepsRow,
        StaleIsPast, StaleMeansSuperseded, Exists, Finished, Superseded, IsCurrent

\* enqueue_job queues a job that was not there, or changes nothing.
LEMMA EnqueueEffect ==
    ASSUME TypeInv, NEW e \in Exec, NEW ok \in BOOLEAN, EnqueueJob(e, ok)
    PROVE  /\ \/ job'[e] = job[e]
              \/ job[e] = "none" /\ job'[e] = "queued"
           /\ \A f \in Exec : f # e => job'[f] = job[f]
  <1>1. \/ job' = job
        \/ job[e] = "none" /\ job' = [job EXCEPT ![e] = "queued"]
    <2>1. \/ Accepted(job, e) = job
          \/ job[e] = "none" /\ Accepted(job, e) = [job EXCEPT ![e] = "queued"]
      BY DEF Accepted
    <2>2. job' = job \/ job' = Accepted(job, e)
      <3>1. CASE ok
        BY <3>1 DEF EnqueueJob, Enqueue
      <3>2. CASE ~ok
        BY <3>2 DEF EnqueueJob, EnqueueRaises
      <3>3. QED
        BY <3>1, <3>2
    <2>3. QED
      BY <2>1, <2>2
  <1>2. CASE job' = job
    BY <1>2
  <1>3. CASE job[e] = "none" /\ job' = [job EXCEPT ![e] = "queued"]
    BY <1>3 DEF TypeInv, TypeOK
  <1>4. QED
    BY <1>1, <1>2, <1>3

\* enqueue_job inside the request's transaction.
LEMMA OutboxApiEnqueue ==
    ASSUME Tolerated, OutboxInv, NEW p \in Api, ApiEnqueue(p)
    PROVE  OutboxInv'
  <1>1. TypeInv'
    BY TypeApi DEF ApiStep, OutboxInv
  <1>2. UNCHANGED <<source, row, wk, sw>>
    BY DEF ApiEnqueue
  <1>3. \A q \in Api : q = p
    BY DEF Tolerated
  <1> DEFINE e == api[p].exec
  <1>4. /\ e \in Exec /\ api[p].bump /\ e[1] = source.gen + 1
        /\ api[p].snap.status = "absent" /\ api[p].pc = "recorded"
    BY DEF ApiEnqueue, OutboxInv, RequestsAreNew, TypeInv, RequestNamed
  <1>5. PICK ok \in BOOLEAN : /\ EnqueueJob(e, ok)
                              /\ api' = [api EXCEPT ![p].pc = "acked", ![p].ok = ok]
    BY <1>4 DEF ApiEnqueue, Terminal
  <1>6. /\ api'[p].pc = "acked" /\ api'[p].bump = api[p].bump
        /\ api'[p].exec = e /\ api'[p].snap = api[p].snap
    BY <1>5, Typed DEF Request, OutboxInv
  <1>8. row[e].status = "absent"
    BY <1>4, Typed DEF OutboxInv, RowsOfCycles, Exists
  <1> HIDE DEF e
  <1>9. \A f \in Exec : f # e => job'[f] = job[f]
    BY <1>4, <1>5, EnqueueEffect DEF OutboxInv, e
  <1>10. RequestsAreNew'
    BY <1>2, <1>3, <1>4, <1>6 DEF RequestsAreNew
  <1>11. JobsHaveRows'
    BY <1>2, <1>3, <1>4, <1>6, <1>9
    DEF OutboxInv, JobsHaveRows, CommitPending, Exists
  <1>12. TasksHaveRows'
    BY <1>2, <1>8, <1>9 DEF OutboxInv, TasksHaveRows, Exists, TypeInv, TaskNamed
  <1>13. SingleTip'
    BY <1>2, <1>8, <1>9 DEF OutboxInv, SingleTip, Exists, Finished
  <1>fp. FencedArePast'
    BY <1>2, FencedKept, Typed DEF OutboxInv
  <1>14. QED
    BY <1>1, <1>2, <1>fp, <1>10, <1>11, <1>12, <1>13
    DEF OutboxInv, RowsOfCycles, LeasesHaveRows, TasksPastClaim,
        HandoffsAreFresh, NoGates, OwnersKeep, LiveOwnerKeepsRow,
        StaleIsPast, StaleMeansSuperseded, Exists, Superseded, IsCurrent

\* A row of OutboxRow is open or failed, never absent or stale.
LEMMA OutboxRowStatus ==
    ASSUME NEW r \in Row, NEW ok \in BOOLEAN
    PROVE  OutboxRow(r, ok).status \in {"pending", "enqueued", "failed"}
  <1>1. EnqueuedRow(r).status = "enqueued"
    BY DEF EnqueuedRow, Row
  <1>2. \A q \in Row : RetryRow(q).status = "pending"
    BY DEF RetryRow, Row
  <1>3. \A q \in Row, b \in BOOLEAN :
          [ClosedRow(q, "failed", "exhausted") EXCEPT !.wait = b].status = "failed"
    BY DEF ClosedRow, Row
  <1>4. [r EXCEPT !.attempt = Bumped(@)] \in Row /\ r.wait \in BOOLEAN
    BY BumpedType DEF Row
  <1>5. QED
    BY <1>1, <1>2, <1>3, <1>4 DEF OutboxRow

\* What an outbox transaction commits over a row that was absent, or closed,
\* when its session read it.
LEMMA CommittedRow ==
    ASSUME NEW e, row[e] \in Row, NEW snap \in Row, NEW ok \in BOOLEAN
    PROVE  /\ snap.status = "absent" =>
                 Committed(e, snap, ok).status \in {"pending", "enqueued", "failed"}
           /\ snap.status \in Terminal => Committed(e, snap, ok) = row[e]
  <1>1. OutboxRow(Recorded(snap), ok).status \in {"pending", "enqueued", "failed"}
    BY OutboxRowStatus, DerivedRows
  <1>2. QED
    BY <1>1 DEF Committed, Flushed, Terminal

\* The request commits its row and the new generation.
LEMMA OutboxApiCommit ==
    ASSUME Tolerated, OutboxInv, NEW p \in Api, ApiCommit(p)
    PROVE  OutboxInv'
  <1>1. TypeInv'
    BY TypeApi DEF ApiStep, OutboxInv
  <1>2. UNCHANGED <<job, wk, sw, faults>>
    BY DEF ApiCommit
  <1>3. \A q \in Api : q = p
    BY DEF Tolerated
  <1> DEFINE e == api[p].exec
  <1>4. /\ e \in Exec /\ api[p].bump /\ e[1] = source.gen + 1
        /\ api[p].snap.status = "absent" /\ api[p].snap \in Row /\ api[p].ok \in BOOLEAN
    BY Typed DEF ApiCommit, OutboxInv, RequestsAreNew, TypeInv, RequestNamed, Request
  <1>5. /\ source'.gen = source.gen + 1 /\ source'.tomb = source.tomb
        /\ source'.status # "awaiting_approval"
    BY <1>4, Typed DEF ApiCommit, OutboxInv, TypeInv, TypeOK, SourceState, Request
  <1>6. row[e].status = "absent" /\ row[e] \in Row
    BY <1>4, Typed DEF OutboxInv, RowsOfCycles, Exists
  <1>7. /\ row'[e].status \in {"pending", "enqueued", "failed"}
        /\ \A f \in Exec : f # e => row'[f] = row[f]
    BY <1>4, <1>6, CommittedRow, Typed DEF ApiCommit, OutboxInv
  <1>8. api'[p].pc = "idle"
    BY Typed DEF ApiCommit, IdleRequest, OutboxInv
  <1> HIDE DEF e
  <1>9. \A f \in Exec : Exists(f) => f # e /\ f[1] <= source.gen /\ row'[f] = row[f]
    BY <1>6, <1>7 DEF OutboxInv, RowsOfCycles, Exists
  <1>10. RowsOfCycles' /\ SingleTip'
    BY <1>2, <1>4, <1>5, <1>6, <1>7, <1>9, Typed
    DEF OutboxInv, RowsOfCycles, SingleTip, Exists, Finished
  <1>11. JobsHaveRows'
    BY <1>2, <1>3, <1>7, <1>8
    DEF OutboxInv, JobsHaveRows, CommitPending, Exists, e
  <1>12. LeasesHaveRows' /\ RequestsAreNew' /\ NoGates'
    BY <1>2, <1>3, <1>5, <1>7, <1>8, <1>9, Typed
    DEF OutboxInv, LeasesHaveRows, RequestsAreNew, NoGates, Exists, TypeInv,
        SweepNamed, Sweep
  <1>13. TasksHaveRows'
    BY <1>2, <1>5, <1>9, Typed
    DEF OutboxInv, TasksHaveRows, Exists, TypeInv, TaskNamed
  <1>14. TasksPastClaim' /\ OwnersKeep'
    BY <1>2, <1>5, <1>9, Typed
    DEF OutboxInv, TasksHaveRows, TasksPastClaim, OwnersKeep, LiveOwnerKeepsRow, TypeInv,
        TaskNamed, Superseded, IsCurrent
  <1>15. HandoffsAreFresh'
    <2>1. \A w \in Worker : wk[w].pc = "handed" => wk[w].next \in Exec /\ wk[w].next # e
      BY <1>4, Typed
      DEF OutboxInv, TypeInv, TaskNamed, HandoffsAreFresh, TasksHaveRows
    <2>2. QED
      BY <1>2, <1>7, <2>1 DEF OutboxInv, HandoffsAreFresh
  <1>16. StaleIsPast'
    BY <1>5, <1>7, Typed DEF OutboxInv, StaleIsPast, StaleMeansSuperseded, Superseded
  <1>fp. FencedArePast'
    BY <1>2, <1>5, FencedKept, Typed DEF OutboxInv
  <1>17. QED
    BY <1>1, <1>fp, <1>10, <1>11, <1>12, <1>13, <1>14, <1>15, <1>16 DEF OutboxInv

\* The stuck-source sweep changes the source only; a deletion also closes
\* rows, which makes them final and takes nothing from a current cycle.
LEMMA OutboxSource ==
    ASSUME OutboxInv, ApiDelete \/ StuckSweep
    PROVE  OutboxInv'
  <1>1. TypeInv'
    BY TypeRest DEF OutboxInv
  <1>2. /\ UNCHANGED <<job, wk, sw, api, faults>>
        /\ source'.gen = source.gen /\ (source.tomb => source'.tomb)
        /\ source'.status \in {source.status, "error"}
    BY DEF ApiDelete, StuckSweep, OutboxInv, TypeInv, TypeOK, SourceState
  <1>3. FencedArePast'
    BY <1>2, FencedKept, Typed DEF OutboxInv
  <1>4. CASE StuckSweep
    <2>1. row' = row /\ source'.tomb = source.tomb
      BY <1>4 DEF StuckSweep, OutboxInv, TypeInv, TypeOK, SourceState
    <2>2. QED
      BY <1>1, <1>2, <1>3, <2>1
      DEF OutboxInv, RowsOfCycles, JobsHaveRows, LeasesHaveRows, RequestsAreNew,
          TasksHaveRows, TasksPastClaim, HandoffsAreFresh, SingleTip, NoGates,
          OwnersKeep, LiveOwnerKeepsRow, StaleIsPast, StaleMeansSuperseded, Exists,
          Finished, CommitPending, Superseded, IsCurrent
  <1>5. CASE ApiDelete
    <2>1. /\ source'.tomb
          /\ \A e \in Exec :
                /\ row[e].status \in NonTerminal => row'[e].status = "stale"
                /\ row[e].status \notin NonTerminal => row'[e] = row[e]
      BY <1>5, DeleteEffect DEF OutboxInv
    <2>2. \A e \in Exec : /\ Exists(e) <=> Exists(e)'
                          /\ Finished(e) => Finished(e)'
                          /\ row[e].status \in Terminal => row'[e] = row[e]
      BY <1>2, <2>1 DEF Exists, Finished, Terminal, NonTerminal
    <2>3. RowsOfCycles' /\ LeasesHaveRows' /\ SingleTip' /\ JobsHaveRows'
      BY <1>2, <2>2, Typed
      DEF OutboxInv, RowsOfCycles, LeasesHaveRows, SingleTip, JobsHaveRows,
          CommitPending, Sweep, TypeInv, SweepNamed
    <2>4. RequestsAreNew' /\ NoGates'
      BY <1>2 DEF OutboxInv, RequestsAreNew, NoGates
    <2>5. TasksHaveRows'
      BY <1>2, <2>2 DEF OutboxInv, TasksHaveRows, TypeInv, TaskNamed
    <2>6. TasksPastClaim'
      BY <1>2, <2>1, <2>2 DEF OutboxInv, TasksPastClaim, TypeInv, TaskNamed, Terminal
    <2>7. HandoffsAreFresh'
      BY <1>2, <2>1 DEF OutboxInv, HandoffsAreFresh, TypeInv, TaskNamed, Terminal,
                        NonTerminal
    <2>8. OwnersKeep' /\ StaleIsPast'
      BY <2>1 DEF OwnersKeep, LiveOwnerKeepsRow, IsCurrent, StaleIsPast,
                  StaleMeansSuperseded, Superseded
    <2>9. QED
      BY <1>1, <1>3, <2>3, <2>4, <2>5, <2>6, <2>7, <2>8 DEF OutboxInv
  <1>6. QED
    BY <1>4, <1>5

\* A worker picks up a job whose row is committed.
LEMMA OutboxTaskStart ==
    ASSUME Tolerated, OutboxInv, NEW w \in Worker, NEW e \in Exec, TaskStart(w, e)
    PROVE  OutboxInv'
  <1>1. TypeInv'
    BY TypeTaskStart DEF OutboxInv
  <1>2. UNCHANGED <<source, row, sw, api, faults>>
    BY DEF TaskStart
  <1>3. wk[w].pc = "idle" /\ job[e] = "queued" /\ ~CommitPending(e)
    BY DEF TaskStart, Tolerated
  <1>4. Exists(e)
    BY <1>3 DEF OutboxInv, JobsHaveRows
  <1>5. \A f \in Exec : f # e => job'[f] = job[f]
    BY Typed DEF TaskStart, OutboxInv
  <1>6. \A v \in Worker : wk[v].pc # "idle" => v # w /\ wk[v].exec # e
    BY <1>3 DEF OutboxInv, TasksHaveRows
  <1>7. CASE source.tomb
    <2>1. wk' = wk
      BY <1>7 DEF TaskStart
    <2>2. job'[e] = "done"
      BY <1>7, Typed DEF TaskStart, OutboxInv
    <2>3. JobsHaveRows' /\ TasksHaveRows' /\ SingleTip'
      BY <1>2, <1>4, <1>5, <1>6, <2>1, <2>2
      DEF OutboxInv, JobsHaveRows, TasksHaveRows, SingleTip, Exists, Finished,
          CommitPending, TypeInv, TaskNamed
    <2>fp. FencedArePast'
      BY <1>2, <2>1, FencedKept, Typed DEF OutboxInv
    <2>4. QED
      BY <1>1, <1>2, <2>fp, <2>1, <2>3
      DEF OutboxInv, RowsOfCycles, LeasesHaveRows, RequestsAreNew,
          TasksPastClaim, HandoffsAreFresh, NoGates, OwnersKeep, LiveOwnerKeepsRow,
          StaleIsPast, StaleMeansSuperseded, Exists, Superseded, IsCurrent
  <1>8. CASE ~source.tomb
    <2>1. job'[e] = "running"
      BY <1>8, Typed DEF TaskStart, OutboxInv
    <2>2. /\ wk'[w].pc = "started" /\ wk'[w].exec = e
          /\ wk'[w].seen = source.gen /\ wk'[w].claim = FALSE
          /\ wk'[w].read = "none"
          /\ \A v \in Worker : v # w => wk'[v] = wk[v]
      BY <1>8, Typed DEF TaskStart, IdleTask, OutboxInv
    <2>3. JobsHaveRows'
      BY <1>2, <1>3, <1>4, <1>5, <2>2
      DEF OutboxInv, JobsHaveRows, Exists, CommitPending
    <2>4. TasksHaveRows'
      BY <1>2, <1>4, <1>5, <1>6, <2>1, <2>2, Typed
      DEF OutboxInv, TasksHaveRows, RowsOfCycles, Exists, TypeInv, TaskNamed
    <2>5. SingleTip'
      BY <1>2, <1>3, <1>5, <2>1 DEF OutboxInv, SingleTip, Exists, Finished
    <2>6. TasksPastClaim' /\ HandoffsAreFresh' /\ OwnersKeep'
      BY <1>2, <2>2
      DEF OutboxInv, TasksPastClaim, HandoffsAreFresh, OwnersKeep, LiveOwnerKeepsRow,
          Superseded, IsCurrent
    <2>fp. FencedArePast'
      BY <1>2, <2>2, FencedKept, Typed DEF OutboxInv
    <2>7. QED
      BY <1>1, <1>2, <2>fp, <2>3, <2>4, <2>5, <2>6
      DEF OutboxInv, RowsOfCycles, LeasesHaveRows, RequestsAreNew, NoGates,
          StaleIsPast, StaleMeansSuperseded, Exists, Superseded
  <1>9. QED
    BY <1>7, <1>8

\* claim_source_dispatch takes the row of the task's own execution.
LEMMA OutboxTaskClaim ==
    ASSUME Tolerated, OutboxInv, NEW w \in Worker, TaskClaim(w)
    PROVE  OutboxInv'
  <1> DEFINE e == wk[w].exec
             g == wk[w].seen
  <1>1. TypeInv'
    BY TypeTask DEF TaskStep, OutboxInv
  <1>2. UNCHANGED <<source, sw, api>>
    BY DEF TaskClaim
  <1>3. /\ wk[w].pc = "started" /\ e \in Exec /\ job[e] = "running" /\ Exists(e)
        /\ e[1] <= g /\ g <= source.gen
        /\ \A v \in Worker : wk[v].pc # "idle" /\ wk[v].exec = e => v = w
    BY DEF TaskClaim, OutboxInv, TasksHaveRows, TypeInv, TaskNamed
  <1>4. wk[w].claim = FALSE /\ wk[w].read = "none"
    BY <1>3, Typed DEF OutboxInv, TasksPastClaim, Task, TypeInv, TaskNamed
  <1>5. ClaimsAs[e[2]] = e[2] /\ e = <<e[1], e[2]>> /\ g \in Nat
        /\ e[1] \in 1..MaxGeneration
    BY <1>3, ExecParts, Typed DEF Tolerated, OutboxInv
  <1>6. CASE EndTask(w) /\ UNCHANGED row
    <2>1. /\ job'[e] = "done"
          /\ \A f \in Exec : f # e => job'[f] = job[f]
      BY <1>3, <1>6, Typed DEF EndTask, CanFail, Tolerated, OutboxInv
    <2>2. /\ wk'[w].pc = "idle" /\ wk'[w].claim = FALSE
          /\ \A v \in Worker : v # w => wk'[v] = wk[v]
      BY <1>6, Typed DEF EndTask, IdleTask, OutboxInv
    <2>3. JobsHaveRows'
      BY <1>2, <1>3, <1>6, <2>1, <2>2
      DEF OutboxInv, JobsHaveRows, Exists, CommitPending
    <2>4. TasksHaveRows' /\ SingleTip'
      BY <1>2, <1>3, <1>6, <2>1, <2>2
      DEF OutboxInv, TasksHaveRows, SingleTip, Exists, Finished, TypeInv,
          TaskNamed
    <2>5. TasksPastClaim' /\ HandoffsAreFresh' /\ OwnersKeep'
      BY <1>2, <1>6, <2>2
      DEF OutboxInv, TasksPastClaim, HandoffsAreFresh, OwnersKeep, LiveOwnerKeepsRow,
          Superseded, IsCurrent
    <2>fp. FencedArePast'
      BY <1>2, <2>2, FencedKept, Typed DEF OutboxInv
    <2>6. QED
      BY <1>1, <1>2, <2>fp, <1>6, <2>3, <2>4, <2>5
      DEF OutboxInv, RowsOfCycles, LeasesHaveRows, RequestsAreNew, NoGates,
          StaleIsPast, StaleMeansSuperseded, Exists, Superseded
  <1>7. CASE ~(EndTask(w) /\ UNCHANGED row)
    <2>1. e[1] = g
      <3>1. ~(e[1] < g)
        BY <1>5, <1>7 DEF TaskClaim
      <3>2. QED
        BY <1>3, <1>5, <3>1
    <2>2. UNCHANGED <<job, faults>>
      BY <1>7 DEF TaskClaim
    <2>3. \/ /\ row[e].status \notin NonTerminal
             /\ wk' = [wk EXCEPT ![w].pc = "claimed"] /\ row' = row
          \/ /\ row[e].status \in NonTerminal
             /\ wk' = [wk EXCEPT ![w].pc = "claimed", ![w].claim = TRUE]
             /\ row' = [row EXCEPT ![e] = [@ EXCEPT
                       !.status = "running", !.token = w, !.lease = "live",
                       !.wait = FALSE, !.reason = "none"]]
      BY <1>5, <1>7, <2>1 DEF TaskClaim
    <2>4. /\ wk'[w].pc = "claimed" /\ wk'[w].exec = e /\ wk'[w].seen = g
          /\ wk'[w].read = wk[w].read
          /\ \A v \in Worker : v # w => wk'[v] = wk[v]
      BY <2>3, Typed DEF Task, OutboxInv
    <2>5. \/ /\ wk'[w].claim = FALSE /\ row'[e] = row[e]
             /\ row[e].status \in Terminal
          \/ /\ wk'[w].claim = TRUE /\ row[e].status \in NonTerminal
             /\ row'[e].status = "running" /\ row'[e].token = w
             /\ row'[e].lease = "live"
      BY <1>3, <1>4, <2>3, Typed
      DEF Task, Row, OutboxInv, Exists, Terminal, NonTerminal
    <2>6. \A f \in Exec : f # e => row'[f] = row[f]
      BY <1>3, <2>3, Typed DEF OutboxInv
    <2> HIDE DEF e, g
    <2>7. \A f \in Exec : /\ Exists(f) <=> Exists(f)'
                          /\ Finished(f) => Finished(f)'
      BY <1>3, <2>2, <2>5, <2>6 DEF Exists, Finished, Terminal, NonTerminal
    <2>8. RowsOfCycles' /\ LeasesHaveRows' /\ SingleTip'
      BY <1>2, <2>7, Typed
      DEF OutboxInv, RowsOfCycles, LeasesHaveRows, SingleTip, Sweep, TypeInv,
          SweepNamed
    <2>9. JobsHaveRows'
      BY <1>2, <1>3, <2>2, <2>4, <2>7
      DEF OutboxInv, JobsHaveRows, CommitPending
    <2>10. TasksHaveRows'
      BY <1>2, <1>3, <2>2, <2>4, <2>7 DEF OutboxInv, TasksHaveRows, TypeInv,
         TaskNamed, e, g
    <2>11. TasksPastClaim'
      BY <1>2, <1>3, <1>4, <2>1, <2>4, <2>5, <2>6
      DEF OutboxInv, TasksPastClaim, TypeInv, TaskNamed, NonTerminal
    <2>12. HandoffsAreFresh'
      BY <1>3, <2>4, <2>5, <2>6
      DEF OutboxInv, HandoffsAreFresh, TypeInv, TaskNamed, Terminal,
          NonTerminal, Exists
    <2>13. OwnersKeep'
      BY <1>2, <1>3, <2>4, <2>5, <2>6
      DEF OutboxInv, OwnersKeep, LiveOwnerKeepsRow, TypeInv, TaskNamed, IsCurrent,
          TasksPastClaim
    <2>14. StaleIsPast'
      BY <1>2, <2>5, <2>6 DEF OutboxInv, StaleIsPast, StaleMeansSuperseded, Superseded
    <2>fp. FencedArePast'
      BY <1>2, <2>4, FencedKept, Typed DEF OutboxInv
    <2>15. QED
      BY <1>1, <1>2, <2>fp, <2>8, <2>9, <2>10, <2>11, <2>12, <2>13, <2>14
      DEF OutboxInv, RequestsAreNew, NoGates
  <1>8. QED
    BY <1>6, <1>7

\* A task that loses a fence in the current cycle cannot exist.
LEMMA FenceLostMeansSuperseded ==
    ASSUME Renewing, OutboxInv, NEW w \in Worker, wk[w].pc # "idle", ~FencePasses(w)
    PROVE  Superseded(wk[w].exec)
  <1>1. wk[w].exec \in Exec /\ wk[w].exec[1] <= source.gen
    BY DEF OutboxInv, TypeInv, TaskNamed, TasksHaveRows, RowsOfCycles
  <1>2. ~Superseded(wk[w].exec) => IsCurrent(wk[w].exec)
    BY <1>1, Typed DEF OutboxInv, Superseded, IsCurrent
  <1>3. QED
    BY <1>2 DEF FencePasses, OutboxInv, OwnersKeep, LiveOwnerKeepsRow

\* The steps of a task that move it on and set the source's status.
LEMMA OutboxTaskMoves ==
    ASSUME Tolerated, OutboxInv, NEW w \in Worker,
           \/ TaskProcessing(w) \/ TaskFence(w) \/ TaskFinal(w) \/ TaskError(w)
           \/ TaskSuperseded(w)
    PROVE  OutboxInv'
  <1>1. TypeInv'
    BY TypeTask DEF TaskStep, OutboxInv
  <1>2. UNCHANGED <<row, job, sw, api, faults>>
    BY DEF TaskProcessing, TaskFence, TaskFinal, TaskError, TaskSuperseded
  <1>3. /\ source'.gen = source.gen /\ source'.tomb = source.tomb
        /\ source'.status \in {source.status, "processing", "ready", "error"}
    BY DEF TaskProcessing, TaskFence, TaskFinal, TaskError, TaskSuperseded,
           OutboxInv, TypeInv, TypeOK, SourceState
  <1>4. wk[w].pc \notin {"idle", "started", "handed"}
    BY DEF TaskProcessing, TaskFence, AtFence, TaskFinal, TaskError,
           TaskSuperseded, Tolerated
  <1>5. PICK q \in {"work", "effect", "fenced", "failing", "superseded"},
              d \in {wk[w].read, "none"} :
          wk' = [wk EXCEPT ![w].pc = q, ![w].read = d]
    <2>1. wk[w] \in Task
      BY Typed DEF OutboxInv
    <2>2. \A q : [wk EXCEPT ![w].pc = q] = [wk EXCEPT ![w].pc = q, ![w].read = wk[w].read]
      BY <2>1, Typed DEF Task, OutboxInv
    <2>3. CASE TaskError(w)
      BY <2>3 DEF TaskError
    <2>4. CASE ~TaskError(w)
      BY <2>2, <2>4 DEF TaskProcessing, TaskFence, TaskFinal, TaskSuperseded
    <2>5. QED
      BY <2>3, <2>4
  <1>6. /\ wk'[w].pc = q /\ wk'[w].exec = wk[w].exec
        /\ wk'[w].seen = wk[w].seen /\ wk'[w].claim = wk[w].claim
        /\ wk'[w].read \in {wk[w].read, "none"}
        /\ \A v \in Worker : v # w => wk'[v] = wk[v]
    BY <1>5, Typed DEF Task, OutboxInv
  <1>a. FencedArePast'
    <2>1. CASE TaskSuperseded(w)
      <3>1. Renewing => Superseded(wk[w].exec)
        BY <1>4, <2>1, FenceLostMeansSuperseded DEF TaskSuperseded
      <3>2. QED
        BY <1>3, <1>6, <3>1 DEF OutboxInv, FencedArePast, Superseded
    <2>2. CASE ~TaskSuperseded(w)
      <3>1. q # "superseded"
        BY <1>6, <2>2, Typed
        DEF TaskProcessing, TaskFence, TaskFinal, TaskError, OutboxInv, Task
      <3>2. QED
        BY <1>3, <1>6, <3>1, FencedKept, Typed DEF OutboxInv
    <2>3. QED
      BY <2>1, <2>2
  <1>7. JobsHaveRows'
    BY <1>2, <1>4, <1>6 DEF OutboxInv, JobsHaveRows, CommitPending, Exists
  <1>8. TasksHaveRows'
    BY <1>2, <1>3, <1>4, <1>6 DEF OutboxInv, TasksHaveRows, Exists
  <1>9. TasksPastClaim' /\ HandoffsAreFresh' /\ OwnersKeep'
    BY <1>2, <1>3, <1>4, <1>6
    DEF OutboxInv, TasksPastClaim, HandoffsAreFresh, OwnersKeep, LiveOwnerKeepsRow,
        Superseded, IsCurrent
  <1>10. QED
    BY <1>1, <1>2, <1>3, <1>7, <1>8, <1>9, <1>a
    DEF OutboxInv, RowsOfCycles, LeasesHaveRows, RequestsAreNew, SingleTip,
        NoGates, StaleIsPast, StaleMeansSuperseded, Exists, Finished, Superseded

\* Reading the row before a terminal mark: it is lost only if it is closed.
LEMMA OutboxTaskReads ==
    ASSUME OutboxInv, NEW w \in Worker, TaskReadRow(w)
    PROVE  OutboxInv'
  <1>1. TypeInv'
    BY TypeTask DEF TaskStep, OutboxInv
  <1>2. UNCHANGED <<source, row, job, sw, api, faults>>
    BY DEF TaskReadRow
  <1>3. /\ \A v \in Worker :
              /\ wk'[v].pc = wk[v].pc /\ wk'[v].exec = wk[v].exec
              /\ wk'[v].seen = wk[v].seen /\ wk'[v].claim = wk[v].claim
              /\ wk'[v].next = wk[v].next /\ wk'[v].snap = wk[v].snap
              /\ wk'[v].read = wk[v].read \/ v = w
        /\ wk'[w].read = "lost" => ~Owns(w)
        /\ wk[w].pc \notin {"idle", "started"}
    BY Typed DEF TaskReadRow, Task, OutboxInv
  <1>4. TasksPastClaim'
    BY <1>2, <1>3 DEF OutboxInv, TasksPastClaim, Owns
  <1>5. FencedArePast'
    BY <1>2, <1>3, FencedKept, Typed DEF OutboxInv
  <1>6. QED
    BY <1>1, <1>2, <1>3, <1>4, <1>5
    DEF OutboxInv, RowsOfCycles, JobsHaveRows, LeasesHaveRows, RequestsAreNew,
        TasksHaveRows, HandoffsAreFresh, SingleTip, NoGates, OwnersKeep,
        LiveOwnerKeepsRow, StaleIsPast, StaleMeansSuperseded, Exists, Finished,
        CommitPending, Superseded, IsCurrent

\* What a terminal mark does to the rows.
LEMMA MarkedEffect ==
    ASSUME OutboxInv, NEW w \in Worker, wk[w].pc # "idle", NEW st, NEW re,
           row' = Marked(w, st, re)
    PROVE  /\ \A f \in Exec : f # wk[w].exec => row'[f] = row[f]
           /\ wk[w].read = "owned" => /\ row[wk[w].exec].status # "absent"
                                       /\ row'[wk[w].exec].status = st
           /\ wk[w].read # "owned" => row' = row
  <1>1. wk[w].exec \in Exec /\ row[wk[w].exec] \in Row
    BY Typed DEF OutboxInv, TypeInv, TaskNamed
  <1>2. ClosedRow(row[wk[w].exec], st, re).status = st
    BY <1>1 DEF ClosedRow, Row
  <1>3. QED
    BY <1>1, <1>2, Typed
    DEF Marked, OutboxInv, TypeInv, TaskNamed, TasksHaveRows, Exists

\* The ways a task ends, short of a handoff.
LEMMA OutboxTaskEnds ==
    ASSUME Tolerated, OutboxInv, NEW w \in Worker,
           \/ TaskStale(w) \/ TaskComplete(w) \/ TaskReturn(w)
           \/ TaskFail(w) \/ TaskCrash(w)
    PROVE  OutboxInv'
  <1> DEFINE e == wk[w].exec
  <1>1. TypeInv'
    BY TypeTask DEF TaskStep, OutboxInv
  <1>2. /\ UNCHANGED <<sw, api>>
        /\ source'.gen = source.gen /\ source'.tomb = source.tomb
        /\ source'.status \in {source.status, "error"}
    BY DEF TaskStale, TaskComplete, TaskReturn, TaskFail, TaskCrash,
           OutboxInv, TypeInv, TypeOK, SourceState
  <1>3. wk[w].pc \notin {"idle", "handed"}
    BY DEF TaskStale, TaskComplete, TaskReturn, TaskFail, TaskCrash, Tolerated
  <1>4. /\ e \in Exec /\ Exists(e) /\ job[e] = "running"
        /\ \A v \in Worker : wk[v].pc # "idle" /\ wk[v].exec = e => v = w
    BY <1>3 DEF OutboxInv, TypeInv, TaskNamed, TasksHaveRows
  <1>5. /\ wk' = [wk EXCEPT ![w] = IdleTask]
        /\ \E j \in {"queued", "done"} : job' = [job EXCEPT ![e] = j]
    BY DEF TaskStale, TaskComplete, TaskReturn, TaskFail, TaskCrash, EndTask
  <1>6. /\ wk'[w].pc = "idle" /\ wk'[w].claim = FALSE
        /\ \A v \in Worker : v # w => wk'[v] = wk[v]
    BY <1>5, Typed DEF IdleTask, OutboxInv
  <1>7. /\ job'[e] # "none"
        /\ \A f \in Exec : f # e => job'[f] = job[f]
    BY <1>4, <1>5, Typed DEF OutboxInv
  <1>8. /\ \A f \in Exec : f # e => row'[f] = row[f]
        /\ \/ row'[e] = row[e]
           \/ /\ row[e].status # "absent" /\ row'[e].status \in Terminal
              /\ Renewing /\ row'[e].status = "stale" => Superseded(e)
    <2>1. CASE TaskReturn(w) \/ TaskCrash(w)
      BY <2>1 DEF TaskReturn, TaskCrash
    <2>2. CASE TaskComplete(w) \/ TaskFail(w)
      <3>1. PICK st \in {"completed", "failed"}, re \in Reasons :
              row' = Marked(w, st, re)
        BY <2>2 DEF TaskComplete, TaskFail, Reasons
      <3>2. QED
        BY <1>3, <3>1, MarkedEffect DEF Terminal
    <2>3. CASE TaskStale(w)
      <3>1. row' = Marked(w, "stale", "superseded")
        BY <2>3 DEF TaskStale
      <3>2. Renewing => Superseded(e)
        BY <2>3 DEF TaskStale, OutboxInv, FencedArePast
      <3>3. QED
        BY <1>3, <3>1, <3>2, MarkedEffect DEF Terminal
    <2>4. QED
      BY <2>1, <2>2, <2>3
  <1> HIDE DEF e
  <1>9. \A f \in Exec : /\ Exists(f) <=> Exists(f)'
                        /\ Finished(f) => Finished(f)'
    BY <1>4, <1>7, <1>8 DEF Exists, Finished, Terminal, NonTerminal
  <1>10. RowsOfCycles' /\ LeasesHaveRows' /\ SingleTip'
    BY <1>2, <1>9, Typed
    DEF OutboxInv, RowsOfCycles, LeasesHaveRows, SingleTip, Sweep, TypeInv,
        SweepNamed
  <1>11. JobsHaveRows'
    BY <1>2, <1>3, <1>4, <1>6, <1>7, <1>9
    DEF OutboxInv, JobsHaveRows, CommitPending
  <1>12. TasksHaveRows'
    BY <1>2, <1>4, <1>6, <1>7, <1>9
    DEF OutboxInv, TasksHaveRows, TypeInv, TaskNamed
  <1>13. TasksPastClaim' /\ OwnersKeep'
    <2>1. \A v \in Worker : v # w /\ wk[v].pc # "idle" =>
             wk[v].exec \in Exec /\ row'[wk[v].exec] = row[wk[v].exec]
      BY <1>4, <1>8 DEF OutboxInv, TypeInv, TaskNamed
    <2>2. \A v \in Worker : wk[v].claim => wk[v].pc # "idle"
      BY DEF OutboxInv, TasksPastClaim
    <2>3. QED
      BY <1>2, <1>6, <2>1, <2>2
      DEF OutboxInv, TasksPastClaim, OwnersKeep, LiveOwnerKeepsRow, Superseded, IsCurrent
  <1>14. HandoffsAreFresh'
    <2>1. \A v \in Worker : wk[v].pc = "handed" =>
             /\ wk[v].next \in Exec
             /\ row'[wk[v].next].status = row[wk[v].next].status
      <3>1. SUFFICES ASSUME NEW v \in Worker, wk[v].pc = "handed", wk[v].next = e
                     PROVE  FALSE
        BY <1>8 DEF OutboxInv, TypeInv, TaskNamed
      <3>2. /\ wk[v].exec \in Exec /\ wk[v].exec[1] = e[1] /\ wk[v].exec # e
            /\ Exists(wk[v].exec) /\ job[wk[v].exec] = "running"
        BY <3>1 DEF OutboxInv, TypeInv, TaskNamed, TasksHaveRows, HandoffsAreFresh
      <3>3. QED
        BY <1>4, <3>2 DEF OutboxInv, SingleTip, Finished
    <2>2. QED
      BY <1>6, <2>1 DEF OutboxInv, HandoffsAreFresh
  <1>15. StaleIsPast'
    BY <1>2, <1>8 DEF OutboxInv, StaleIsPast, StaleMeansSuperseded, Superseded
  <1>16. FencedArePast'
    BY <1>2, <1>6, FencedKept, Typed DEF OutboxInv
  <1>17. QED
    BY <1>1, <1>2, <1>10, <1>11, <1>12, <1>13, <1>14, <1>15, <1>16
    DEF OutboxInv, RequestsAreNew, NoGates

\* A handoff finds its continuation absent or closed, and queues its job.
LEMMA OutboxTaskHandoff ==
    ASSUME Tolerated, OutboxInv, NEW w \in Worker, TaskHandoff(w)
    PROVE  OutboxInv'
  <1> DEFINE e == wk[w].exec
             n == <<Cycle(wk[w].seen), Continuation[e[2]]>>
  <1>1. TypeInv'
    BY TypeTask DEF TaskStep, OutboxInv
  <1>2. UNCHANGED <<source, row, sw, api>>
    BY DEF TaskHandoff
  <1>3. /\ wk[w].pc = "fenced" /\ e \in Exec /\ Exists(e) /\ job[e] = "running"
        /\ wk[w].seen = e[1] /\ Continuation[e[2]] # NoStage
        /\ wk[w].read = "none"
        /\ \A v \in Worker : wk[v].pc # "idle" /\ wk[v].exec = e => v = w
    BY Typed DEF TaskHandoff, OutboxInv, TypeInv, TaskNamed, TasksHaveRows,
                 TasksPastClaim, Task
  <1>4. n \in Exec /\ n[1] = e[1] /\ n # e
    <2>1. Cycle(wk[w].seen) = e[1]
      BY <1>3, Typed DEF Cycle, OutboxInv
    <2>2. e[2] \in Stage /\ e[1] \in 1..MaxGeneration /\ e = <<e[1], e[2]>>
      BY <1>3, ExecParts
    <2>3. Continuation[e[2]] \in Stage /\ Continuation[e[2]] # e[2]
      BY <1>3, <2>2, DispatchConstants
    <2>4. QED
      BY <2>1, <2>2, <2>3, ExecParts
  <1>5. \/ row[n].status = "absent"
        \/ row[n].status \in Terminal /\ job[n] = "done"
    BY <1>3, <1>4 DEF OutboxInv, SingleTip, Exists, Finished
  <1>6. PICK ok \in BOOLEAN :
          wk' = [wk EXCEPT ![w].pc = "handed", ![w].next = n,
                           ![w].snap = row[n], ![w].ok = ok]
    BY DEF TaskHandoff
  <1> HIDE DEF n
  <1>7. /\ wk'[w].pc = "handed" /\ wk'[w].exec = e /\ wk'[w].next = n
        /\ wk'[w].snap = row[n] /\ wk'[w].seen = wk[w].seen
        /\ wk'[w].claim = wk[w].claim /\ wk'[w].read = wk[w].read
        /\ \A v \in Worker : v # w => wk'[v] = wk[v]
    BY <1>6, Typed DEF Task, OutboxInv
  <1>8. \A f \in Exec : job'[f] = job[f] \/ (f = n /\ row[n].status = "absent")
    <2>1. CASE row[n].status \in Terminal
      BY <2>1 DEF TaskHandoff, n
    <2>2. CASE row[n].status = "absent"
      <3>1. PICK k \in BOOLEAN : EnqueueJob(n, k)
        BY <2>2 DEF TaskHandoff, n, Terminal
      <3>2. QED
        BY <1>4, <2>2, <3>1, EnqueueEffect DEF OutboxInv
    <2>3. QED
      BY <1>5, <2>1, <2>2
  <1> HIDE DEF e
  <1>9. JobsHaveRows'
    BY <1>2, <1>3, <1>7, <1>8
    DEF OutboxInv, JobsHaveRows, CommitPending, Exists
  <1>10. TasksHaveRows' /\ SingleTip'
    BY <1>2, <1>3, <1>7, <1>8
    DEF OutboxInv, TasksHaveRows, SingleTip, Exists, Finished, TypeInv,
        TaskNamed, e
  <1>11. TasksPastClaim' /\ OwnersKeep'
    BY <1>2, <1>3, <1>7
    DEF OutboxInv, TasksPastClaim, OwnersKeep, LiveOwnerKeepsRow, Superseded, IsCurrent, e
  <1>12. HandoffsAreFresh'
    BY <1>2, <1>4, <1>5, <1>7 DEF OutboxInv, HandoffsAreFresh
  <1>fp. FencedArePast'
    BY <1>2, <1>7, FencedKept, Typed DEF OutboxInv
  <1>13. QED
    BY <1>1, <1>2, <1>fp, <1>9, <1>10, <1>11, <1>12
    DEF OutboxInv, RowsOfCycles, LeasesHaveRows, RequestsAreNew, NoGates,
        StaleIsPast, StaleMeansSuperseded, Exists, Superseded

\* The commit of a handoff: the task's execution is finished and its
\* continuation, if it was absent, is the cycle's only open one.
LEMMA OutboxTaskHandoffCommit ==
    ASSUME Tolerated, OutboxInv, NEW w \in Worker, TaskHandoffCommit(w)
    PROVE  OutboxInv'
  <1> DEFINE e == wk[w].exec
             n == wk[w].next
             snap == wk[w].snap
  <1>1. TypeInv'
    BY TypeTask DEF TaskStep, OutboxInv
  <1>2. UNCHANGED <<sw, api>> /\ wk[w].pc = "handed" /\ EndTask(w)
    BY DEF TaskHandoffCommit
  <1>3. /\ e \in Exec /\ Exists(e) /\ job[e] = "running" /\ e[1] <= source.gen
        /\ wk[w].seen = e[1]
        /\ \A v \in Worker : wk[v].pc # "idle" /\ wk[v].exec = e => v = w
    BY <1>2 DEF OutboxInv, TypeInv, TaskNamed, TasksHaveRows, TasksPastClaim,
                RowsOfCycles
  <1>4. /\ n \in Exec /\ n[1] = e[1] /\ n # e
        /\ snap.status = row[n].status
        /\ snap.status = "absent" \/ snap.status \in Terminal
        /\ snap \in Row /\ wk[w].ok \in BOOLEAN
    BY <1>2, Typed DEF OutboxInv, TypeInv, TaskNamed, HandoffsAreFresh, Task
  <1>5. /\ source'.gen = source.gen /\ source'.tomb = source.tomb
        /\ source'.status = "processing"
    BY <1>3, Typed DEF TaskHandoffCommit, OutboxInv, TypeInv, TypeOK, SourceState
  <1>6. /\ wk'[w].pc = "idle" /\ wk'[w].claim = FALSE
        /\ \A v \in Worker : v # w => wk'[v] = wk[v]
    BY <1>2, Typed DEF EndTask, IdleTask, OutboxInv
  <1>7. job'[e] = "done" /\ \A f \in Exec : f # e => job'[f] = job[f]
    BY <1>2, <1>3, Typed DEF EndTask, CanFail, Tolerated, OutboxInv
  <1>8. /\ row'[e].status \in Terminal
        /\ Renewing /\ row'[e].status = "stale" => Superseded(e)
    <2>1. row'[e] = Marked(w, "completed", "handoff")[e]
      BY <1>3, <1>4, Typed DEF TaskHandoffCommit, Marked, OutboxInv
    <2>2. CASE wk[w].read = "owned"
      <3>1. ClosedRow(row[e], "completed", "handoff").status = "completed"
        BY <1>3, Typed DEF ClosedRow, Row, OutboxInv
      <3>2. QED
        BY <1>3, <2>1, <2>2, <3>1, Typed DEF Marked, Terminal, OutboxInv
    <2>3. CASE wk[w].read # "owned"
      <3>1. row'[e] = row[e]
        BY <2>1, <2>3 DEF Marked
      <3>2. wk[w].read = "lost"
        BY <2>3, Typed DEF TaskHandoffCommit, OutboxInv, Task
      <3>3. row[e].status \in Terminal
        BY <1>2, <3>2 DEF OutboxInv, TasksPastClaim
      <3>4. QED
        BY <1>3, <3>1, <3>3 DEF OutboxInv, StaleIsPast, StaleMeansSuperseded
    <2>4. QED
      BY <2>2, <2>3
  <1>9. /\ snap.status = "absent" =>
             row'[n].status \in {"pending", "enqueued", "failed"}
        /\ snap.status \in Terminal => row'[n] = row[n]
    <2>1. row[n] \in Row
      BY <1>4, Typed DEF OutboxInv
    <2>2. row'[n] = Committed(n, snap, wk[w].ok)
      BY <1>4, Typed DEF TaskHandoffCommit, Marked, OutboxInv
    <2>3. QED
      BY <1>4, <2>1, <2>2, CommittedRow
  <1>10. \A f \in Exec : f # e /\ f # n => row'[f] = row[f]
    BY <1>3, <1>4, Typed DEF TaskHandoffCommit, Marked, OutboxInv
  <1> HIDE DEF e, n, snap
  <1>11. \A f \in Exec : /\ Exists(f) => Exists(f)'
                         /\ Exists(f)' => Exists(f) \/ f = n
                         /\ Finished(f) => Finished(f)'
    BY <1>3, <1>4, <1>7, <1>8, <1>9, <1>10 DEF Exists, Finished, Terminal
  <1>12. row'[n].status # "absent"
    BY <1>4, <1>9 DEF Terminal
  <1>13. \A f \in Exec : f[1] = e[1] /\ f # n /\ Exists(f) => Finished(f)'
    <2>1. SUFFICES ASSUME NEW f \in Exec, f[1] = e[1], f # n, Exists(f), f # e
                   PROVE  Finished(f)'
      BY <1>7, <1>8 DEF Finished
    <2>2. Finished(f)
      BY <1>3, <2>1 DEF OutboxInv, SingleTip, Finished
    <2>3. QED
      BY <1>11, <2>2
  <1>14. RowsOfCycles'
    BY <1>3, <1>4, <1>5, <1>11 DEF OutboxInv, RowsOfCycles
  <1>15. JobsHaveRows'
    <2>1. \A f \in Exec : CommitPending(f) => CommitPending(f)' \/ f = n
      BY <1>2, <1>6 DEF CommitPending, n
    <2>2. QED
      BY <1>3, <1>7, <1>11, <1>12, <2>1 DEF OutboxInv, JobsHaveRows, Exists
  <1>16. LeasesHaveRows' /\ RequestsAreNew' /\ NoGates'
    BY <1>2, <1>5, <1>11, Typed
    DEF OutboxInv, LeasesHaveRows, RequestsAreNew, NoGates, Sweep, TypeInv,
        SweepNamed
  <1>17. TasksHaveRows'
    BY <1>3, <1>5, <1>6, <1>7, <1>11
    DEF OutboxInv, TasksHaveRows, TypeInv, TaskNamed
  <1>18. SingleTip'
    BY <1>4, <1>11, <1>13 DEF OutboxInv, SingleTip
  <1>19. TasksPastClaim' /\ OwnersKeep'
    <2>1. \A v \in Worker : v # w /\ wk[v].pc # "idle" =>
             wk[v].exec \in Exec /\ row'[wk[v].exec] = row[wk[v].exec]
      <3>1. SUFFICES ASSUME NEW v \in Worker, v # w, wk[v].pc # "idle"
                     PROVE  /\ wk[v].exec \in Exec
                            /\ row'[wk[v].exec] = row[wk[v].exec]
        OBVIOUS
      <3>2. wk[v].exec \in Exec /\ Exists(wk[v].exec) /\ wk[v].exec # e
        BY <1>3, <3>1 DEF OutboxInv, TypeInv, TaskNamed, TasksHaveRows
      <3>3. wk[v].exec = n => row'[n] = row[n]
        BY <1>4, <1>9, <3>2 DEF Exists
      <3>4. QED
        BY <1>10, <3>2, <3>3
    <2>2. \A v \in Worker : wk[v].claim => wk[v].pc # "idle"
      BY DEF OutboxInv, TasksPastClaim
    <2>3. QED
      BY <1>5, <1>6, <2>1, <2>2
      DEF OutboxInv, TasksPastClaim, OwnersKeep, LiveOwnerKeepsRow, Superseded, IsCurrent
  <1>20. HandoffsAreFresh'
    <2>1. SUFFICES ASSUME NEW v \in Worker, v # w, wk[v].pc = "handed"
                   PROVE  row'[wk[v].next].status = row[wk[v].next].status
      BY <1>6 DEF OutboxInv, HandoffsAreFresh
    <2>2. /\ wk[v].next \in Exec /\ wk[v].next[1] = wk[v].exec[1]
          /\ wk[v].exec \in Exec /\ Exists(wk[v].exec) /\ wk[v].exec # e
          /\ job[wk[v].exec] = "running"
          /\ row[wk[v].next].status \in Terminal \cup {"absent"}
      BY <1>3, <2>1 DEF OutboxInv, TypeInv, TaskNamed, HandoffsAreFresh,
                        TasksHaveRows
    <2>3. wk[v].exec[1] # e[1]
      BY <1>3, <2>2 DEF OutboxInv, SingleTip, Finished
    <2>4. wk[v].next # e /\ wk[v].next # n
      BY <1>4, <2>2, <2>3
    <2>5. QED
      BY <1>10, <2>2, <2>4
  <1>21. StaleIsPast'
    BY <1>5, <1>8, <1>9, <1>10, <1>4
    DEF OutboxInv, StaleIsPast, StaleMeansSuperseded, Superseded, Terminal
  <1>22. FencedArePast'
    BY <1>5, <1>6, FencedKept, Typed DEF OutboxInv
  <1>23. QED
    BY <1>1, <1>14, <1>15, <1>16, <1>17, <1>18, <1>19, <1>20, <1>21, <1>22
    DEF OutboxInv

\* sweep_source_dispatches never touches the row of a live task of the
\* current cycle, and closes as stale only what the source has moved past.
LEMMA OutboxSweepClaim ==
    ASSUME OutboxInv, NEW s \in Sweeper, SweepClaim(s)
    PROVE  OutboxInv'
  <1> DEFINE clean == [e \in Exec |-> Reconciled(e)]
             due == {e \in Exec : IsCurrent(e) /\ Due(clean[e])}
  <1>1. TypeInv'
    BY TypeSweep DEF SweepStep, OutboxInv
  <1>2. UNCHANGED <<source, job, wk, api, faults>>
    BY DEF SweepClaim
  <1>3. /\ row' = [e \in Exec |-> IF e \in due THEN Leased(clean[e]) ELSE clean[e]]
        /\ sw' = [t \in Sweeper |->
                IF t = s
                THEN [pc |-> IF due = {} THEN "idle" ELSE "enqueue",
                      todo |-> due, own |-> due, cur |-> NoExec]
                ELSE [sw[t] EXCEPT !.own = @ \ due]]
    BY DEF SweepClaim
  <1>4. ASSUME NEW e \in Exec
        PROVE  /\ clean[e] \in Row
               /\ clean[e].token = row[e].token
               /\ \/ clean[e] = row[e]
                  \/ /\ row[e].status \in NonTerminal /\ Superseded(e)
                     /\ clean[e].status = "stale"
                  \/ /\ row[e].status = "running" /\ row[e].lease # "live"
                     /\ ~Superseded(e) /\ clean[e].status = "failed"
    <2>1. row[e] \in Row
      BY Typed DEF OutboxInv
    <2>2. /\ StaleRow(row[e]) \in Row
          /\ ClosedRow(row[e], "failed", "orphaned") \in Row
      BY <2>1, DerivedRows, ClosedRowType DEF Terminal, Reasons
    <2>3. /\ StaleRow(row[e]).status = "stale"
          /\ StaleRow(row[e]).token = row[e].token
          /\ ClosedRow(row[e], "failed", "orphaned").status = "failed"
          /\ ClosedRow(row[e], "failed", "orphaned").token = row[e].token
      BY <2>1 DEF StaleRow, ClosedRow, Row
    <2>4. QED
      BY <2>1, <2>2, <2>3 DEF Reconciled, NonTerminal
  <1>5. ASSUME NEW e \in due
        PROVE  /\ e \in Exec /\ IsCurrent(e)
               /\ Leased(clean[e]).status = "dispatching"
               /\ Leased(clean[e]).token = row[e].token
               /\ row[e].status \in NonTerminal
               /\ row[e].status = "running" => row[e].lease # "live"
    <2>1. e \in Exec /\ IsCurrent(e) /\ Due(clean[e])
      OBVIOUS
    <2>2. /\ Leased(clean[e]).status = "dispatching"
          /\ Leased(clean[e]).token = row[e].token
      BY <1>4, <2>1 DEF Leased, Row
    <2>3. clean[e].status \in NonTerminal
          /\ (clean[e].status = "running" => clean[e].lease # "live")
      BY <2>1 DEF Due, NonTerminal
    <2>4. clean[e] = row[e]
      BY <1>4, <2>1, <2>3 DEF NonTerminal
    <2>5. QED
      BY <2>1, <2>2, <2>3, <2>4
  <1> HIDE DEF clean, due
  <1>6. ASSUME NEW e \in Exec
        PROVE  /\ row'[e].token = row[e].token
               /\ \/ row'[e] = row[e]
                  \/ /\ row[e].status \in NonTerminal /\ Superseded(e)
                     /\ row'[e].status = "stale"
                  \/ /\ row[e].status = "running" /\ row[e].lease # "live"
                     /\ ~Superseded(e) /\ row'[e].status = "failed"
                  \/ /\ row[e].status \in NonTerminal /\ IsCurrent(e)
                     /\ (row[e].status = "running" => row[e].lease # "live")
                     /\ row'[e].status = "dispatching"
    <2>1. CASE e \in due
      BY <1>3, <1>5, <2>1
    <2>2. CASE e \notin due
      BY <1>3, <1>4, <2>2
    <2>3. QED
      BY <2>1, <2>2
  <1>7. \A e \in Exec : /\ Exists(e) <=> Exists(e)'
                        /\ Finished(e) => Finished(e)'
    BY <1>2, <1>6 DEF Exists, Finished, Terminal, NonTerminal
  <1>8. RowsOfCycles' /\ JobsHaveRows' /\ SingleTip'
    BY <1>2, <1>7
    DEF OutboxInv, RowsOfCycles, JobsHaveRows, SingleTip, CommitPending
  <1>9. LeasesHaveRows'
    <2>1. ASSUME NEW t \in Sweeper
          PROVE  /\ \A e \in sw'[t].todo : Exists(e)'
                 /\ sw'[t].pc \in {"ack", "nack"} => row'[sw'[t].cur].status # "absent"
      <3>1. CASE t = s
        <4>1. sw'[s].todo = due /\ sw'[s].pc \in {"idle", "enqueue"}
          BY <1>3
        <4>2. \A e \in due : Exists(e)'
          BY <1>5, <1>7 DEF Exists, NonTerminal
        <4>3. QED
          BY <3>1, <4>1, <4>2
      <3>2. CASE t # s
        <4>1. /\ sw'[t].todo = sw[t].todo /\ sw'[t].pc = sw[t].pc
              /\ sw'[t].cur = sw[t].cur /\ sw[t].todo \subseteq Exec
          BY <1>3, <3>2, Typed DEF OutboxInv, Sweep
        <4>2. QED
          BY <1>7, <4>1
          DEF OutboxInv, LeasesHaveRows, TypeInv, SweepNamed, Exists
      <3>3. QED
        BY <3>1, <3>2
    <2>2. QED
      BY <2>1 DEF LeasesHaveRows, Exists
  <1>10. TasksHaveRows'
    BY <1>2, <1>7 DEF OutboxInv, TasksHaveRows, TypeInv, TaskNamed
  <1>11. TasksPastClaim'
    <2>1. \A e \in Exec : /\ row'[e].token = row[e].token
                          /\ row[e].status \in NonTerminal =>
                                row'[e].status \in NonTerminal \cup Terminal
                          /\ row[e].status \in Terminal => row'[e] = row[e]
      BY <1>6 DEF Terminal, NonTerminal
    <2>2. \A w \in Worker : wk[w].pc \notin {"idle", "started"} => wk[w].exec \in Exec
      BY DEF OutboxInv, TypeInv, TaskNamed
    <2>3. QED
      BY <1>2, <2>1, <2>2 DEF OutboxInv, TasksPastClaim
  <1>12. OwnersKeep'
    <2>1. SUFFICES ASSUME Renewing, NEW w \in Worker, wk[w].claim, IsCurrent(wk[w].exec)
                   PROVE  row'[wk[w].exec] = row[wk[w].exec]
      BY <1>2 DEF OutboxInv, OwnersKeep, LiveOwnerKeepsRow, IsCurrent
    <2>2. /\ wk[w].exec \in Exec
          /\ row[wk[w].exec].status = "running" /\ row[wk[w].exec].lease = "live"
      BY <2>1 DEF OutboxInv, TypeInv, TaskNamed, TasksPastClaim, OwnersKeep, LiveOwnerKeepsRow
    <2>3. ~Superseded(wk[w].exec)
      BY <2>1, <2>2, Typed DEF OutboxInv, Superseded, IsCurrent
    <2>4. QED
      BY <1>6, <2>2, <2>3
  <1>13. HandoffsAreFresh'
    BY <1>2, <1>6
    DEF OutboxInv, HandoffsAreFresh, TypeInv, TaskNamed, Terminal, NonTerminal
  <1>14. StaleIsPast'
    BY <1>2, <1>6 DEF OutboxInv, StaleIsPast, StaleMeansSuperseded, Superseded
  <1>fp. FencedArePast'
    BY <1>2, FencedKept, Typed DEF OutboxInv
  <1>15. QED
    BY <1>1, <1>2, <1>fp, <1>8, <1>9, <1>10, <1>11, <1>12, <1>13, <1>14
    DEF OutboxInv, RequestsAreNew, NoGates

\* Enqueueing a leased row, and the death of a sweep.
LEMMA OutboxSweepEnqueue ==
    ASSUME OutboxInv, NEW s \in Sweeper, SweepEnqueue(s) \/ SweepCrash(s)
    PROVE  OutboxInv'
  <1>1. TypeInv'
    BY TypeSweep DEF SweepStep, OutboxInv
  <1>2. UNCHANGED <<source, row, wk, api>>
    BY DEF SweepEnqueue, SweepCrash
  <1>fp. FencedArePast'
    BY <1>2, FencedKept, Typed DEF OutboxInv
  <1>3. CASE SweepEnqueue(s)
    <2>1. PICK e \in sw[s].todo, ok \in BOOLEAN :
            /\ EnqueueJob(e, ok)
            /\ sw' = [sw EXCEPT ![s].pc = IF ok THEN "ack" ELSE "nack",
                                ![s].todo = @ \ {e}, ![s].cur = e]
      BY <1>3 DEF SweepEnqueue
    <2>2. e \in Exec /\ Exists(e)
      BY Typed DEF OutboxInv, LeasesHaveRows, Sweep
    <2>3. /\ \/ job'[e] = job[e]
             \/ job[e] = "none" /\ job'[e] = "queued"
          /\ \A f \in Exec : f # e => job'[f] = job[f]
      BY <2>1, <2>2, EnqueueEffect DEF OutboxInv
    <2>4. /\ sw'[s].todo = sw[s].todo \ {e} /\ sw'[s].cur = e
          /\ \A t \in Sweeper : t # s => sw'[t] = sw[t]
      BY <2>1, Typed DEF OutboxInv, Sweep
    <2>5. LeasesHaveRows'
      BY <1>2, <2>2, <2>4 DEF OutboxInv, LeasesHaveRows, Exists
    <2>6. JobsHaveRows' /\ SingleTip'
      BY <1>2, <2>2, <2>3
      DEF OutboxInv, JobsHaveRows, SingleTip, Exists, Finished, CommitPending
    <2>7. TasksHaveRows'
      BY <1>2, <2>3 DEF OutboxInv, TasksHaveRows, Exists, TypeInv, TaskNamed
    <2>8. QED
      BY <1>1, <1>2, <1>fp, <2>5, <2>6, <2>7
      DEF OutboxInv, RowsOfCycles, RequestsAreNew, TasksPastClaim,
          HandoffsAreFresh, NoGates, OwnersKeep, LiveOwnerKeepsRow, StaleIsPast, StaleMeansSuperseded,
          Exists, Superseded, IsCurrent
  <1>4. CASE SweepCrash(s)
    <2>1. /\ job' = job /\ sw'[s].todo = {} /\ sw'[s].pc = "idle"
          /\ \A t \in Sweeper : t # s => sw'[t] = sw[t]
      BY <1>4, Typed DEF SweepCrash, IdleSweep, OutboxInv
    <2>2. LeasesHaveRows'
      BY <1>2, <2>1 DEF OutboxInv, LeasesHaveRows, Exists
    <2>3. QED
      BY <1>1, <1>2, <1>fp, <2>1, <2>2
      DEF OutboxInv, RowsOfCycles, JobsHaveRows, RequestsAreNew, TasksHaveRows,
          TasksPastClaim, HandoffsAreFresh, SingleTip, NoGates,
          OwnersKeep, LiveOwnerKeepsRow, StaleIsPast, StaleMeansSuperseded, Exists, Finished,
          CommitPending, Superseded, IsCurrent
  <1>5. QED
    BY <1>3, <1>4

\* An acknowledgement or a failed enqueue touches a row only while the row is
\* dispatching, so never one whose task is renewing its lease.
LEMMA OutboxSweepAck ==
    ASSUME OutboxInv, NEW s \in Sweeper, SweepAck(s) \/ SweepNack(s)
    PROVE  OutboxInv'
  <1> DEFINE e == sw[s].cur
  <1>1. TypeInv'
    BY TypeSweep DEF SweepStep, OutboxInv
  <1>2. UNCHANGED <<source, job, wk, api, faults>> /\ sw' = NextLease(s)
    BY DEF SweepAck, SweepNack
  <1>3. e \in Exec /\ row[e] \in Row
    BY Typed DEF SweepAck, SweepNack, OutboxInv, TypeInv, SweepNamed
  <1>4. /\ StaleRow(row[e]).status = "stale"
        /\ EnqueuedRow(row[e]).status = "enqueued"
        /\ RetryRow(row[e]).status = "pending"
        /\ ClosedRow(row[e], "failed", "exhausted").status = "failed"
        /\ StaleRow(row[e]).token = row[e].token
        /\ EnqueuedRow(row[e]).token = row[e].token
        /\ RetryRow(row[e]).token = row[e].token
        /\ ClosedRow(row[e], "failed", "exhausted").token = row[e].token
    BY <1>3 DEF StaleRow, EnqueuedRow, RetryRow, ClosedRow, Row
  <1>5. /\ \A f \in Exec : f # e => row'[f] = row[f]
        /\ \/ row'[e] = row[e]
           \/ /\ row[e].status = "dispatching" /\ row'[e].token = row[e].token
              /\ row'[e].status \in {"stale", "enqueued", "pending", "failed"}
              /\ row'[e].status = "stale" => Superseded(e)
    <2>1. CASE ~OwnsLease(s)
      BY <2>1 DEF SweepAck, SweepNack
    <2>2. CASE OwnsLease(s)
      <3>1. row[e].status = "dispatching"
        BY <2>2 DEF OwnsLease
      <3>2. PICK r \in {StaleRow(row[e]), EnqueuedRow(row[e]), RetryRow(row[e]),
                        ClosedRow(row[e], "failed", "exhausted")} :
              row' = [row EXCEPT ![e] = r]
              /\ (Superseded(e) \/ r # StaleRow(row[e]))
        <4>1. CASE SweepAck(s)
          BY <1>4, <2>2, <4>1 DEF SweepAck
        <4>2. CASE SweepNack(s)
          BY <1>4, <2>2, <4>2 DEF SweepNack
        <4>3. QED
          BY <4>1, <4>2
      <3>3. QED
        BY <1>3, <1>4, <3>1, <3>2, Typed DEF OutboxInv
    <2>3. QED
      BY <2>1, <2>2
  <1>6. /\ sw'[s].todo = sw[s].todo /\ sw'[s].pc \in {"idle", "enqueue"}
        /\ \A t \in Sweeper : t # s => sw'[t] = sw[t]
    BY <1>2, Typed DEF NextLease, OutboxInv, Sweep
  <1> HIDE DEF e
  <1>7. \A f \in Exec : /\ Exists(f) <=> Exists(f)'
                        /\ Finished(f) => Finished(f)'
    BY <1>2, <1>3, <1>5 DEF Exists, Finished, Terminal
  <1>8. RowsOfCycles' /\ JobsHaveRows' /\ SingleTip'
    BY <1>2, <1>7
    DEF OutboxInv, RowsOfCycles, JobsHaveRows, SingleTip, CommitPending
  <1>9. LeasesHaveRows'
    BY <1>6, <1>7, Typed
    DEF OutboxInv, LeasesHaveRows, TypeInv, SweepNamed, Sweep, Exists
  <1>10. TasksHaveRows'
    BY <1>2, <1>7 DEF OutboxInv, TasksHaveRows, TypeInv, TaskNamed
  <1>11. TasksPastClaim'
    <2>1. \A f \in Exec : /\ row'[f].token = row[f].token
                          /\ row[f].status \in NonTerminal =>
                                row'[f].status \in NonTerminal \cup Terminal
                          /\ row[f].status \in Terminal => row'[f] = row[f]
      BY <1>5 DEF Terminal, NonTerminal
    <2>2. \A w \in Worker : wk[w].pc \notin {"idle", "started"} => wk[w].exec \in Exec
      BY DEF OutboxInv, TypeInv, TaskNamed
    <2>3. QED
      BY <1>2, <2>1, <2>2 DEF OutboxInv, TasksPastClaim
  <1>12. OwnersKeep'
    <2>1. \A w \in Worker : wk[w].claim => wk[w].exec \in Exec
      BY DEF OutboxInv, TypeInv, TaskNamed, TasksPastClaim
    <2>2. QED
      BY <1>2, <1>5, <2>1 DEF OutboxInv, OwnersKeep, LiveOwnerKeepsRow, IsCurrent
  <1>13. HandoffsAreFresh'
    BY <1>2, <1>5
    DEF OutboxInv, HandoffsAreFresh, TypeInv, TaskNamed, Terminal
  <1>14. StaleIsPast'
    BY <1>2, <1>5 DEF OutboxInv, StaleIsPast, StaleMeansSuperseded, Superseded
  <1>fp. FencedArePast'
    BY <1>2, FencedKept, Typed DEF OutboxInv
  <1>15. QED
    BY <1>1, <1>2, <1>fp, <1>8, <1>9, <1>10, <1>11, <1>12, <1>13, <1>14
    DEF OutboxInv, RequestsAreNew, NoGates

\* Time: only a lease nobody renews runs out.
LEMMA OutboxTime ==
    ASSUME Tolerated, OutboxInv, NEW e \in Exec,
           \/ LeaseExpires(e) \/ RenewalStops(e) \/ BackoffEnds(e)
           \/ ResultExpires(e)
    PROVE  OutboxInv'
  <1>1. TypeInv'
    BY TypeRest DEF OutboxInv
  <1>2. UNCHANGED <<source, wk, sw, api>>
    BY DEF LeaseExpires, RenewalStops, BackoffEnds, ResultExpires
  <1>3. Renewing => ~RenewalStops(e)
    BY DEF RenewalStops, CanFail, Renewing
  <1>4. /\ \A f \in Exec : f # e => row'[f] = row[f]
        /\ row'[e].status = row[e].status /\ row'[e].token = row[e].token
        /\ row'[e].lease = row[e].lease \/ LeaseExpires(e) \/ RenewalStops(e)
    BY Typed DEF LeaseExpires, RenewalStops, BackoffEnds, ResultExpires, OutboxInv, Row
  <1>5. \A f \in Exec : /\ job'[f] # "none" => job'[f] = job[f]
                        /\ job[f] # job'[f] =>
                              job[f] = "done" /\ row[f].status \notin Terminal
    BY Typed DEF LeaseExpires, RenewalStops, BackoffEnds, ResultExpires, OutboxInv
  <1>6. \A f \in Exec : /\ row'[f].status = row[f].status
                        /\ row'[f].token = row[f].token
    BY <1>4
  <1>7. \A f \in Exec : /\ Exists(f) <=> Exists(f)'
                        /\ Finished(f) => Finished(f)'
    BY <1>5, <1>6 DEF Exists, Finished
  <1>8. RowsOfCycles' /\ JobsHaveRows' /\ SingleTip'
    BY <1>2, <1>5, <1>7
    DEF OutboxInv, RowsOfCycles, JobsHaveRows, SingleTip, CommitPending
  <1>9. LeasesHaveRows'
    BY <1>2, <1>7, Typed
    DEF OutboxInv, LeasesHaveRows, TypeInv, SweepNamed, Sweep
  <1>10. TasksHaveRows'
    BY <1>2, <1>5, <1>7 DEF OutboxInv, TasksHaveRows, TypeInv, TaskNamed
  <1>11. TasksPastClaim' /\ HandoffsAreFresh' /\ StaleIsPast'
    BY <1>2, <1>6
    DEF OutboxInv, TasksPastClaim, HandoffsAreFresh, StaleIsPast, StaleMeansSuperseded,
        TypeInv, TaskNamed, Superseded
  <1>12. OwnersKeep'
    <2>1. SUFFICES ASSUME Renewing, NEW w \in Worker, wk[w].claim, IsCurrent(wk[w].exec)
                   PROVE  /\ row'[wk[w].exec].status = "running"
                          /\ row'[wk[w].exec].token = w
                          /\ row'[wk[w].exec].lease = "live"
      BY <1>2 DEF OwnersKeep, LiveOwnerKeepsRow, IsCurrent
    <2>2. /\ row[wk[w].exec].status = "running" /\ row[wk[w].exec].token = w
          /\ row[wk[w].exec].lease = "live"
      BY <2>1 DEF OutboxInv, OwnersKeep, LiveOwnerKeepsRow
    <2>3. wk[w].pc \notin {"idle", "started"} /\ wk[w].exec \in Exec
      BY <2>1 DEF OutboxInv, TasksPastClaim, TypeInv, TaskNamed
    <2>4. ~LeaseExpires(wk[w].exec)
      BY <2>1, <2>2, <2>3 DEF LeaseExpires, Renewed
    <2>5. QED
      BY <1>3, <1>4, <1>6, <2>1, <2>2, <2>3, <2>4
  <1>fp. FencedArePast'
    BY <1>2, FencedKept, Typed DEF OutboxInv
  <1>13. QED
    BY <1>1, <1>2, <1>fp, <1>8, <1>9, <1>10, <1>11, <1>12
    DEF OutboxInv, RequestsAreNew, NoGates

LEMMA OutboxInit == Init => OutboxInv
  <1> SUFFICES ASSUME Init PROVE OutboxInv
    OBVIOUS
  <1>1. TypeInv
    BY TypeInit
  <1>2. /\ source.gen = 0 /\ source.status = "pending"
        /\ \A e \in Exec : row[e].status = "absent" /\ job[e] = "none"
        /\ \A w \in Worker : wk[w].pc = "idle" /\ wk[w].claim = FALSE
                             /\ wk[w].read = "none"
        /\ \A s \in Sweeper : sw[s].pc = "idle" /\ sw[s].todo = {}
        /\ \A p \in Api : api[p].pc = "idle"
    BY DEF Init, AbsentRow, IdleTask, IdleSweep, IdleRequest
  <1>3. QED
    BY <1>1, <1>2
    DEF OutboxInv, RowsOfCycles, JobsHaveRows, LeasesHaveRows, RequestsAreNew,
        TasksHaveRows, TasksPastClaim, HandoffsAreFresh, SingleTip, NoGates,
        OwnersKeep, LiveOwnerKeepsRow, StaleIsPast, StaleMeansSuperseded,
        FencedArePast, Exists

LEMMA OutboxStep ==
    ASSUME Tolerated
    PROVE  OutboxInv /\ [Next]_vars => OutboxInv'
  <1> SUFFICES ASSUME OutboxInv, [Next]_vars PROVE OutboxInv'
    OBVIOUS
  <1>1. CASE UNCHANGED vars
    <2>1. TypeInv'
      BY <1>1, TypeStep DEF OutboxInv
    <2>2. QED
      BY <1>1, <2>1
      DEF vars, OutboxInv, RowsOfCycles, JobsHaveRows, LeasesHaveRows,
          RequestsAreNew, TasksHaveRows, TasksPastClaim, HandoffsAreFresh,
          SingleTip, NoGates, OwnersKeep, LiveOwnerKeepsRow, StaleIsPast, StaleMeansSuperseded, Exists,
          Finished, CommitPending, Superseded, IsCurrent, FencedArePast
  <1>2. ASSUME NEW p \in Api, ApiStep(p) \/ ApiAbort(p) PROVE OutboxInv'
    <2>1. ~ApiAbort(p)
      BY DEF ApiAbort, CanFail, Tolerated
    <2>2. QED
      BY <1>2, <2>1, OutboxApiOpen, OutboxApiEnqueue, OutboxApiCommit DEF ApiStep
  <1>3. ASSUME NEW w \in Worker, TaskStep(w) \/ TaskCrash(w) PROVE OutboxInv'
    <2>1. ~TaskGate(w) /\ ~TaskAutoRecord(w)
      BY DEF TaskGate, TaskAutoRecord, Tolerated
    <2>2. wk[w].pc \notin {"recorded", "acking"}
      BY DEF OutboxInv, TasksPastClaim
    <2>3. ~TaskAutoEnqueue(w) /\ ~TaskAutoAck(w)
      BY <2>2 DEF TaskAutoEnqueue, TaskAutoAck
    <2>4. QED
      BY <1>3, <2>1, <2>3, OutboxTaskClaim, OutboxTaskMoves, OutboxTaskReads,
         OutboxTaskEnds, OutboxTaskHandoff, OutboxTaskHandoffCommit DEF TaskStep
  <1>4. ASSUME NEW s \in Sweeper, SweepStep(s) \/ SweepCrash(s) PROVE OutboxInv'
    BY <1>4, OutboxSweepClaim, OutboxSweepEnqueue, OutboxSweepAck DEF SweepStep
  <1>5. QED
    BY <1>1, <1>2, <1>3, <1>4, OutboxSource, OutboxTaskStart, OutboxTime DEF Next

\* Where Tolerated holds, the outbox, the queue, the tasks, the requests and
\* the sweeps stay in the relation the other theorems rest on.
THEOREM OutboxInvariant ==
    ASSUME Tolerated
    PROVE  Spec => []OutboxInv
  BY OutboxInit, OutboxStep, PTL DEF Spec

\* Where Tolerated holds and no renewal stops, a worker that is alive inside a
\* claimed execution of the current cycle keeps its row: whatever crashes, is
\* cancelled or fails to be enqueued around it, neither the sweep nor another
\* task takes the row away.
THEOREM LiveOwner ==
    ASSUME Tolerated, Renewing
    PROVE  Spec => []LiveOwnerKeepsRow
  <1>1. OutboxInv => LiveOwnerKeepsRow
    BY DEF OutboxInv, OwnersKeep
  <1>2. QED
    BY <1>1, OutboxInit, OutboxStep, PTL DEF Spec

\* Where Tolerated holds and no renewal stops, an execution is closed as stale
\* only when the source has moved to a newer cycle or is being deleted: no work
\* of the current cycle is lost that way.
THEOREM StaleIsSuperseded ==
    ASSUME Tolerated, Renewing
    PROVE  Spec => []StaleMeansSuperseded
  <1>1. OutboxInv => StaleMeansSuperseded
    BY DEF OutboxInv, StaleIsPast
  <1>2. QED
    BY <1>1, OutboxInit, OutboxStep, PTL DEF Spec

\* Where Tolerated holds, the executions of a cycle take turns: at most one
\* is open in the outbox or alive in the queue.
THEOREM OneTipPerCycle ==
    ASSUME Tolerated
    PROVE  Spec => []SingleTip
  <1>1. OutboxInv => SingleTip
    BY DEF OutboxInv
  <1>2. QED
    BY <1>1, OutboxInit, OutboxStep, PTL DEF Spec

-----------------------------------------------------------------------------
(* What a step may never do *)

TerminalKept ==
    \A e \in Exec : row[e].status \in Terminal =>
        /\ row'[e].status \in Terminal
        /\ Renewing /\ row'[e].status # row[e].status => Superseded(e)

\* A claimed execution that is closed, though its lease is renewed, is one the
\* source has moved past.
LEMMA ClosedClaimIsPast ==
    ASSUME Renewing, OutboxInv, NEW w \in Worker, wk[w].claim, wk[w].pc # "idle",
           row[wk[w].exec].status \in Terminal
    PROVE  Superseded(wk[w].exec)
  <1>1. wk[w].exec \in Exec /\ wk[w].exec[1] <= source.gen
    BY DEF OutboxInv, TypeInv, TaskNamed, TasksHaveRows, RowsOfCycles
  <1>2. ~IsCurrent(wk[w].exec)
    BY DEF OutboxInv, OwnersKeep, LiveOwnerKeepsRow, Terminal
  <1>3. QED
    BY <1>1, <1>2, Typed DEF OutboxInv, Superseded, IsCurrent

\* A task's step closes no closed row anew, unless the source has moved past
\* it, and leaves the generation alone.
LEMMA KeptByTask ==
    ASSUME Tolerated, OutboxInv, NEW w \in Worker, TaskStep(w) \/ TaskCrash(w)
    PROVE  TerminalKept /\ source'.gen = source.gen
  <1>1. ~TaskGate(w) /\ ~TaskAutoRecord(w)
    BY DEF TaskGate, TaskAutoRecord, Tolerated
  <1>2. ~TaskAutoEnqueue(w) /\ ~TaskAutoAck(w)
    BY DEF OutboxInv, TasksPastClaim, TaskAutoEnqueue, TaskAutoAck
  <1>3. CASE TaskClaim(w)
    <2> DEFINE e == wk[w].exec
    <2>1. e \in Exec /\ e = <<e[1], e[2]>> /\ ClaimsAs[e[2]] = e[2]
          /\ e[1] \in 1..MaxGeneration /\ UNCHANGED source
      BY <1>3, ExecParts DEF TaskClaim, OutboxInv, TypeInv, TaskNamed, Tolerated
    <2>2. row' # row => row[e].status \in NonTerminal
      BY <1>3, <2>1 DEF TaskClaim, AbsentRow, NonTerminal
    <2>3. \A f \in Exec : f # e => row'[f] = row[f]
      BY <1>3, <2>1, Typed DEF TaskClaim, OutboxInv
    <2>4. QED
      BY <2>1, <2>2, <2>3 DEF TerminalKept, Terminal, NonTerminal
  <1>4. CASE TaskProcessing(w) \/ TaskFence(w) \/ TaskFinal(w) \/ TaskError(w)
             \/ TaskHandoff(w) \/ TaskReturn(w) \/ TaskCrash(w)
             \/ TaskSuperseded(w) \/ TaskReadRow(w)
    BY <1>4 DEF TaskProcessing, TaskFence, TaskFinal, TaskError, TaskHandoff,
                TaskReturn, TaskCrash, TaskSuperseded, TaskReadRow, TerminalKept,
                OutboxInv, TypeInv, TypeOK, SourceState
  <1>5. CASE TaskStale(w) \/ TaskComplete(w) \/ TaskFail(w)
    <2>1. wk[w].pc # "idle" /\ UNCHANGED source
      BY <1>5 DEF TaskStale, TaskComplete, TaskFail
    <2>2. PICK st \in Terminal, re \in Reasons : row' = Marked(w, st, re)
      BY <1>5 DEF TaskStale, TaskComplete, TaskFail, Terminal, Reasons
    <2>3. wk[w].read = "owned" => wk[w].claim
      BY DEF OutboxInv, TypeInv, TaskNamed
    <2>4. QED
      BY <2>1, <2>2, <2>3, MarkedEffect, ClosedClaimIsPast DEF TerminalKept
  <1>6. CASE TaskHandoffCommit(w)
    <2> DEFINE e == wk[w].exec
               n == wk[w].next
    <2>1. /\ e \in Exec /\ n \in Exec /\ n # e
          /\ wk[w].snap.status = row[n].status /\ wk[w].snap \in Row
          /\ wk[w].ok \in BOOLEAN /\ row[n] \in Row /\ wk[w].seen >= 1
      BY <1>6, Typed DEF TaskHandoffCommit, OutboxInv, TypeInv, TaskNamed,
                         HandoffsAreFresh, TasksPastClaim, Task
    <2>2. source'.gen = source.gen
      BY <1>6, <2>1, Typed DEF TaskHandoffCommit, OutboxInv, TypeInv, TypeOK,
                               SourceState
    <2>3. /\ row'[n] = Committed(n, wk[w].snap, wk[w].ok)
          /\ wk[w].read # "owned" => row'[e] = row[e]
          /\ wk[w].read = "owned" => row'[e] = ClosedRow(row[e], "completed", "handoff")
          /\ \A f \in Exec : f # e /\ f # n => row'[f] = row[f]
      BY <1>6, <2>1, Typed DEF TaskHandoffCommit, Marked, OutboxInv
    <2>4. row[n].status \in Terminal => row'[n] = row[n]
      BY <2>1, <2>3, CommittedRow
    <2>5. wk[w].read = "owned" => wk[w].claim /\ row'[e].status = "completed"
      <3>1. row[e] \in Row
        BY <2>1, Typed DEF OutboxInv
      <3>2. ClosedRow(row[e], "completed", "handoff").status = "completed"
        BY <3>1 DEF ClosedRow, Row
      <3>3. wk[w].read = "owned" => wk[w].claim
        BY DEF OutboxInv, TypeInv, TaskNamed
      <3>4. QED
        BY <2>3, <3>2, <3>3
    <2>6. Renewing /\ wk[w].read = "owned" /\ row[e].status \in Terminal => Superseded(e)
      BY <1>6, <2>5, ClosedClaimIsPast DEF TaskHandoffCommit
    <2>7. QED
      BY <2>1, <2>2, <2>3, <2>4, <2>5, <2>6 DEF TerminalKept, Terminal
  <1>7. QED
    BY <1>1, <1>2, <1>3, <1>4, <1>5, <1>6 DEF TaskStep

\* A sweep's step leaves closed rows and the generation alone.
LEMMA KeptBySweep ==
    ASSUME OutboxInv, NEW s \in Sweeper, SweepStep(s) \/ SweepCrash(s)
    PROVE  TerminalKept /\ source'.gen = source.gen
  <1>1. UNCHANGED source
    BY DEF SweepStep, SweepClaim, SweepEnqueue, SweepAck, SweepNack, SweepCrash
  <1>2. CASE SweepClaim(s)
    <2>1. \A e \in Exec : row[e].status \in Terminal => Reconciled(e) = row[e]
      BY DEF Reconciled, Terminal, NonTerminal
    <2>2. \A e \in Exec : row[e].status \in Terminal => ~Due(row[e])
      BY DEF Due, Terminal
    <2>3. QED
      BY <1>1, <1>2, <2>1, <2>2 DEF SweepClaim, TerminalKept
  <1>3. CASE SweepEnqueue(s) \/ SweepCrash(s)
    BY <1>1, <1>3 DEF SweepEnqueue, SweepCrash, TerminalKept
  <1>4. CASE SweepAck(s) \/ SweepNack(s)
    <2>1. \A f \in Exec : row'[f] # row[f] => row[f].status = "dispatching"
      BY <1>4, Typed
      DEF SweepAck, SweepNack, OwnsLease, OutboxInv, TypeInv, SweepNamed
    <2>2. QED
      BY <1>1, <2>1 DEF TerminalKept, Terminal
  <1>5. QED
    BY <1>2, <1>3, <1>4 DEF SweepStep

LEMMA KeptByStep ==
    ASSUME Tolerated, OutboxInv, [Next]_vars
    PROVE  TerminalKept /\ source'.gen >= source.gen
  <1>0. source.gen \in Nat
    BY Typed DEF OutboxInv
  <1>1. CASE UNCHANGED vars
    BY <1>0, <1>1 DEF vars, TerminalKept
  <1>2. ASSUME NEW p \in Api, ApiStep(p) \/ ApiAbort(p)
        PROVE  TerminalKept /\ source'.gen >= source.gen
    <2>1. CASE ~ApiCommit(p)
      <3>1. source' = source /\ row' = row
        <4>1. CASE ApiLoad(p)
          BY <4>1 DEF ApiLoad
        <4>2. CASE ApiRecord(p)
          BY <4>2 DEF ApiRecord
        <4>3. CASE ApiEnqueue(p)
          BY <4>3 DEF ApiEnqueue
        <4>4. CASE ApiAbort(p)
          BY <4>4 DEF ApiAbort
        <4>5. QED
          BY <1>2, <2>1, <4>1, <4>2, <4>3, <4>4 DEF ApiStep
      <3>2. QED
        BY <1>0, <3>1 DEF TerminalKept
    <2>2. CASE ApiCommit(p)
      <3> DEFINE e == api[p].exec
      <3>1. e \in Exec /\ e[1] = source.gen + 1 /\ api[p].bump
        BY <2>2 DEF ApiCommit, OutboxInv, RequestsAreNew, TypeInv, RequestNamed
      <3>2. row[e].status = "absent"
        BY <3>1, Typed DEF OutboxInv, RowsOfCycles, Exists
      <3>3. \A f \in Exec : f # e => row'[f] = row[f]
        BY <2>2, <3>1, Typed DEF ApiCommit, OutboxInv
      <3>4. source'.gen = source.gen + 1
        BY <2>2, <3>1 DEF ApiCommit, OutboxInv, TypeInv, TypeOK, SourceState
      <3>5. QED
        BY <1>0, <3>1, <3>2, <3>3, <3>4 DEF TerminalKept, Terminal
    <2>3. QED
      BY <2>1, <2>2
  <1>3. ASSUME ApiDelete \/ StuckSweep
        PROVE  TerminalKept /\ source'.gen >= source.gen
    <2>1. source'.gen = source.gen
      BY <1>3 DEF ApiDelete, StuckSweep, OutboxInv, TypeInv, TypeOK, SourceState
    <2>2. \A e \in Exec : row[e].status \in Terminal => row'[e] = row[e]
      BY <1>3, DeleteEffect DEF StuckSweep, OutboxInv, Terminal, NonTerminal
    <2>3. QED
      BY <1>0, <2>1, <2>2 DEF TerminalKept
  <1>4. ASSUME NEW w \in Worker, NEW e \in Exec, TaskStart(w, e)
        PROVE  TerminalKept /\ source'.gen >= source.gen
    BY <1>0, <1>4 DEF TaskStart, TerminalKept
  <1>5. ASSUME NEW e \in Exec, \/ LeaseExpires(e) \/ RenewalStops(e)
                               \/ BackoffEnds(e) \/ ResultExpires(e)
        PROVE  TerminalKept /\ source'.gen >= source.gen
    <2>1. UNCHANGED source
      BY <1>5 DEF LeaseExpires, RenewalStops, BackoffEnds, ResultExpires
    <2>2. row[e] \in Row
      BY Typed DEF OutboxInv
    <2>3. /\ [row[e] EXCEPT !.lease = "expired"].status = row[e].status
          /\ [row[e] EXCEPT !.wait = FALSE].status = row[e].status
      BY <2>2 DEF Row
    <2>4. \A f \in Exec : row'[f].status = row[f].status
      <3>1. CASE LeaseExpires(e) \/ RenewalStops(e)
        <4>1. row' = [row EXCEPT ![e].lease = "expired"]
          BY <3>1 DEF LeaseExpires, RenewalStops
        <4>2. QED
          BY <2>3, <4>1, Typed DEF OutboxInv
      <3>2. CASE BackoffEnds(e)
        BY <2>3, <3>2, Typed DEF BackoffEnds, OutboxInv
      <3>3. CASE ResultExpires(e)
        BY <3>3 DEF ResultExpires
      <3>4. QED
        BY <1>5, <3>1, <3>2, <3>3
    <2>5. QED
      BY <1>0, <2>1, <2>4 DEF TerminalKept
  <1>6. QED
    BY <1>0, <1>1, <1>2, <1>3, <1>4, <1>5, KeptByTask, KeptBySweep DEF Next

\* Where Tolerated holds and no renewal stops, no step re-arms a closed
\* execution, not a late acknowledgement, not a blind commit of a stale row;
\* and a late terminal mark changes the verdict only of an execution the source
\* has moved past.
THEOREM TerminalRowsFinal ==
    ASSUME Tolerated, Renewing
    PROVE  Spec => TerminalIsFinal
  <1>1. OutboxInv /\ [Next]_vars =>
          [\A e \in Exec : row[e].status \in Terminal =>
              /\ row'[e].status \in Terminal
              /\ row'[e].status # row[e].status => Superseded(e)]_vars
    BY KeptByStep DEF TerminalKept
  <1>2. QED
    BY <1>1, OutboxInit, OutboxStep, PTL DEF Spec, TerminalIsFinal

-----------------------------------------------------------------------------
(* Why a row was closed *)

\* How the reason and the attempts of a row may change in one step.
ReasonKept(e) ==
    \/ row'[e].reason = row[e].reason /\ row'[e].attempt = row[e].attempt
    \/ row'[e].reason # "exhausted"
    \/ row'[e].attempt = MaxEnqueueAttempts

LEMMA DerivedReasons ==
    ASSUME NEW r \in Row
    PROVE  /\ StaleRow(r).reason = "superseded"
           /\ EnqueuedRow(r).reason = "none" /\ Leased(r).reason = "none"
           /\ RetryRow(r).reason = "none"
           /\ \A st, re : ClosedRow(r, st, re).reason = re
                          /\ ClosedRow(r, st, re).attempt = r.attempt
  BY DEF StaleRow, EnqueuedRow, Leased, RetryRow, ClosedRow, Row

\* A row that an outbox transaction inserts is given up only at the budget.
LEMMA InsertedReason ==
    ASSUME NEW ok \in BOOLEAN
    PROVE  \/ OutboxRow(FreshRow, ok).reason = "none"
           \/ /\ OutboxRow(FreshRow, ok).reason = "exhausted"
              /\ OutboxRow(FreshRow, ok).attempt = MaxEnqueueAttempts
  <1> DEFINE b == [FreshRow EXCEPT !.attempt = Bumped(@)]
  <1>1. FreshRow \in Row /\ FreshRow.attempt \in 0..MaxEnqueueAttempts
    BY ConstantRows DEF Row
  <1>2. Bumped(FreshRow.attempt) \in 0..MaxEnqueueAttempts
    BY <1>1, BumpedType
  <1>3. b \in Row
    BY <1>1, <1>2 DEF Row
  <1>4. CASE ok
    BY <1>1, <1>4, DerivedReasons DEF OutboxRow
  <1>5. CASE ~ok /\ b.attempt < MaxEnqueueAttempts
    <2>1. OutboxRow(FreshRow, ok) = RetryRow(b)
      BY <1>3, <1>5, DispatchConstants DEF OutboxRow, Row
    <2>2. QED
      BY <1>3, <2>1, DerivedReasons
  <1>6. CASE ~ok /\ b.attempt >= MaxEnqueueAttempts
    <2> DEFINE c == ClosedRow(b, "failed", "exhausted")
    <2>1. OutboxRow(FreshRow, ok) = [c EXCEPT !.wait = FreshRow.wait]
      BY <1>6 DEF OutboxRow
    <2>2. c.reason = "exhausted" /\ c.attempt = b.attempt
      BY <1>3 DEF ClosedRow, Row
    <2>3. b.attempt = MaxEnqueueAttempts
      BY <1>3, <1>6, DispatchConstants DEF Row
    <2>4. [c EXCEPT !.wait = FreshRow.wait].reason = c.reason
          /\ [c EXCEPT !.wait = FreshRow.wait].attempt = c.attempt
      BY <1>3 DEF ClosedRow, Row
    <2>5. QED
      BY <2>1, <2>2, <2>3, <2>4
  <1>7. QED
    BY <1>3, <1>4, <1>5, <1>6, DispatchConstants DEF Row

LEMMA ReasonsOfTask ==
    ASSUME Tolerated, OutboxInv, NEW w \in Worker, TaskStep(w) \/ TaskCrash(w),
           NEW e \in Exec
    PROVE  ReasonKept(e) /\ (Exists(e) => Exists(e)')
  <1>0. row \in [Exec -> Row] /\ row[e] \in Row
    BY Typed DEF OutboxInv
  <1>1. ~TaskGate(w) /\ ~TaskAutoRecord(w)
    BY DEF TaskGate, TaskAutoRecord, Tolerated
  <1>2. ~TaskAutoEnqueue(w) /\ ~TaskAutoAck(w)
    BY DEF OutboxInv, TasksPastClaim, TaskAutoEnqueue, TaskAutoAck
  <1>3. CASE UNCHANGED row
    BY <1>3 DEF ReasonKept, Exists
  <1>4. CASE TaskClaim(w) /\ row' # row
    <2>1. row' = [row EXCEPT ![wk[w].exec] = [@ EXCEPT
                    !.status = "running", !.token = w, !.lease = "live",
                    !.wait = FALSE, !.reason = "none"]]
      BY <1>4 DEF TaskClaim
    <2>2. CASE e = wk[w].exec
      <3>1. row'[e].reason = "none" /\ row'[e].status = "running"
        BY <1>0, <2>1, <2>2 DEF Row
      <3>2. QED
        BY <3>1 DEF ReasonKept, Reasons, Exists
    <2>3. CASE e # wk[w].exec
      BY <1>0, <2>1, <2>3 DEF ReasonKept, Exists
    <2>4. QED
      BY <2>2, <2>3
  <1>5. ASSUME wk[w].pc # "idle", NEW st \in Terminal, NEW re \in Reasons \ {"exhausted"},
               row' = Marked(w, st, re),
               re = "handoff" => TaskComplete(w) /\ Continuation[wk[w].exec[2]] # NoStage
        PROVE  ReasonKept(e) /\ (Exists(e) => Exists(e)')
    <2>1. CASE e # wk[w].exec \/ wk[w].read # "owned"
      <3>1. row'[e] = row[e]
        BY <1>5, <2>1, MarkedEffect
      <3>2. QED
        BY <3>1 DEF ReasonKept, Exists
    <2>2. CASE e = wk[w].exec /\ wk[w].read = "owned"
      <3>1. row'[e] = ClosedRow(row[e], st, re)
        BY <1>0, <1>5, <2>2 DEF Marked
      <3>2. row'[e].reason = re /\ row'[e].status = st
        BY <1>0, <1>5, <2>2, <3>1, DerivedReasons, MarkedEffect
      <3>3. Exists(e)'
        BY <1>5, <3>2 DEF Exists, Terminal
      <3>4. QED
        BY <1>5, <2>2, <3>2, <3>3 DEF ReasonKept
    <2>3. QED
      BY <2>1, <2>2
  <1>6. CASE TaskStale(w)
    BY <1>5, <1>6 DEF TaskStale, Terminal, Reasons
  <1>7. CASE TaskFail(w)
    BY <1>5, <1>7 DEF TaskFail, Terminal, Reasons
  <1>8. CASE TaskComplete(w)
    <2> DEFINE t == wk[w].exec[2]
               re == IF t \in Gated THEN "gate"
                     ELSE IF Continuation[t] = NoStage THEN "done" ELSE "handoff"
    <2>1. row' = Marked(w, "completed", re) /\ wk[w].pc # "idle"
      BY <1>8 DEF TaskComplete
    <2>2. /\ re \in Reasons \ {"exhausted"} /\ "completed" \in Terminal
          /\ re = "handoff" => Continuation[t] # NoStage
      BY DEF Reasons, Terminal
    <2>3. QED
      BY <1>5, <1>8, <2>1, <2>2
  <1>9. CASE TaskHandoffCommit(w)
    <2> DEFINE x == wk[w].exec
               n == wk[w].next
    <2>1. /\ x \in Exec /\ n \in Exec /\ n # x
          /\ wk[w].snap.status = row[n].status /\ wk[w].snap \in Row
          /\ wk[w].snap.status \in Terminal \cup {"absent"}
          /\ wk[w].ok \in BOOLEAN /\ row[n] \in Row
      BY <1>9, Typed DEF TaskHandoffCommit, OutboxInv, TypeInv, TaskNamed,
                         HandoffsAreFresh, Task
    <2>2. /\ row'[n] = Committed(n, wk[w].snap, wk[w].ok)
          /\ row'[x] = IF wk[w].read = "owned" THEN ClosedRow(row[x], "completed", "handoff") ELSE row[x]
          /\ \A f \in Exec : f # x /\ f # n => row'[f] = row[f]
      BY <1>0, <1>9, <2>1 DEF TaskHandoffCommit, Marked
    <2>3. CASE e = x
      <3>1. CASE wk[w].read = "owned"
        <4>1. row[x] \in Row
          BY <1>0, <2>1
        <4>2. row'[x].reason = "handoff" /\ row'[x].status = "completed"
          BY <2>2, <3>1, <4>1 DEF ClosedRow, Row
        <4>3. QED
          BY <1>9, <2>3, <4>2 DEF ReasonKept, Exists
      <3>2. CASE wk[w].read # "owned"
        BY <2>2, <2>3, <3>2 DEF ReasonKept, Exists
      <3>3. QED
        BY <3>1, <3>2
    <2>4. CASE e = n /\ row[n].status \in Terminal
      <3>1. row'[n] = row[n]
        BY <2>1, <2>2, <2>4, CommittedRow
      <3>2. QED
        BY <2>4, <3>1 DEF ReasonKept, Exists
    <2>5. CASE e = n /\ row[n].status = "absent"
      <3>1. row'[n] = OutboxRow(FreshRow, wk[w].ok)
        <4>1. Recorded(wk[w].snap) = FreshRow /\ wk[w].snap.status = "absent"
          BY <2>1, <2>5 DEF Recorded
        <4>2. Flushed(row[n], wk[w].snap, OutboxRow(FreshRow, wk[w].ok))
                = OutboxRow(FreshRow, wk[w].ok)
          BY <4>1 DEF Flushed, Terminal
        <4>3. QED
          BY <2>2, <4>1, <4>2 DEF Committed
      <3>2. QED
        BY <2>1, <2>5, <3>1, InsertedReason DEF ReasonKept, Exists, Reasons
    <2>6. CASE e # x /\ e # n
      BY <2>2, <2>6 DEF ReasonKept, Exists
    <2>7. QED
      BY <2>1, <2>3, <2>4, <2>5, <2>6
  <1>10. QED
    BY <1>1, <1>2, <1>3, <1>4, <1>6, <1>7, <1>8, <1>9
    DEF TaskStep, TaskProcessing, TaskFence, TaskFinal, TaskError, TaskHandoff,
        TaskReturn, TaskCrash, TaskSuperseded, TaskReadRow

LEMMA ReasonsOfSweep ==
    ASSUME TypeInv, NEW s \in Sweeper, SweepStep(s) \/ SweepCrash(s), NEW e \in Exec
    PROVE  /\ ReasonKept(e) /\ (Exists(e) => Exists(e)')
           /\ row'[e].reason = "handoff" => row[e].reason = "handoff"
  <1>0. row \in [Exec -> Row] /\ row[e] \in Row
    BY Typed
  <1>1. CASE UNCHANGED row
    BY <1>1 DEF ReasonKept, Exists
  <1>2. CASE SweepClaim(s)
    <2>1. \/ Reconciled(e) = row[e]
          \/ Reconciled(e) = StaleRow(row[e])
          \/ Reconciled(e) = ClosedRow(row[e], "failed", "orphaned")
      BY DEF Reconciled
    <2>2. /\ Reconciled(e) \in Row
          /\ Reconciled(e) = row[e] \/ /\ Reconciled(e).reason \in {"superseded", "orphaned"}
                                       /\ Reconciled(e).status # "absent"
      <3>1. /\ StaleRow(row[e]) \in Row
            /\ StaleRow(row[e]).reason = "superseded" /\ StaleRow(row[e]).status = "stale"
        BY <1>0 DEF StaleRow, Row, Reasons, Terminal
      <3> DEFINE c == ClosedRow(row[e], "failed", "orphaned")
      <3>2. c \in Row /\ c.reason = "orphaned" /\ c.status = "failed"
        BY <1>0 DEF ClosedRow, Row, Reasons, Terminal
      <3>3. QED
        BY <1>0, <2>1, <3>1, <3>2
    <2>3. row'[e] = Reconciled(e) \/ row'[e] = Leased(Reconciled(e))
      BY <1>2 DEF SweepClaim
    <2>4. CASE row'[e] = Reconciled(e)
      BY <2>2, <2>4 DEF ReasonKept, Reasons, Exists
    <2>5. CASE row'[e] = Leased(Reconciled(e))
      <3>1. row'[e].reason = "none" /\ row'[e].status = "dispatching"
        BY <2>2, <2>5 DEF Leased, Row
      <3>2. QED
        BY <3>1 DEF ReasonKept, Reasons, Exists
    <2>6. QED
      BY <2>3, <2>4, <2>5
  <1>3. CASE (SweepAck(s) \/ SweepNack(s)) /\ row'[e] # row[e]
    <2>1. \/ row'[e] = StaleRow(row[e]) \/ row'[e] = EnqueuedRow(row[e])
          \/ row'[e] = RetryRow(row[e])
          \/ /\ row'[e] = ClosedRow(row[e], "failed", "exhausted")
             /\ row[e].attempt >= MaxEnqueueAttempts
      BY <1>0, <1>3 DEF SweepAck, SweepNack
    <2>2. row[e].attempt >= MaxEnqueueAttempts => row[e].attempt = MaxEnqueueAttempts
      <3>1. row[e].attempt \in 0..MaxEnqueueAttempts
        BY <1>0 DEF Row
      <3>2. QED
        BY <3>1, DispatchConstants
    <2>3. CASE row'[e] = StaleRow(row[e]) \/ row'[e] = EnqueuedRow(row[e])
               \/ row'[e] = RetryRow(row[e])
      <3>1. row'[e].reason \in {"superseded", "none"} /\ row'[e].status # "absent"
        BY <1>0, <2>3 DEF StaleRow, EnqueuedRow, RetryRow, Row
      <3>2. QED
        BY <3>1 DEF ReasonKept, Reasons, Exists
    <2>4. CASE /\ row'[e] = ClosedRow(row[e], "failed", "exhausted")
               /\ row[e].attempt >= MaxEnqueueAttempts
      <3>1. /\ row'[e].reason = "exhausted" /\ row'[e].attempt = row[e].attempt
            /\ row'[e].status = "failed"
        BY <1>0, <2>4 DEF ClosedRow, Row
      <3>2. QED
        BY <2>2, <2>4, <3>1 DEF ReasonKept, Exists
    <2>5. QED
      BY <2>1, <2>3, <2>4
  <1>4. CASE row'[e] = row[e]
    BY <1>4 DEF ReasonKept, Exists
  <1>5. QED
    BY <1>1, <1>2, <1>3, <1>4 DEF SweepStep, SweepEnqueue, SweepCrash

LEMMA ReasonsOfStep ==
    ASSUME Tolerated, OutboxInv, [Next]_vars, NEW e \in Exec
    PROVE  ReasonKept(e) /\ (Exists(e) => Exists(e)')
  <1>0. row \in [Exec -> Row] /\ row[e] \in Row
    BY Typed DEF OutboxInv
  <1>1. CASE UNCHANGED row
    BY <1>1 DEF ReasonKept, Exists
  <1>2. ASSUME NEW p \in Api, ApiCommit(p)
        PROVE  ReasonKept(e) /\ (Exists(e) => Exists(e)')
    <2> DEFINE x == api[p].exec
    <2>1. /\ x \in Exec /\ api[p].snap.status = "absent" /\ api[p].ok \in BOOLEAN
      BY <1>2, Typed DEF ApiCommit, OutboxInv, RequestsAreNew, TypeInv, RequestNamed, Request
    <2>2. /\ row'[x] = Committed(x, api[p].snap, api[p].ok)
          /\ \A f \in Exec : f # x => row'[f] = row[f]
      BY <1>0, <1>2, <2>1 DEF ApiCommit
    <2>3. row'[x] = OutboxRow(FreshRow, api[p].ok)
      <3>1. Recorded(api[p].snap) = FreshRow
        BY <2>1 DEF Recorded
      <3>2. Flushed(row[x], api[p].snap, OutboxRow(FreshRow, api[p].ok))
              = OutboxRow(FreshRow, api[p].ok)
        BY <2>1 DEF Flushed, Terminal
      <3>3. QED
        BY <2>2, <3>1, <3>2 DEF Committed
    <2>4. CASE e = x
      <3>1. row'[x].status # "absent"
        BY <2>1, <2>3, ConstantRows, OutboxRowStatus
      <3>2. QED
        BY <2>1, <2>3, <2>4, <3>1, InsertedReason DEF ReasonKept, Exists, Reasons
    <2>5. CASE e # x
      BY <2>2, <2>5 DEF ReasonKept, Exists
    <2>6. QED
      BY <2>4, <2>5
  <1>3. ASSUME NEW f \in Exec, LeaseExpires(f) \/ RenewalStops(f) \/ BackoffEnds(f)
        PROVE  ReasonKept(e) /\ (Exists(e) => Exists(e)')
    <2>1. row' = [row EXCEPT ![f].lease = "expired"] \/ row' = [row EXCEPT ![f].wait = FALSE]
      BY <1>3 DEF LeaseExpires, RenewalStops, BackoffEnds
    <2>2. row[f] \in Row
      BY <1>0
    <2>3. /\ row'[e].reason = row[e].reason /\ row'[e].attempt = row[e].attempt
          /\ row'[e].status = row[e].status
      BY <1>0, <2>1, <2>2 DEF Row
    <2>4. QED
      BY <2>3 DEF ReasonKept, Exists
  <1>4. ASSUME NEW p \in Api, ApiLoad(p) \/ ApiRecord(p) \/ ApiEnqueue(p) \/ ApiAbort(p)
        PROVE  UNCHANGED row
    BY <1>4 DEF ApiLoad, ApiRecord, ApiEnqueue, ApiAbort
  <1>5. CASE StuckSweep \/ \E w \in Worker, f \in Exec : TaskStart(w, f)
    BY <1>1, <1>5 DEF StuckSweep, TaskStart
  <1>6. CASE \E f \in Exec : ResultExpires(f)
    BY <1>1, <1>6 DEF ResultExpires
  <1>7. CASE UNCHANGED vars
    BY <1>1, <1>7 DEF vars
  <1>8. CASE ApiDelete
    <2>1. \/ row'[e] = row[e]
          \/ row'[e] = StaleRow(row[e]) /\ row'[e].status = "stale"
      BY <1>8, DeleteEffect DEF OutboxInv
    <2>2. QED
      BY <1>0, <2>1, DerivedReasons DEF ReasonKept, Exists
  <1>9. QED
    BY <1>1, <1>2, <1>3, <1>4, <1>5, <1>6, <1>7, <1>8, ReasonsOfTask, ReasonsOfSweep
    DEF Next, ApiStep, OutboxInv

\* Where Tolerated holds, the dispatch sweep and the requests give up an
\* execution only when its budget of enqueue attempts is used.
THEOREM GivenUpAtBudget ==
    ASSUME Tolerated
    PROVE  Spec => []ExhaustedUsedBudget
  <1>1. Init => ExhaustedUsedBudget
    BY DEF Init, ExhaustedUsedBudget, AbsentRow
  <1>2. OutboxInv /\ ExhaustedUsedBudget /\ [Next]_vars => ExhaustedUsedBudget'
    <2> SUFFICES ASSUME OutboxInv, ExhaustedUsedBudget, [Next]_vars, NEW e \in Exec,
                        row'[e].reason = "exhausted"
                 PROVE  row'[e].attempt = MaxEnqueueAttempts
      BY DEF ExhaustedUsedBudget
    <2>1. ReasonKept(e)
      BY ReasonsOfStep
    <2>2. QED
      BY <2>1 DEF ReasonKept, ExhaustedUsedBudget
  <1>3. QED
    BY <1>1, <1>2, OutboxInit, OutboxStep, PTL DEF Spec

-----------------------------------------------------------------------------
(* Beyond Tolerated: cycles *)

\* A step of a task changes that task alone, which keeps its execution and the
\* cycle it loaded until it ends.
LEMMA TaskFrame ==
    ASSUME TypeInv, NEW w \in Worker, TaskStep(w) \/ TaskCrash(w)
    PROVE  /\ wk[w].pc # "idle" /\ UNCHANGED <<sw, api>>
           /\ \A v \in Worker : v # w => wk'[v] = wk[v]
           /\ wk'[w] # IdleTask => wk'[w].exec = wk[w].exec /\ wk'[w].seen = wk[w].seen
  <1>1. wk \in [Worker -> Task] /\ wk[w] \in Task
    BY Typed
  <1>2. UNCHANGED <<sw, api>> /\ wk[w].pc # "idle"
    BY DEF TaskStep, TaskClaim, TaskProcessing, TaskFence, AtFence, TaskSuperseded, TaskGate,
           TaskReadRow, TaskStale,
           TaskHandoff, TaskHandoffCommit, TaskFinal, TaskComplete, TaskAutoRecord,
           TaskAutoEnqueue, TaskAutoAck, TaskError, TaskFail, TaskReturn, TaskCrash
  <1>3. \A v \in Worker : v # w => wk'[v] = wk[v]
    BY <1>1
    DEF TaskStep, TaskClaim, TaskProcessing, TaskFence, TaskSuperseded, TaskGate, TaskHandoff,
        TaskReadRow, TaskStale, TaskHandoffCommit, TaskFinal, TaskComplete, TaskAutoRecord, TaskAutoEnqueue,
        TaskAutoAck, TaskError, TaskFail, TaskReturn, TaskCrash, EndTask
  <1>4. ASSUME \/ TaskStale(w) \/ TaskComplete(w) \/ TaskFail(w) \/ TaskReturn(w)
               \/ TaskHandoffCommit(w) \/ TaskCrash(w)
        PROVE  wk'[w] = IdleTask
    BY <1>1, <1>4 DEF TaskStale, TaskComplete, TaskFail, TaskReturn,
                      TaskHandoffCommit, TaskCrash, EndTask
  <1>5. ASSUME TaskClaim(w)
        PROVE  wk'[w] # IdleTask => wk'[w].exec = wk[w].exec /\ wk'[w].seen = wk[w].seen
    <2>1. \/ wk' = [wk EXCEPT ![w] = IdleTask]
          \/ wk' = [wk EXCEPT ![w].pc = "claimed"]
          \/ wk' = [wk EXCEPT ![w].pc = "claimed", ![w].claim = TRUE]
      BY <1>5 DEF TaskClaim, EndTask
    <2>2. CASE wk' = [wk EXCEPT ![w] = IdleTask]
      BY <1>1, <2>2
    <2>3. CASE \/ wk' = [wk EXCEPT ![w].pc = "claimed"]
               \/ wk' = [wk EXCEPT ![w].pc = "claimed", ![w].claim = TRUE]
      <3>1. wk'[w].exec = wk[w].exec /\ wk'[w].seen = wk[w].seen
        BY <1>1, <2>3 DEF Task
      <3>2. QED
        BY <3>1
    <2>4. QED
      BY <2>1, <2>2, <2>3
  <1>6. ASSUME \/ TaskProcessing(w) \/ TaskFence(w) \/ TaskGate(w) \/ TaskFinal(w)
               \/ TaskError(w) \/ TaskAutoRecord(w) \/ TaskAutoAck(w)
               \/ TaskSuperseded(w) \/ TaskReadRow(w)
        PROVE  wk'[w].exec = wk[w].exec /\ wk'[w].seen = wk[w].seen
    BY <1>1, <1>6 DEF TaskProcessing, TaskFence, TaskGate, TaskFinal, TaskError, TaskAutoRecord,
                      TaskAutoAck, TaskSuperseded, TaskReadRow, Task
  <1>7. ASSUME TaskHandoff(w) \/ TaskAutoEnqueue(w)
        PROVE  wk'[w].exec = wk[w].exec /\ wk'[w].seen = wk[w].seen
    <2>1. CASE TaskHandoff(w)
      <3>1. \E n, b : wk' = [wk EXCEPT ![w].pc = "handed", ![w].next = n,
                                       ![w].snap = row[n], ![w].ok = b]
        BY <2>1 DEF TaskHandoff
      <3>2. QED
        BY <1>1, <3>1 DEF Task
    <2>2. CASE TaskAutoEnqueue(w)
      <3>1. \E b : wk' = [wk EXCEPT ![w].pc = "acking", ![w].ok = b]
        BY <2>2 DEF TaskAutoEnqueue
      <3>2. QED
        BY <1>1, <3>1 DEF Task
    <2>3. QED
      BY <1>7, <2>1, <2>2
  <1>8. wk'[w] # IdleTask => wk'[w].exec = wk[w].exec /\ wk'[w].seen = wk[w].seen
    BY <1>4, <1>5, <1>6, <1>7 DEF TaskStep
  <1>9. QED
    BY <1>2, <1>3, <1>8

\* Only the commit of a request moves the source to another cycle.
LEMMA CyclesOfTasks ==
    ASSUME TypeInv, CyclesInv, NEW w \in Worker, TaskStep(w) \/ TaskCrash(w)
    PROVE  source'.gen = source.gen
  <1>1. wk[w].seen >= 1 /\ source.gen >= 1 /\ source.gen \in Nat /\ wk[w].seen \in Nat
    BY TaskFrame, Typed DEF CyclesInv, TasksSawCycle
  <1>2. source \in SourceState
    BY DEF TypeInv, TypeOK
  <1>3. CASE TaskHandoffCommit(w)
    BY <1>1, <1>2, <1>3 DEF TaskHandoffCommit, SourceState
  <1>4. CASE TaskAutoRecord(w)
    BY <1>1, <1>2, <1>4 DEF TaskAutoRecord, Cycle, SourceState
  <1>5. QED
    BY <1>2, <1>3, <1>4
    DEF TaskStep, TaskClaim, TaskProcessing, TaskFence, TaskSuperseded, TaskGate, TaskHandoff,
        TaskReadRow, TaskStale, TaskFinal, TaskComplete, TaskAutoEnqueue, TaskAutoAck, TaskError,
        TaskFail, TaskReturn, TaskCrash, SourceState

LEMMA CyclesStep ==
    ASSUME Serial, TypeInv, CyclesInv, [Next]_vars
    PROVE  CyclesInv' /\ source'.gen >= source.gen
  <1>0. /\ source.gen \in Nat /\ wk \in [Worker -> Task] /\ api \in [Api -> Request]
        /\ sw \in [Sweeper -> Sweep] /\ row \in [Exec -> Row]
        /\ job \in [Exec -> {"none", "queued", "running", "done"}]
        /\ source \in SourceState
    BY Typed DEF TypeInv, TypeOK
  <1>1. ASSUME NEW p \in Api, ApiCommit(p)
        PROVE  CyclesInv' /\ source'.gen >= source.gen
    <2> DEFINE e == api[p].exec
    <2>1. /\ e \in Exec /\ e[1] \in Nat /\ e[1] >= 1
          /\ IF api[p].bump THEN e[1] >= source.gen ELSE source.gen >= 1
      BY <1>1, Typed DEF ApiCommit, TypeInv, RequestNamed, CyclesInv, RequestsAhead
    <2>2. source'.gen = IF api[p].bump THEN e[1] ELSE source.gen
      BY <1>0, <1>1 DEF ApiCommit, SourceState
    <2>3. \A q \in Api : api'[q].pc = "idle"
      BY <1>0, <1>1 DEF ApiCommit, IdleRequest, Serial
    <2>4. UNCHANGED wk
      BY <1>1 DEF ApiCommit
    <2>5. source'.gen >= source.gen /\ source'.gen >= 1 /\ source'.gen \in Nat
      BY <1>0, <2>1, <2>2
    <2>6. TasksSawCycle'
      BY <1>0, <2>4, <2>5, Typed DEF CyclesInv, TasksSawCycle
    <2>7. QED
      BY <2>3, <2>5, <2>6 DEF CyclesInv, CycleBegins, RequestsAhead
  <1>2. ASSUME NEW w \in Worker, NEW e \in Exec, TaskStart(w, e)
        PROVE  source.gen >= 1
    <2>1. SUFFICES ASSUME source.gen = 0 PROVE FALSE
      BY <1>0
    <2>2. CommitPending(e)
      BY <1>2, <2>1 DEF TaskStart, CyclesInv, CycleBegins, CommitPending
    <2>3. QED
      BY <1>2, <2>2 DEF TaskStart, Serial
  <1>3. ASSUME NEW w \in Worker, NEW e \in Exec, TaskStart(w, e)
        PROVE  CyclesInv' /\ source'.gen >= source.gen
    <2>1. UNCHANGED <<source, row, sw, api>> /\ source.gen >= 1
      BY <1>2, <1>3 DEF TaskStart
    <2>2. \A v \in Worker : wk'[v] = wk[v] \/ wk'[v].seen = source.gen
      BY <1>0, <1>3 DEF TaskStart, IdleTask
    <2>3. QED
      BY <1>0, <2>1, <2>2 DEF CyclesInv, CycleBegins, TasksSawCycle, RequestsAhead
  <1>4. ASSUME NEW w \in Worker, TaskStep(w) \/ TaskCrash(w)
        PROVE  CyclesInv' /\ source'.gen >= source.gen
    <2>1. source'.gen = source.gen /\ source.gen >= 1
      BY <1>0, <1>4, CyclesOfTasks, TaskFrame DEF CyclesInv, CycleBegins
    <2>2. TasksSawCycle'
      BY <1>4, <2>1, TaskFrame DEF CyclesInv, TasksSawCycle, IdleTask
    <2>3. UNCHANGED api
      BY <1>4, TaskFrame
    <2>4. QED
      BY <1>0, <2>1, <2>2, <2>3 DEF CyclesInv, CycleBegins, RequestsAhead
  <1>5. ASSUME NEW p \in Api, ApiStep(p) \/ ApiAbort(p), ~ApiCommit(p)
        PROVE  CyclesInv' /\ source'.gen >= source.gen
    <2>1. UNCHANGED <<source, row, wk, sw>> /\ ~ApiAbort(p)
      BY <1>5 DEF ApiStep, ApiLoad, ApiRecord, ApiEnqueue, ApiAbort, CanFail, Serial
    <2>2. RequestsAhead'
      <3>1. \A q \in Api : q = p
        BY DEF Serial
      <3>2. CASE ApiLoad(p)
        <4>1. /\ api'[p].bump => api'[p].exec[1] >= source.gen
              /\ ~api'[p].bump => source.gen >= 1
          <5>1. PICK b \in BOOLEAN, x \in {source.gen + 1, Cycle(source.gen)},
                     t \in Stage \cup {Continuation[source.gate]},
                     u \in {"pending", "processing"} :
                   /\ api' = [api EXCEPT ![p] =
                                [IdleRequest EXCEPT !.pc = "loaded", !.exec = <<x, t>>,
                                                    !.bump = b, !.status = u]]
                   /\ source.gen < 1 => b
            <6>1. CASE source.status = "awaiting_approval" /\
                       api' = [api EXCEPT ![p] =
                         [IdleRequest EXCEPT
                            !.pc = "loaded", !.bump = source.gen < 1,
                            !.exec = <<Cycle(source.gen), Continuation[source.gate]>>,
                            !.status = "processing"]]
              <7>1. (source.gen < 1) \in BOOLEAN
                BY <1>0
              <7>2. \A b \in BOOLEAN : \A e, u :
                      [IdleRequest EXCEPT !.pc = "loaded", !.bump = b, !.exec = e, !.status = u]
                      = [IdleRequest EXCEPT !.pc = "loaded", !.exec = e, !.bump = b, !.status = u]
                BY DEF IdleRequest
              <7> DEFINE b == source.gen < 1
                         t == Continuation[source.gate]
              <7>3. api' = [api EXCEPT ![p] =
                      [IdleRequest EXCEPT !.pc = "loaded", !.exec = <<Cycle(source.gen), t>>,
                                          !.bump = b, !.status = "processing"]]
                BY <6>1, <7>1, <7>2, Zenon
              <7>4. Cycle(source.gen) \in {source.gen + 1, Cycle(source.gen)}
                OBVIOUS
              <7>5. source.gen < 1 => b
                OBVIOUS
              <7>6. t \in Stage \cup {Continuation[source.gate]} /\ "processing" \in {"pending", "processing"}
                OBVIOUS
              <7> HIDE DEF t
              <7>7. QED
                BY <7>1, <7>3, <7>4, <7>5, <7>6, Zenon
            <6>2. CASE \E t \in Stage :
                       api' = [api EXCEPT ![p] =
                         [IdleRequest EXCEPT
                            !.pc = "loaded", !.exec = <<source.gen + 1, t>>, !.bump = TRUE,
                            !.status = IF source.status = "ready"
                                       THEN "processing" ELSE "pending"]]
              <7>1. (IF source.status = "ready" THEN "processing" ELSE "pending")
                    \in {"pending", "processing"}
                OBVIOUS
              <7>2. QED
                BY <6>2, <7>1, Zenon
            <6>3. QED
              BY <3>2, <6>1, <6>2 DEF ApiLoad
          <5>2. api'[p].exec[1] = x /\ api'[p].bump = b
            BY <1>0, <5>1 DEF IdleRequest
          <5>3. x >= source.gen
            BY <1>0 DEF Cycle
          <5>4. QED
            BY <1>0, <5>1, <5>2, <5>3
        <4>2. QED
          BY <2>1, <3>1, <4>1 DEF RequestsAhead
      <3>3. CASE ApiRecord(p) \/ ApiEnqueue(p)
        <4>1. /\ api[p].pc # "idle" /\ api'[p].bump = api[p].bump
              /\ api'[p].exec = api[p].exec
          <5>1. CASE ApiRecord(p)
            BY <1>0, <5>1 DEF ApiRecord, Request
          <5>2. CASE ApiEnqueue(p)
            <6>1. api[p].pc # "idle" /\ \E b : api' = [api EXCEPT ![p].pc = "acked", ![p].ok = b]
              BY <5>2 DEF ApiEnqueue
            <6>2. QED
              BY <1>0, <6>1 DEF Request
          <5>3. QED
            BY <3>3, <5>1, <5>2
        <4>2. QED
          BY <2>1, <3>1, <4>1 DEF CyclesInv, RequestsAhead
      <3>4. QED
        BY <1>5, <2>1, <3>2, <3>3 DEF ApiStep
    <2>3. ASSUME source.gen = 0, NEW f \in Exec, job'[f] # "none"
          PROVE  \E q \in Api : api'[q].pc = "acked" /\ api'[q].exec = f
      <3>1. CASE ApiLoad(p) \/ ApiRecord(p)
        <4>1. UNCHANGED job /\ api[p].pc \in {"idle", "loaded"}
          BY <3>1 DEF ApiLoad, ApiRecord
        <4>2. PICK q \in Api : api[q].pc = "acked" /\ api[q].exec = f
          BY <2>3, <4>1 DEF CyclesInv, CycleBegins
        <4>3. QED
          BY <4>1, <4>2 DEF Serial
      <3>2. CASE ApiEnqueue(p)
        <4>1. /\ api[p].pc = "recorded"
              /\ \E b : api' = [api EXCEPT ![p].pc = "acked", ![p].ok = b]
              /\ job' = job \/ job' = Accepted(job, api[p].exec)
          BY <3>2 DEF ApiEnqueue, EnqueueJob, Enqueue, EnqueueRaises
        <4>2. api'[p].pc = "acked" /\ api'[p].exec = api[p].exec
          BY <1>0, <4>1 DEF Request
        <4>3. job[f] = "none"
          BY <2>3, <4>1 DEF CyclesInv, CycleBegins, Serial
        <4>4. f = api[p].exec
          BY <1>0, <2>3, <4>1, <4>3 DEF Accepted
        <4>5. QED
          BY <4>2, <4>4
      <3>3. QED
        BY <1>5, <2>1, <3>1, <3>2 DEF ApiStep
    <2>4. QED
      BY <1>0, <2>1, <2>2, <2>3 DEF CyclesInv, CycleBegins, TasksSawCycle, Exists
  <1>6. ASSUME NEW s \in Sweeper, SweepStep(s) \/ SweepCrash(s)
        PROVE  CyclesInv' /\ source'.gen >= source.gen
    <2>1. UNCHANGED <<source, wk, api>>
      BY <1>6 DEF SweepStep, SweepClaim, SweepEnqueue, SweepAck, SweepNack, SweepCrash
    <2>2. ASSUME source.gen = 0
          PROVE  /\ UNCHANGED job
                 /\ \A e \in Exec : row'[e].status = row[e].status
                 /\ \A t \in Sweeper : sw'[t].todo = {}
      <3>1. /\ \A e \in Exec : row[e].status = "absent"
            /\ \A t \in Sweeper : sw[t].todo = {}
        BY <2>2 DEF CyclesInv, CycleBegins, Exists
      <3>2. CASE SweepClaim(s)
        <4>1. \A e \in Exec : Reconciled(e) = row[e] /\ ~IsCurrent(e)
          BY <2>2, <3>1, Typed DEF Reconciled, IsCurrent, NonTerminal
        <4>2. \A e \in Exec : row'[e] = row[e]
          BY <3>2, <4>1 DEF SweepClaim
        <4>3. \A t \in Sweeper : sw'[t].todo = {}
          <5>1. {e \in Exec : IsCurrent(e) /\ Due([f \in Exec |-> Reconciled(f)][e])} = {}
            BY <4>1
          <5>2. sw' = [t \in Sweeper |->
                        IF t = s THEN [pc |-> "idle", todo |-> {}, own |-> {}, cur |-> NoExec]
                        ELSE [sw[t] EXCEPT !.own = @ \ {}]]
            BY <3>2, <5>1 DEF SweepClaim
          <5>3. QED
            BY <1>0, <3>1, <5>2 DEF Sweep
        <4>4. QED
          BY <3>2, <4>2, <4>3 DEF SweepClaim
      <3>3. ~SweepEnqueue(s)
        BY <3>1 DEF SweepEnqueue
      <3>4. CASE SweepAck(s) \/ SweepNack(s)
        <4>1. ~OwnsLease(s)
          BY <3>1, <3>4 DEF OwnsLease, SweepAck, SweepNack, TypeInv, SweepNamed
        <4>2. row' = row /\ UNCHANGED job /\ sw' = NextLease(s)
          BY <3>4, <4>1 DEF SweepAck, SweepNack
        <4>3. \A t \in Sweeper : sw'[t].todo = sw[t].todo
          BY <1>0, <4>2 DEF NextLease, Sweep
        <4>4. QED
          BY <3>1, <4>2, <4>3
      <3>5. CASE SweepCrash(s)
        BY <1>0, <3>1, <3>5 DEF SweepCrash, IdleSweep
      <3>6. QED
        BY <1>6, <3>2, <3>3, <3>4, <3>5 DEF SweepStep
    <2>3. QED
      BY <1>0, <2>1, <2>2 DEF CyclesInv, CycleBegins, TasksSawCycle, RequestsAhead, Exists
  <1>7. ASSUME NEW e \in Exec, \/ LeaseExpires(e) \/ RenewalStops(e)
                               \/ BackoffEnds(e) \/ ResultExpires(e)
        PROVE  CyclesInv' /\ source'.gen >= source.gen
    <2>1. UNCHANGED <<source, wk, sw, api>>
      BY <1>7 DEF LeaseExpires, RenewalStops, BackoffEnds, ResultExpires
    <2>2. \A f \in Exec : row'[f].status = row[f].status
      <3>1. \/ row' = row
            \/ row' = [row EXCEPT ![e].lease = "expired"]
            \/ row' = [row EXCEPT ![e].wait = FALSE]
        BY <1>7 DEF LeaseExpires, RenewalStops, BackoffEnds, ResultExpires
      <3>2. row[e] \in Row
        BY <1>0
      <3>3. QED
        BY <1>0, <3>1, <3>2 DEF Row
    <2>3. \A f \in Exec : job'[f] # "none" => job[f] # "none"
      BY <1>0, <1>7 DEF LeaseExpires, RenewalStops, BackoffEnds, ResultExpires
    <2>4. QED
      BY <1>0, <2>1, <2>2, <2>3 DEF CyclesInv, CycleBegins, TasksSawCycle, RequestsAhead, Exists
  <1>8. CASE ApiDelete \/ StuckSweep \/ UNCHANGED vars
    <2>1. UNCHANGED <<job, wk, sw, api>> /\ source'.gen = source.gen
      BY <1>0, <1>8 DEF ApiDelete, StuckSweep, vars, SourceState
    <2>2. \A e \in Exec : row[e].status = "absent" => row'[e] = row[e]
      BY <1>8, DeleteEffect DEF StuckSweep, vars, NonTerminal
    <2>3. QED
      BY <1>0, <2>1, <2>2 DEF CyclesInv, CycleBegins, TasksSawCycle, RequestsAhead, Exists
  <1>9. QED
    BY <1>1, <1>3, <1>4, <1>5, <1>6, <1>7, <1>8 DEF Next

LEMMA CyclesInit == Init => CyclesInv
  BY DEF Init, CyclesInv, CycleBegins, TasksSawCycle, RequestsAhead, Exists, AbsentRow,
         IdleTask, IdleSweep, IdleRequest

-----------------------------------------------------------------------------
(* Beyond Tolerated: continuations *)

LEMMA OutboxRowReason ==
    ASSUME NEW r \in Row, NEW ok \in BOOLEAN
    PROVE  OutboxRow(r, ok).reason \in {"none", "exhausted"}
  <1>1. \A q \in Row, b \in BOOLEAN :
          [ClosedRow(q, "failed", "exhausted") EXCEPT !.wait = b].reason = "exhausted"
    BY DEF ClosedRow, Row
  <1>2. [r EXCEPT !.attempt = Bumped(@)] \in Row /\ r.wait \in BOOLEAN
    BY BumpedType DEF Row
  <1>3. QED
    BY <1>1, <1>2, DerivedReasons DEF OutboxRow

\* A session that found no row, or finds the one it found again, leaves a row
\* behind, and never one it calls handed off.
LEMMA CommittedLeavesRow ==
    ASSUME NEW e, row[e] \in Row, NEW snap \in Row, NEW ok \in BOOLEAN,
           snap.status # "absent" => Exists(e)
    PROVE  /\ Committed(e, snap, ok).status # "absent"
           /\ Committed(e, snap, ok).reason = "handoff" => row[e].reason = "handoff"
  <1> DEFINE new == OutboxRow(Recorded(snap), ok)
  <1>1. new.status # "absent" /\ new.reason # "handoff"
    BY OutboxRowStatus, OutboxRowReason, DerivedRows
  <1> HIDE DEF new
  <1>2. /\ Flushed(row[e], snap, new).status # "absent"
        /\ Flushed(row[e], snap, new).reason = "handoff" => row[e].reason = "handoff"
    BY <1>1 DEF Flushed, Terminal, Exists
  <1>3. QED
    BY <1>2 DEF Committed, new

\* How the reason of a row may become "handoff" in one step.
HandoffKept(e) ==
    row'[e].reason = "handoff" =>
        \/ row[e].reason = "handoff"
        \/ \E w \in Worker :
              /\ wk[w].exec = e /\ wk[w].read = "owned"
              /\ \/ TaskHandoffCommit(w)
                 \/ TaskComplete(w) /\ e[2] \notin Gated /\ Continuation[e[2]] # NoStage

LEMMA RowsKeptByTask ==
    ASSUME TypeInv, SnapsHaveRows, NEW w \in Worker, TaskStep(w) \/ TaskCrash(w), NEW e \in Exec
    PROVE  HandoffKept(e) /\ (Exists(e) => Exists(e)')
  <1> DEFINE x == wk[w].exec
             n == wk[w].next
  <1>0. /\ row \in [Exec -> Row] /\ row[e] \in Row /\ wk[w] \in Task
        /\ x \in Exec /\ wk[w].snap \in Row /\ wk[w].ok \in BOOLEAN
    BY Typed, TaskFrame DEF TypeInv, TaskNamed, Task
  <1>1. CASE row'[e] = row[e]
    BY <1>1 DEF HandoffKept, Exists
  <1>2. CASE TaskClaim(w) /\ row' # row
    <2>1. row' = [row EXCEPT ![x] = [@ EXCEPT
                    !.status = "running", !.token = w, !.lease = "live",
                    !.wait = FALSE, !.reason = "none"]]
      BY <1>2 DEF TaskClaim
    <2>2. CASE e = x
      <3>1. row'[e].reason = "none" /\ row'[e].status = "running"
        BY <1>0, <2>1, <2>2 DEF Row
      <3>2. QED
        BY <3>1 DEF HandoffKept, Exists
    <2>3. CASE e # x
      BY <1>0, <1>1, <2>1, <2>3
    <2>4. QED
      BY <2>2, <2>3
  <1>3. ASSUME NEW st \in Terminal, NEW re,
               row'[e] = Marked(w, st, re)[e],
               re = "handoff" => \/ TaskHandoffCommit(w)
                                 \/ /\ TaskComplete(w) /\ x[2] \notin Gated
                                    /\ Continuation[x[2]] # NoStage
        PROVE  HandoffKept(e) /\ (Exists(e) => Exists(e)')
    <2>1. CASE e = x /\ wk[w].read = "owned"
      <3>1. row'[e] = ClosedRow(row[e], st, re)
        BY <1>0, <1>3, <2>1 DEF Marked
      <3>2. row'[e].reason = re /\ row'[e].status = st
        BY <1>0, <3>1 DEF ClosedRow, Row
      <3>3. QED
        BY <1>3, <2>1, <3>2 DEF HandoffKept, Exists, Terminal
    <2>2. CASE ~(e = x /\ wk[w].read = "owned")
      BY <1>0, <1>1, <1>3, <2>2 DEF Marked
    <2>3. QED
      BY <2>1, <2>2
  <1>4. CASE TaskStale(w)
    BY <1>3, <1>4 DEF TaskStale, Terminal
  <1>5. CASE TaskFail(w)
    BY <1>3, <1>5 DEF TaskFail, Terminal
  <1>6. CASE TaskComplete(w)
    <2> DEFINE re == IF x[2] \in Gated THEN "gate"
                     ELSE IF Continuation[x[2]] = NoStage THEN "done" ELSE "handoff"
    <2>1. row' = Marked(w, "completed", re)
      BY <1>6 DEF TaskComplete
    <2>2. /\ re = "handoff" => x[2] \notin Gated /\ Continuation[x[2]] # NoStage
          /\ "completed" \in Terminal
      BY DEF Terminal
    <2> HIDE DEF re
    <2>3. QED
      BY <1>3, <1>6, <2>1, <2>2
  <1>7. ASSUME n \in Exec, row'[n] = Committed(n, wk[w].snap, wk[w].ok), e = n,
               wk[w].snap.status # "absent" => Exists(n)
        PROVE  HandoffKept(e) /\ (Exists(e) => Exists(e)')
    BY <1>0, <1>7, CommittedLeavesRow DEF HandoffKept, Exists
  <1>8. CASE TaskHandoffCommit(w)
    <2>1. /\ n \in Exec /\ wk[w].pc = "handed"
          /\ wk[w].snap.status # "absent" => Exists(n)
      BY <1>8 DEF TaskHandoffCommit, TypeInv, TaskNamed, SnapsHaveRows
    <2>2. Marked(w, "completed", "handoff") \in [Exec -> Row]
      <3>1. "completed" \in Terminal /\ "handoff" \in Reasons
        BY DEF Terminal, Reasons
      <3>2. QED
        BY <2>1, <3>1, MarkedType
    <2>3. /\ row'[n] = Committed(n, wk[w].snap, wk[w].ok)
          /\ e # n => row'[e] = Marked(w, "completed", "handoff")[e]
      BY <1>8, <2>1, <2>2 DEF TaskHandoffCommit
    <2>4. QED
      BY <1>3, <1>7, <1>8, <2>1, <2>3 DEF Terminal
  <1>9. CASE TaskAutoAck(w)
    <2>1. /\ n \in Exec /\ Exists(n)
      BY <1>9 DEF TaskAutoAck, SnapsHaveRows
    <2>2. /\ row'[n] = Committed(n, wk[w].snap, wk[w].ok)
          /\ e # n => row'[e] = row[e]
      BY <1>0, <1>9, <2>1 DEF TaskAutoAck
    <2>3. QED
      BY <1>1, <1>7, <2>1, <2>2
  <1>10. CASE TaskAutoRecord(w)
    <2>1. row'[e] = row[e] \/ row'[e] = Recorded(row[e])
      BY <1>0, <1>10 DEF TaskAutoRecord
    <2>2. Recorded(row[e]) = row[e] \/ Recorded(row[e]) = FreshRow
      BY DEF Recorded
    <2>3. FreshRow.reason = "none" /\ FreshRow.status = "pending"
      BY DEF FreshRow, AbsentRow
    <2>4. QED
      BY <1>1, <2>1, <2>2, <2>3 DEF HandoffKept, Exists
  <1>11. QED
    BY <1>1, <1>2, <1>4, <1>5, <1>6, <1>8, <1>9, <1>10
    DEF TaskStep, TaskProcessing, TaskFence, TaskGate, TaskFinal, TaskError, TaskHandoff,
        TaskReturn, TaskCrash, TaskAutoEnqueue, TaskSuperseded, TaskReadRow

\* No step takes a row away, and only a task that owns its row calls it handed
\* off.
LEMMA RowsKeptByStep ==
    ASSUME TypeInv, SnapsHaveRows, [Next]_vars, NEW e \in Exec
    PROVE  HandoffKept(e) /\ (Exists(e) => Exists(e)')
  <1>0. row \in [Exec -> Row] /\ row[e] \in Row
    BY Typed
  <1>1. CASE UNCHANGED row
    BY <1>1 DEF HandoffKept, Exists
  <1>2. ASSUME NEW p \in Api, ApiCommit(p)
        PROVE  HandoffKept(e) /\ (Exists(e) => Exists(e)')
    <2> DEFINE x == api[p].exec
    <2>1. /\ x \in Exec /\ api[p].snap \in Row /\ api[p].ok \in BOOLEAN
          /\ api[p].snap.status # "absent" => Exists(x)
      BY <1>2, Typed DEF ApiCommit, TypeInv, RequestNamed, Request, SnapsHaveRows
    <2>2. /\ row'[x] = Committed(x, api[p].snap, api[p].ok)
          /\ e # x => row'[e] = row[e]
      BY <1>0, <1>2, <2>1 DEF ApiCommit
    <2>3. QED
      BY <1>0, <2>1, <2>2, CommittedLeavesRow DEF HandoffKept, Exists
  <1>3. ASSUME NEW f \in Exec, LeaseExpires(f) \/ RenewalStops(f) \/ BackoffEnds(f)
        PROVE  HandoffKept(e) /\ (Exists(e) => Exists(e)')
    <2>1. row' = [row EXCEPT ![f].lease = "expired"] \/ row' = [row EXCEPT ![f].wait = FALSE]
      BY <1>3 DEF LeaseExpires, RenewalStops, BackoffEnds
    <2>2. row[f] \in Row
      BY <1>0
    <2>3. row'[e].reason = row[e].reason /\ row'[e].status = row[e].status
      BY <1>0, <2>1, <2>2 DEF Row
    <2>4. QED
      BY <2>3 DEF HandoffKept, Exists
  <1>4. ASSUME NEW p \in Api, ApiLoad(p) \/ ApiRecord(p) \/ ApiEnqueue(p) \/ ApiAbort(p)
        PROVE  UNCHANGED row
    BY <1>4 DEF ApiLoad, ApiRecord, ApiEnqueue, ApiAbort
  <1>5. CASE StuckSweep \/ \E w \in Worker, f \in Exec : TaskStart(w, f)
    BY <1>1, <1>5 DEF StuckSweep, TaskStart
  <1>a. CASE ApiDelete
    <2>1. \/ row'[e] = row[e]
          \/ row'[e] = StaleRow(row[e]) /\ row'[e].status = "stale"
      BY <1>a, DeleteEffect
    <2>2. QED
      BY <1>0, <2>1, DerivedReasons DEF HandoffKept, Exists
  <1>6. CASE (\E f \in Exec : ResultExpires(f)) \/ UNCHANGED vars
    BY <1>1, <1>6 DEF ResultExpires, vars
  <1>7. ASSUME NEW s \in Sweeper, SweepStep(s) \/ SweepCrash(s)
        PROVE  HandoffKept(e) /\ (Exists(e) => Exists(e)')
    BY <1>7, ReasonsOfSweep DEF HandoffKept
  <1>8. QED
    BY <1>1, <1>2, <1>3, <1>4, <1>5, <1>6, <1>7, <1>a, RowsKeptByTask DEF Next, ApiStep

\* The ways of a task, by where they lead.
LEMMA TaskWays ==
    ASSUME TypeInv, NEW v \in Worker, TaskStep(v)
    PROVE  \/ /\ TaskHandoff(v) /\ wk'[v].pc = "handed" /\ wk'[v].claim = wk[v].claim
              /\ wk'[v].next = <<Cycle(wk[v].seen), Continuation[wk[v].exec[2]]>>
              /\ wk'[v].snap = row[wk'[v].next]
           \/ /\ TaskAutoRecord(v) /\ wk'[v].pc = "recorded" /\ wk'[v].claim = wk[v].claim
              /\ wk'[v].next = <<Cycle(source.gen), Continuation[wk[v].exec[2]]>>
           \/ /\ wk[v].pc \in {"recorded", "acking"} /\ wk'[v].pc \in {"acking", "triggered"}
              /\ wk'[v].claim = wk[v].claim /\ wk'[v].next = wk[v].next
           \/ /\ TaskReadRow(v) /\ wk'[v].pc = wk[v].pc /\ wk'[v].claim = wk[v].claim
              /\ wk'[v].next = wk[v].next /\ wk'[v].snap = wk[v].snap
              /\ wk[v].pc \in {"handed", "effect", "failing", "superseded"}
           \/ /\ wk'[v].pc = "effect" /\ wk'[v].claim = wk[v].claim
              /\ \/ wk[v].exec[2] \in Gated
                 \/ Continuation[wk[v].exec[2]] = NoStage
                 \/ wk[v].pc = "triggered" /\ FencePasses(v)
           \/ /\ wk'[v].pc \in {"idle", "claimed", "work", "fenced", "failing", "superseded"}
              /\ wk'[v].claim => wk[v].claim \/ TaskClaim(v)
  <1>0. wk \in [Worker -> Task] /\ wk[v] \in Task
    BY Typed
  <1>1. CASE TaskHandoff(v)
    <2> DEFINE n == <<Cycle(wk[v].seen), Continuation[wk[v].exec[2]]>>
    <2>1. \E b : wk' = [wk EXCEPT ![v].pc = "handed", ![v].next = n,
                                  ![v].snap = row[n], ![v].ok = b]
      BY <1>1 DEF TaskHandoff
    <2> HIDE DEF n
    <2>2. /\ wk'[v].pc = "handed" /\ wk'[v].claim = wk[v].claim
          /\ wk'[v].next = n /\ wk'[v].snap = row[n]
      BY <1>0, <2>1 DEF Task
    <2>3. QED
      BY <1>1, <2>2 DEF n
  <1>2. CASE TaskAutoRecord(v)
    <2> DEFINE n == <<Cycle(source.gen), Continuation[wk[v].exec[2]]>>
    <2>1. wk' = [wk EXCEPT ![v].pc = "recorded", ![v].next = n,
                           ![v].snap = Recorded(row[n])]
      BY <1>2 DEF TaskAutoRecord
    <2> HIDE DEF n
    <2>2. wk'[v].pc = "recorded" /\ wk'[v].claim = wk[v].claim /\ wk'[v].next = n
      BY <1>0, <2>1 DEF Task
    <2>3. QED
      BY <1>2, <2>2 DEF n
  <1>3. CASE TaskAutoEnqueue(v)
    <2>1. /\ wk[v].pc = "recorded"
          /\ \E b : wk' = [wk EXCEPT ![v].pc = "acking", ![v].ok = b]
      BY <1>3 DEF TaskAutoEnqueue
    <2>2. wk'[v].pc = "acking" /\ wk'[v].claim = wk[v].claim /\ wk'[v].next = wk[v].next
      BY <1>0, <2>1 DEF Task
    <2>3. QED
      BY <2>1, <2>2
  <1>4. CASE TaskAutoAck(v)
    <2>1. wk[v].pc = "acking" /\ wk' = [wk EXCEPT ![v].pc = "triggered"]
      BY <1>4 DEF TaskAutoAck
    <2>2. wk'[v].pc = "triggered" /\ wk'[v].claim = wk[v].claim /\ wk'[v].next = wk[v].next
      BY <1>0, <2>1 DEF Task
    <2>3. QED
      BY <2>1, <2>2
  <1>5. CASE TaskGate(v) \/ TaskFinal(v)
    <2>1. /\ wk' = [wk EXCEPT ![v].pc = "effect"]
          /\ wk[v].exec[2] \in Gated \/ Continuation[wk[v].exec[2]] = NoStage
      BY <1>5 DEF TaskGate, TaskFinal
    <2>2. wk'[v].pc = "effect" /\ wk'[v].claim = wk[v].claim
      BY <1>0, <2>1 DEF Task
    <2>3. QED
      BY <2>1, <2>2
  <1>6. CASE TaskFence(v)
    <2>1. /\ FencePasses(v) /\ wk'[v].claim = wk[v].claim
          /\ wk'[v].pc = IF wk[v].pc = "triggered" THEN "effect" ELSE "fenced"
      BY <1>0, <1>6 DEF TaskFence, Task
    <2>2. QED
      BY <2>1
  <1>7. CASE TaskProcessing(v) \/ TaskError(v) \/ TaskSuperseded(v)
    <2>1. \/ wk' = [wk EXCEPT ![v].pc = "work"]
          \/ wk' = [wk EXCEPT ![v].pc = "failing", ![v].read = "none"]
          \/ wk' = [wk EXCEPT ![v].pc = "superseded"]
      BY <1>7 DEF TaskProcessing, TaskError, TaskSuperseded
    <2>2. wk'[v].pc \in {"work", "failing", "superseded"} /\ wk'[v].claim = wk[v].claim
      BY <1>0, <2>1 DEF Task
    <2>3. QED
      BY <2>2
  <1>8. CASE TaskClaim(v)
    <2>1. \/ wk' = [wk EXCEPT ![v] = IdleTask]
          \/ wk' = [wk EXCEPT ![v].pc = "claimed"]
          \/ wk' = [wk EXCEPT ![v].pc = "claimed", ![v].claim = TRUE]
      BY <1>8 DEF TaskClaim, EndTask
    <2>2. wk'[v].pc \in {"idle", "claimed"}
      <3>1. CASE wk' = [wk EXCEPT ![v] = IdleTask]
        BY <1>0, <3>1 DEF IdleTask
      <3>2. CASE \/ wk' = [wk EXCEPT ![v].pc = "claimed"]
                 \/ wk' = [wk EXCEPT ![v].pc = "claimed", ![v].claim = TRUE]
        BY <1>0, <3>2 DEF Task
      <3>3. QED
        BY <2>1, <3>1, <3>2
    <2>3. QED
      BY <1>8, <2>2
  <1>9. CASE TaskStale(v) \/ TaskComplete(v) \/ TaskFail(v) \/ TaskReturn(v)
             \/ TaskHandoffCommit(v)
    <2>1. wk'[v] = IdleTask
      BY <1>0, <1>9 DEF TaskStale, TaskComplete, TaskFail, TaskReturn,
                        TaskHandoffCommit, EndTask
    <2>2. QED
      BY <2>1 DEF IdleTask
  <1>10. CASE TaskReadRow(v)
    <2>1. /\ \E d : wk' = [wk EXCEPT ![v].read = d]
          /\ wk[v].pc \in {"handed", "effect", "failing", "superseded"}
      BY <1>10 DEF TaskReadRow
    <2>2. /\ wk'[v].pc = wk[v].pc /\ wk'[v].claim = wk[v].claim
          /\ wk'[v].next = wk[v].next /\ wk'[v].snap = wk[v].snap
      BY <1>0, <2>1 DEF Task
    <2>3. QED
      BY <1>10, <2>1, <2>2
  <1>11. QED
    BY <1>1, <1>2, <1>3, <1>4, <1>5, <1>6, <1>7, <1>8, <1>9, <1>10 DEF TaskStep

\* Every other step leaves a task alone, ends it, or starts one.
LEMMA OtherWays ==
    ASSUME TypeInv, [Next]_vars, NEW v \in Worker
    PROVE  \/ wk'[v] = wk[v]
           \/ TaskStep(v)
           \/ wk'[v].pc \in {"idle", "started"} /\ wk'[v].claim = FALSE
  <1>0. wk \in [Worker -> Task]
    BY Typed
  <1>1. ASSUME NEW w \in Worker, TaskStep(w) \/ TaskCrash(w), w # v PROVE wk'[v] = wk[v]
    BY <1>1, TaskFrame
  <1>2. ASSUME TaskCrash(v) PROVE wk'[v].pc = "idle" /\ wk'[v].claim = FALSE
    BY <1>0, <1>2 DEF TaskCrash, IdleTask
  <1>3. ASSUME NEW w \in Worker, NEW e \in Exec, TaskStart(w, e)
        PROVE  wk'[v] = wk[v] \/ (wk'[v].pc = "started" /\ wk'[v].claim = FALSE)
    BY <1>0, <1>3 DEF TaskStart, IdleTask
  <1>4. ASSUME NEW p \in Api, ApiStep(p) \/ ApiAbort(p) PROVE UNCHANGED wk
    BY <1>4 DEF ApiStep, ApiLoad, ApiRecord, ApiEnqueue, ApiCommit, ApiAbort
  <1>5. ASSUME NEW s \in Sweeper, SweepStep(s) \/ SweepCrash(s) PROVE UNCHANGED wk
    BY <1>5 DEF SweepStep, SweepClaim, SweepEnqueue, SweepAck, SweepNack, SweepCrash
  <1>6. ASSUME \/ ApiDelete \/ StuckSweep \/ UNCHANGED vars
               \/ \E e \in Exec : \/ LeaseExpires(e) \/ RenewalStops(e)
                                  \/ BackoffEnds(e) \/ ResultExpires(e)
        PROVE  UNCHANGED wk
    BY <1>6 DEF ApiDelete, StuckSweep, vars, LeaseExpires, RenewalStops, BackoffEnds,
                ResultExpires
  <1>7. QED
    BY <1>1, <1>2, <1>3, <1>4, <1>5, <1>6 DEF Next

\* What the sessions of requests and tasks have found is still there.
LEMMA SnapsStep ==
    ASSUME TypeInv, TypeInv', SnapsHaveRows, [Next]_vars
    PROVE  SnapsHaveRows'
  <1>0. wk \in [Worker -> Task] /\ api \in [Api -> Request] /\ row \in [Exec -> Row]
    BY Typed
  <1>1. \A e \in Exec : Exists(e) => Exists(e)'
    BY RowsKeptByStep
  <1>2. ASSUME NEW p \in Api, api'[p].pc \in {"recorded", "acked"},
               api'[p].snap.status # "absent"
        PROVE  Exists(api[p].exec)' /\ api'[p].exec = api[p].exec
    <2>1. CASE api'[p] = api[p]
      BY <1>1, <1>2, <2>1 DEF SnapsHaveRows, TypeInv, RequestNamed
    <2>2. CASE ApiRecord(p)
      <3>1. /\ api'[p].exec = api[p].exec /\ api'[p].snap = row[api[p].exec]
            /\ api[p].exec \in Exec
        BY <1>0, <2>2 DEF ApiRecord, Request, TypeInv, RequestNamed
      <3>2. QED
        BY <1>1, <1>2, <3>1 DEF Exists
    <2>3. CASE ApiEnqueue(p)
      <3>1. /\ api[p].pc = "recorded"
            /\ \E b : api' = [api EXCEPT ![p].pc = "acked", ![p].ok = b]
        BY <2>3 DEF ApiEnqueue
      <3>2. api'[p].exec = api[p].exec /\ api'[p].snap = api[p].snap /\ api[p].exec \in Exec
        BY <1>0, <3>1 DEF Request, TypeInv, RequestNamed
      <3>3. QED
        BY <1>1, <1>2, <3>1, <3>2 DEF SnapsHaveRows
    <2>4. ASSUME ApiLoad(p) \/ ApiCommit(p) \/ ApiAbort(p) PROVE FALSE
      <3>1. CASE ApiLoad(p)
        <4>1. api'[p].pc = "loaded"
          <5>1. \/ \E a, c : api' = [api EXCEPT ![p] =
                   [IdleRequest EXCEPT !.pc = "loaded", !.exec = a, !.bump = TRUE, !.status = c]]
                \/ \E a, b, c : api' = [api EXCEPT ![p] =
                   [IdleRequest EXCEPT !.pc = "loaded", !.bump = b, !.exec = a, !.status = c]]
            <6>1. CASE \E t \in Stage :
                       api' = [api EXCEPT ![p] =
                         [IdleRequest EXCEPT
                            !.pc = "loaded", !.exec = <<source.gen + 1, t>>, !.bump = TRUE,
                            !.status = IF source.status = "ready"
                                       THEN "processing" ELSE "pending"]]
              BY <6>1, Zenon
            <6>2. CASE api' = [api EXCEPT ![p] =
                         [IdleRequest EXCEPT
                            !.pc = "loaded", !.bump = source.gen < 1,
                            !.exec = <<Cycle(source.gen), Continuation[source.gate]>>,
                            !.status = "processing"]]
              BY <6>2, Zenon
            <6>3. QED
              BY <3>1, <6>1, <6>2 DEF ApiLoad
          <5>2. QED
            BY <1>0, <5>1 DEF IdleRequest
        <4>2. QED
          BY <1>2, <4>1
      <3>2. CASE ApiCommit(p) \/ ApiAbort(p)
        BY <1>0, <1>2, <3>2 DEF ApiCommit, ApiAbort, IdleRequest
      <3>3. QED
        BY <2>4, <3>1, <3>2
    <2>5. ASSUME NEW q \in Api, ApiStep(q) \/ ApiAbort(q), q # p PROVE api'[p] = api[p]
      BY <1>0, <2>5 DEF ApiStep, ApiLoad, ApiRecord, ApiEnqueue, ApiCommit, ApiAbort
    <2>6. ASSUME NEW w \in Worker, TaskStep(w) \/ TaskCrash(w) PROVE api'[p] = api[p]
      BY <2>6, TaskFrame
    <2>7. ASSUME NEW s \in Sweeper, SweepStep(s) \/ SweepCrash(s) PROVE api'[p] = api[p]
      BY <2>7 DEF SweepStep, SweepClaim, SweepEnqueue, SweepAck, SweepNack, SweepCrash
    <2>8. ASSUME \/ ApiDelete \/ StuckSweep \/ UNCHANGED vars
                 \/ \E w \in Worker, e \in Exec : TaskStart(w, e)
                 \/ \E e \in Exec : \/ LeaseExpires(e) \/ RenewalStops(e)
                                    \/ BackoffEnds(e) \/ ResultExpires(e)
          PROVE  api'[p] = api[p]
      BY <2>8 DEF ApiDelete, StuckSweep, vars, TaskStart, LeaseExpires, RenewalStops,
                  BackoffEnds, ResultExpires
    <2>9. QED
      BY <2>1, <2>2, <2>3, <2>4, <2>5, <2>6, <2>7, <2>8 DEF Next, ApiStep
  <1>3. ASSUME NEW v \in Worker
        PROVE  /\ wk'[v].pc = "handed" /\ wk'[v].snap.status # "absent" => Exists(wk[v].next)'
               /\ wk'[v].pc \in {"recorded", "acking", "triggered"} =>
                     wk'[v].next \in Exec /\ Exists(wk[v].next)'
    <2> DEFINE Goal == /\ wk'[v].pc = "handed" /\ wk'[v].snap.status # "absent"
                             => row'[wk'[v].next].status # "absent"
                       /\ wk'[v].pc \in {"recorded", "acking", "triggered"} =>
                             wk'[v].next \in Exec /\ row'[wk'[v].next].status # "absent"
    <2>1. CASE wk'[v] = wk[v]
      <3>1. wk[v].pc = "handed" => wk[v].next \in Exec
        BY DEF TypeInv, TaskNamed
      <3>2. Goal
        BY <1>1, <2>1, <3>1 DEF SnapsHaveRows, Exists
      <3>3. QED
        BY <3>2 DEF Exists
    <2>2. CASE wk'[v].pc \notin {"handed", "recorded", "acking", "triggered"}
      BY <2>2
    <2>3. CASE TaskStep(v) /\ wk'[v].pc = "handed"
      <3>1. \/ wk'[v].snap = row[wk'[v].next]
            \/ wk[v].pc = "handed" /\ wk'[v].snap = wk[v].snap /\ wk'[v].next = wk[v].next
        BY <2>3, TaskWays
      <3>2. wk'[v].next \in Exec
        BY <2>3 DEF TypeInv, TaskNamed
      <3>3. QED
        BY <1>1, <2>3, <3>1, <3>2 DEF Exists, SnapsHaveRows
    <2>4. CASE TaskStep(v) /\ wk'[v].pc = "recorded"
      <3>1. wk'[v].next \in Exec /\ TaskAutoRecord(v)
        BY <2>4, TaskWays DEF TypeInv, TaskNamed
      <3>2. wk'[v].next = <<Cycle(source.gen), Continuation[wk[v].exec[2]]>>
        BY <2>4, TaskWays
      <3>3. row'[wk'[v].next] = Recorded(row[wk'[v].next])
        BY <1>0, <3>1, <3>2 DEF TaskAutoRecord
      <3>4. \A r \in Row : Recorded(r).status # "absent"
        BY DEF Recorded, FreshRow, AbsentRow
      <3>5. QED
        BY <1>0, <2>4, <3>1, <3>3, <3>4 DEF Exists
    <2>5. CASE TaskStep(v) /\ wk'[v].pc \in {"acking", "triggered"}
      <3>1. wk[v].pc \in {"recorded", "acking"} /\ wk'[v].next = wk[v].next
        BY <2>5, TaskWays
      <3>2. QED
        BY <1>1, <2>5, <3>1 DEF SnapsHaveRows, Exists
    <2>6. QED
      BY <2>1, <2>2, <2>3, <2>4, <2>5, OtherWays
  <1>4. QED
    BY <1>2, <1>3 DEF SnapsHaveRows

\* What a step of a task, or of anyone else, means for the continuations.
LEMMA ContinuationStep ==
    ASSUME TypeInv, TypeInv', ContinuationInv, [Next]_vars,
           AutoTriggered = {} \/ (CyclesInv /\ source'.gen >= source.gen)
    PROVE  ContinuationInv'
  <1>0. /\ wk \in [Worker -> Task] /\ row \in [Exec -> Row] /\ source.gen \in Nat
        /\ source \in SourceState
    <2>1. wk \in [Worker -> Task] /\ row \in [Exec -> Row] /\ source.gen \in Nat
      BY Typed
    <2>2. source \in SourceState
      BY DEF TypeInv, TypeOK
    <2>3. QED
      BY <2>1, <2>2
  <1>1. \A e \in Exec : HandoffKept(e) /\ (Exists(e) => Exists(e)')
    BY RowsKeptByStep DEF ContinuationInv
  <1>2. SnapsHaveRows'
    BY SnapsStep DEF ContinuationInv
  <1>3. ASSUME NEW v \in Worker, TaskStep(v), wk'[v] # IdleTask
        PROVE  wk'[v].exec = wk[v].exec /\ wk'[v].seen = wk[v].seen /\ wk[v].exec \in Exec
    BY <1>3, TaskFrame DEF TypeInv, TaskNamed
  <1>4. ASSUME NEW v \in Worker, wk'[v].claim PROVE wk'[v].seen = wk'[v].exec[1]
    <2>1. CASE wk'[v] = wk[v]
      BY <1>4, <2>1 DEF ContinuationInv, ClaimsAreOfCycle
    <2>2. CASE TaskStep(v)
      <3>1. wk'[v] # IdleTask
        BY <1>4 DEF IdleTask
      <3>2. CASE wk[v].claim
        BY <1>3, <2>2, <3>1, <3>2 DEF ContinuationInv, ClaimsAreOfCycle
      <3>3. CASE TaskClaim(v) /\ ~wk[v].claim
        <4>1. wk[v].exec = <<wk[v].seen, ClaimsAs[wk[v].exec[2]]>>
          <5>1. wk' # [wk EXCEPT ![v] = IdleTask] /\ wk' # [wk EXCEPT ![v].pc = "claimed"]
            BY <1>0, <1>4, <3>1, <3>3 DEF Task
          <5>2. QED
            BY <3>3, <5>1 DEF TaskClaim, EndTask
        <4>2. QED
          BY <1>3, <2>2, <3>1, <4>1
      <3>4. QED
        BY <1>4, <2>2, <3>2, <3>3, TaskWays
    <2>3. QED
      BY <1>4, <2>1, <2>2, OtherWays
  <1>5. ASSUME NEW v \in Worker
        PROVE  /\ wk'[v].pc = "handed" =>
                     wk'[v].next = <<Cycle(wk'[v].seen), Continuation[wk'[v].exec[2]]>>
               /\ wk'[v].pc \in {"recorded", "acking", "triggered"} =>
                     /\ wk'[v].exec[2] \in AutoTriggered
                     /\ wk'[v].next[2] = Continuation[wk'[v].exec[2]]
                     /\ wk'[v].seen <= wk'[v].next[1] /\ wk'[v].next[1] <= source'.gen
    <2>0. wk[v].seen \in Nat /\ source'.gen \in Nat
      BY Typed DEF TypeInv, TypeOK, SourceState
    <2>1. CASE wk'[v] = wk[v]
      <3>1. wk[v].pc \in {"recorded", "acking", "triggered"} =>
              wk[v].next[1] \in Nat /\ source'.gen >= source.gen
        BY <1>0, Typed DEF ContinuationInv, SnapsHaveRows, HandoffsContinue
      <3>2. QED
        BY <1>0, <2>0, <2>1, <3>1 DEF ContinuationInv, HandoffsContinue
    <2>2. CASE wk'[v].pc \notin {"handed", "recorded", "acking", "triggered"}
      BY <2>2
    <2>3. CASE TaskStep(v) /\ wk'[v].pc = "handed"
      <3>1. wk'[v].exec = wk[v].exec /\ wk'[v].seen = wk[v].seen
        BY <1>3, <2>3 DEF IdleTask
      <3>2. \/ wk'[v].next = <<Cycle(wk[v].seen), Continuation[wk[v].exec[2]]>>
            \/ wk[v].pc = "handed" /\ wk'[v].next = wk[v].next
        BY <2>3, TaskWays
      <3>3. QED
        BY <2>3, <3>1, <3>2 DEF ContinuationInv, HandoffsContinue
    <2>4. CASE TaskStep(v) /\ wk'[v].pc = "recorded"
      <3>1. /\ TaskAutoRecord(v) /\ wk[v].exec[2] \in AutoTriggered /\ wk[v].pc # "idle"
            /\ wk'[v].next = <<Cycle(source.gen), Continuation[wk[v].exec[2]]>>
            /\ wk'[v].exec = wk[v].exec /\ wk'[v].seen = wk[v].seen
        <4>1. /\ TaskAutoRecord(v) /\ wk'[v] # IdleTask
              /\ wk'[v].next = <<Cycle(source.gen), Continuation[wk[v].exec[2]]>>
          BY <2>4, TaskWays DEF IdleTask
        <4>2. QED
          BY <1>3, <2>4, <4>1 DEF TaskAutoRecord
      <3>2. source'.gen = Cycle(source.gen)
        BY <1>0, <3>1 DEF TaskAutoRecord, SourceState
      <3>3. wk[v].seen <= source.gen
        BY <3>1 DEF CyclesInv, TasksSawCycle
      <3>4. QED
        BY <1>0, <2>0, <2>4, <3>1, <3>2, <3>3 DEF Cycle
    <2>5. CASE TaskStep(v) /\ wk'[v].pc \in {"acking", "triggered"}
      <3>1. /\ wk[v].pc \in {"recorded", "acking"} /\ wk'[v].next = wk[v].next
            /\ wk'[v].exec = wk[v].exec /\ wk'[v].seen = wk[v].seen
        BY <1>3, <2>5, TaskWays DEF IdleTask
      <3>2. /\ wk[v].exec[2] \in AutoTriggered /\ wk[v].next[1] \in Nat
            /\ wk[v].next[2] = Continuation[wk[v].exec[2]]
            /\ wk[v].seen <= wk[v].next[1] /\ wk[v].next[1] <= source.gen
        BY <3>1, Typed DEF ContinuationInv, HandoffsContinue, SnapsHaveRows
      <3>3. source'.gen >= source.gen
        BY <3>2
      <3>4. QED
        BY <1>0, <2>0, <2>5, <3>1, <3>2, <3>3
    <2>6. QED
      BY <2>1, <2>2, <2>3, <2>4, <2>5, OtherWays
  <1>6. ASSUME NEW v \in Worker, wk'[v].pc = "effect"
        PROVE  \/ wk'[v].exec[2] \in Gated \/ Continuation[wk'[v].exec[2]] = NoStage
               \/ /\ wk'[v].exec[2] \in AutoTriggered
                  /\ wk'[v].claim =>
                        row'[<<wk'[v].exec[1], Continuation[wk'[v].exec[2]]>>].status # "absent"
    <2> DEFINE n == <<wk[v].exec[1], Continuation[wk[v].exec[2]]>>
    <2>1. /\ wk'[v].exec = wk[v].exec /\ wk[v].exec \in Exec
          /\ wk'[v].claim = wk[v].claim
      <3>1. CASE wk'[v] = wk[v]
        BY <1>6, <3>1 DEF TypeInv, TaskNamed
      <3>2. CASE TaskStep(v)
        BY <1>3, <1>6, <3>2, TaskWays DEF IdleTask
      <3>3. QED
        BY <1>6, <3>1, <3>2, OtherWays
    <2>2. SUFFICES ASSUME wk[v].exec[2] \notin Gated, Continuation[wk[v].exec[2]] # NoStage
                   PROVE  wk[v].exec[2] \in AutoTriggered /\ (wk[v].claim => row'[n].status # "absent")
      BY <2>1 DEF Exists
    <2>3. n \in Exec
      BY <2>1, <2>2, ExecParts, DispatchConstants
    <2>4. CASE wk'[v] = wk[v]
      <3>1. wk[v].exec[2] \in AutoTriggered /\ (wk[v].claim => Exists(n))
        BY <1>6, <2>2, <2>4 DEF ContinuationInv, EffectsRecorded
      <3>2. QED
        BY <1>1, <2>3, <3>1 DEF Exists
    <2>a. CASE TaskStep(v) /\ wk[v].pc = "effect"
      <3>1. wk[v].exec[2] \in AutoTriggered /\ (wk[v].claim => Exists(n))
        BY <2>2, <2>a DEF ContinuationInv, EffectsRecorded
      <3>2. QED
        BY <1>1, <2>3, <3>1 DEF Exists
    <2>5. CASE TaskStep(v) /\ wk[v].pc # "effect"
      <3>1. wk[v].pc = "triggered" /\ FencePasses(v)
        BY <1>6, <2>2, <2>5, TaskWays
      <3>2. /\ wk[v].exec[2] \in AutoTriggered /\ wk[v].next \in Exec /\ Exists(wk[v].next)
            /\ wk[v].next[2] = Continuation[wk[v].exec[2]]
            /\ wk[v].seen <= wk[v].next[1] /\ wk[v].next[1] <= source.gen
        BY <3>1 DEF ContinuationInv, SnapsHaveRows, HandoffsContinue
      <3>3. ASSUME wk[v].claim PROVE row'[n].status # "absent"
        <4>1. wk[v].seen = wk[v].exec[1] /\ source.gen = wk[v].exec[1]
          BY <3>1, <3>3 DEF FencePasses, IsCurrent, ContinuationInv, ClaimsAreOfCycle
        <4>2. wk[v].next[1] = wk[v].exec[1]
          BY <1>0, <3>2, <4>1, Typed
        <4>3. wk[v].next = n
          BY <3>2, <4>2, ExecParts
        <4>4. QED
          BY <1>1, <2>3, <3>2, <4>3 DEF Exists
      <3>4. QED
        BY <3>2, <3>3
    <2>6. QED
      BY <1>6, <2>4, <2>5, <2>a, OtherWays
  <1>7. ASSUME NEW e \in Exec, row'[e].reason = "handoff"
        PROVE  /\ Continuation[e[2]] # NoStage
               /\ row'[<<e[1], Continuation[e[2]]>>].status # "absent"
    <2> DEFINE n == <<e[1], Continuation[e[2]]>>
    <2>1. CASE row[e].reason = "handoff"
      <3>1. Continuation[e[2]] # NoStage /\ Exists(n)
        BY <2>1 DEF ContinuationInv, HandoffReasons, ContinuationRecorded, Exists
      <3>2. n \in Exec
        BY <3>1, ExecParts, DispatchConstants
      <3>3. QED
        BY <1>1, <3>1, <3>2 DEF Exists
    <2>2. ASSUME NEW w \in Worker, wk[w].exec = e, wk[w].read = "owned", TaskHandoffCommit(w)
          PROVE  Continuation[e[2]] # NoStage /\ Exists(n)'
      <3>1. /\ wk[w].pc = "handed" /\ wk[w].claim /\ wk[w].seen = e[1] /\ e[1] \in Nat
            /\ e[1] >= 1
        BY <2>2, Typed DEF TaskHandoffCommit, TypeInv, TaskNamed, ContinuationInv,
                             ClaimsAreOfCycle
      <3>2. wk[w].next = n /\ wk[w].next \in Exec
        BY <2>2, <3>1 DEF ContinuationInv, HandoffsContinue, Cycle, TypeInv, TaskNamed
      <3>3. /\ wk[w].snap \in Row /\ wk[w].ok \in BOOLEAN /\ row[n] \in Row
            /\ wk[w].snap.status # "absent" => Exists(n)
        BY <1>0, <3>1, <3>2 DEF Task, ContinuationInv, SnapsHaveRows
      <3>4. row'[n] = Committed(n, wk[w].snap, wk[w].ok)
        <4>1. Marked(w, "completed", "handoff") \in [Exec -> Row]
          <5>1. "completed" \in Terminal /\ "handoff" \in Reasons
            BY DEF Terminal, Reasons
          <5>2. QED
            BY <3>1, <5>1, MarkedType
        <4>2. QED
          BY <2>2, <3>2, <4>1 DEF TaskHandoffCommit
      <3>5. Continuation[e[2]] \in Stage
        BY <3>2, ExecParts
      <3>6. QED
        BY <3>3, <3>4, <3>5, CommittedLeavesRow, DispatchConstants DEF Exists
    <2>3. ASSUME NEW w \in Worker, wk[w].exec = e, wk[w].read = "owned", TaskComplete(w),
                 e[2] \notin Gated, Continuation[e[2]] # NoStage
          PROVE  Exists(n)'
      <3>1. wk[w].claim /\ wk[w].pc = "effect"
        BY <2>3 DEF TaskComplete, TypeInv, TaskNamed
      <3>2. Exists(n)
        BY <2>3, <3>1 DEF ContinuationInv, EffectsRecorded
      <3>3. n \in Exec
        BY <2>3, ExecParts, DispatchConstants
      <3>4. QED
        BY <1>1, <3>2, <3>3
    <2>4. QED
      BY <1>1, <1>7, <2>1, <2>2, <2>3 DEF HandoffKept, Exists
  <1>8. ClaimsAreOfCycle' /\ HandoffsContinue'
    BY <1>4, <1>5 DEF ClaimsAreOfCycle, HandoffsContinue
  <1>9. EffectsRecorded'
    BY <1>6 DEF EffectsRecorded, Exists
  <1>10. HandoffReasons' /\ ContinuationRecorded'
    BY <1>7 DEF HandoffReasons, ContinuationRecorded
  <1>11. QED
    BY <1>2, <1>8, <1>9, <1>10 DEF ContinuationInv

LEMMA ContinuationInit == Init => ContinuationInv
  BY DEF Init, ContinuationInv, SnapsHaveRows, ClaimsAreOfCycle, HandoffsContinue,
         EffectsRecorded, HandoffReasons, ContinuationRecorded, AbsentRow, IdleTask, IdleRequest

\* A stage that a task closed as handed off has its continuation in the outbox,
\* whatever crashed, was cancelled, re-run or failed to be enqueued around the
\* handoff; where stages hand off through _auto_trigger_refine, as long as
\* requests take turns.
THEOREM HandoffsRecorded ==
    ASSUME AutoTriggered = {} \/ Serial
    PROVE  Spec => []ContinuationRecorded
  <1>1. ContinuationInv => ContinuationRecorded
    BY DEF ContinuationInv
  <1>2. CASE AutoTriggered = {}
    <2>1. TypeInv /\ TypeInv' /\ ContinuationInv /\ [Next]_vars => ContinuationInv'
      BY <1>2, ContinuationStep
    <2>2. QED
      BY <1>1, <2>1, TypeInit, TypeStep, ContinuationInit, PTL DEF Spec
  <1>3. CASE Serial
    <2>1. /\ TypeInv /\ TypeInv' /\ CyclesInv /\ ContinuationInv /\ [Next]_vars
          => CyclesInv' /\ ContinuationInv'
      BY <1>3, CyclesStep, ContinuationStep
    <2>2. QED
      BY <1>1, <2>1, TypeInit, TypeStep, CyclesInit, ContinuationInit, PTL DEF Spec
  <1>4. QED
    BY <1>2, <1>3
=============================================================================
