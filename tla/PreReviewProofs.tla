-------------------------- MODULE PreReviewProofs --------------------------
(***************************************************************************)
(* Proofs about PreReview for any number of sweeps, workers, revisions and *)
(* faults, and edits of every kind that stall between their read and their *)
(* write: a draft that waits for its verdict is covered by an intent, the  *)
(* verdict it shows is about the content it has, and only the run that     *)
(* holds a resolved intent writes it again.                                *)
(***************************************************************************)
EXTENDS PreReview, Integers, TLAPS

\* the draft's queue mark and the status of its revision's intent
Cover(ai, status) ==
    /\ ai = "pending" => status = "pending"
    /\ ai = "queued"  => status \in Open
    /\ ai = "running" => status \in {"running", "failed"}

\* no branch has reopened a revision, and no rebase has raced a sweep
Orderly == ~draft.reopened /\ ~draft.raced

\* no intent is staged ahead of the draft
NothingAhead ==
    \A r \in Revision : r > draft.rev => dispatch[r].status = "none"

\* an unsubmitted draft has no verdict to wait for, and no intent
UnsubmittedIsNew ==
    draft.status = "draft" /\ ~draft.reopened =>
        draft.ai = "pending" /\ dispatch[draft.rev].status = "none"

\* while an edit is open nothing but the outbox moves the draft
EditRoom ==
    edit.op \notin {"none", "submit"} => draft.rev < MaxRevision

EditIsFresh ==
    edit.op # "none" /\ ~draft.reopened =>
        /\ edit.op \in Stalls
        /\ draft.status = edit.status
        /\ edit.op = "update" => edit.status \in {"draft", "needs_revision"}
        /\ edit.op = "submit" => edit.status = "draft"
        /\ edit.op = "resubmit" => edit.status = "needs_revision"
        /\ edit.op # "rebase" /\ edit.ai = "pending" => draft.ai = "pending"

\* the intent of a revision that is being checked is running, or was failed
\* under its run; no two workers check one revision
RunsInv ==
    \A w \in Worker : wk[w] # 0 =>
        /\ dispatch[wk[w]].status \in {"running", "failed"}
        /\ \A v \in Worker \ {w} : wk[v] # wk[w]

ReviewedInv ==
    UnsubmittedIsNew /\ EditIsFresh /\ IntentCoversDraft /\ VerdictIsCurrent

PreInv == TypeOK /\ NothingAhead /\ EditRoom /\ ReviewedInv

-----------------------------------------------------------------------------
(* Rows *)

Statuses == {"none", "running"} \cup Open \cup Terminal

LEMMA RowAs ==
    ASSUME NEW row \in DispatchRow, NEW status \in Statuses
    PROVE  As(status, row) \in DispatchRow /\ As(status, row).status = status
  BY DEF As, DispatchRow, Statuses

LEMMA DraftFields ==
    ASSUME TypeOK
    PROVE  /\ draft.rev \in Revision /\ draft.rev \in Int /\ draft.status \in DraftStatus
           /\ draft.ai \in AiStatus /\ draft.results \in 0..MaxRevision
  BY PreReviewConstants DEF TypeOK, DraftRow, Revision

\* the same draft with another mark
Marked(row) ==
    /\ row \in DraftRow
    /\ row.status = draft.status /\ row.rev = draft.rev /\ row.reopened = draft.reopened
    /\ row.raced = draft.raced

LEMMA MarkedRow ==
    ASSUME TypeOK, NEW ai \in AiStatus, NEW results \in 0..MaxRevision
    PROVE  /\ Marked([draft EXCEPT !.ai = ai, !.results = results])
           /\ [draft EXCEPT !.ai = ai, !.results = results].ai = ai
           /\ [draft EXCEPT !.ai = ai, !.results = results].results = results
           /\ Marked([draft EXCEPT !.ai = ai])
           /\ [draft EXCEPT !.ai = ai].ai = ai
           /\ [draft EXCEPT !.ai = ai].results = draft.results
           /\ Marked(draft)
  BY DEF TypeOK, DraftRow, Marked

LEMMA SkippedRow ==
    ASSUME TypeOK
    PROVE  Marked(Skipped) /\ Skipped.ai = "skipped"
<1>1. "skipped" \in AiStatus /\ 0 \in 0..MaxRevision
  BY PreReviewConstants DEF AiStatus, Final
<1> QED BY <1>1, MarkedRow DEF Skipped

LEMMA ClearedRow ==
    ASSUME TypeOK, NEW r
    PROVE  /\ Marked(Cleared(r))
           /\ draft.rev = r /\ draft.ai = "queued" => Cleared(r).ai = "skipped"
           /\ ~(draft.rev = r /\ draft.ai = "queued") => Cleared(r) = draft
<1>1. CASE draft.rev = r /\ draft.ai = "queued"
  <2>1. "skipped" \in AiStatus /\ 0 \in 0..MaxRevision
    BY PreReviewConstants DEF AiStatus, Final
  <2> QED BY <1>1, <2>1, MarkedRow DEF Cleared
<1>2. CASE ~(draft.rev = r /\ draft.ai = "queued")
  BY <1>2 DEF Cleared, Marked, TypeOK
<1> QED BY <1>1, <1>2

-----------------------------------------------------------------------------
(* The outbox, the queue and the workers *)

\* the parts of the state these steps share with nobody
Others ==
    /\ job \in [Revision -> JobState]
    /\ sw \in [Sweeper -> SweepState]
    /\ wk \in [Worker -> 0..MaxRevision]
    /\ stuck \in StuckState
    /\ faults \in 0..MaxFaults

\* A step that leaves status and revision of the draft alone keeps the
\* invariant if it stages nothing, keeps the mark of a draft out of review,
\* and moves mark and intent together.
LEMMA OutboxStep ==
    ASSUME PreInv, Others', edit' = edit, Marked(draft'),
           dispatch' \in [Revision -> DispatchRow],
           \A r \in Revision : dispatch[r].status = "none" => dispatch'[r].status = "none",
           draft.ai = "pending" /\ draft.status # "pending" => draft'.ai = "pending",
           draft.status = "pending" /\ Orderly =>
               Cover(draft'.ai, dispatch'[draft.rev].status),
           draft'.ai = "checked" /\ Orderly =>
               draft'.results = draft.rev
    PROVE  PreInv'
<1>1. TypeOK'
  BY DEF PreInv, TypeOK, Others, Marked
<1>2. NothingAhead' /\ EditRoom'
  BY DEF PreInv, NothingAhead, EditRoom, Marked
<1>3. ReviewedInv'
  <2>1. UnsubmittedIsNew'
    BY DraftFields DEF PreInv, ReviewedInv, UnsubmittedIsNew, Marked
  <2>2. EditIsFresh'
    <3> SUFFICES ASSUME edit.op # "none", ~draft.reopened PROVE EditIsFresh'
      BY DEF EditIsFresh, Marked
    <3>1. EditIsFresh /\ edit.op \in Edits
      BY DEF PreInv, ReviewedInv, EditIsFresh, TypeOK, Edit
    <3>2. edit.op # "rebase" => edit.status # "pending"
      BY <3>1 DEF EditIsFresh, Edits
    <3> QED BY <3>1, <3>2 DEF EditIsFresh, Marked
  <2>3. IntentCoversDraft' /\ VerdictIsCurrent'
    BY DEF Cover, IntentCoversDraft, VerdictIsCurrent, Marked, Orderly
  <2> QED BY <2>1, <2>2, <2>3 DEF ReviewedInv
<1> QED BY <1>1, <1>2, <1>3 DEF PreInv

\* Steps that do not touch the draft or the status of an intent.
LEMMA QuietStep ==
    ASSUME PreInv, Others', UNCHANGED <<draft, edit>>,
           dispatch' \in [Revision -> DispatchRow],
           \A r \in Revision : dispatch'[r].status = dispatch[r].status
    PROVE  PreInv'
<1>1. Marked(draft')
  BY DEF PreInv, TypeOK, Marked
<1>2. draft.rev \in Revision
  BY DraftFields DEF PreInv
<1>3. ASSUME Orderly
      PROVE  /\ draft.status = "pending" => Cover(draft.ai, dispatch[draft.rev].status)
             /\ draft.ai = "checked" => draft.results = draft.rev
  BY <1>3 DEF PreInv, ReviewedInv, IntentCoversDraft, VerdictIsCurrent, Cover, Orderly
<1> QED BY <1>1, <1>2, <1>3, OutboxStep

\* A sweep or a worker that holds an intent gives it another status, and the
\* draft a mark that goes with it.
LEMMA TurnStep ==
    ASSUME PreInv, Others', edit' = edit,
           NEW r \in Revision, NEW status \in Statuses, Marked(draft'),
           dispatch' = [dispatch EXCEPT ![r] = As(status, dispatch[r])],
           dispatch[r].status # "none",
           draft'.ai # draft.ai => r = draft.rev /\ draft.ai \in {"queued", "running"},
           Current(r) /\ Orderly => Cover(draft'.ai, status),
           draft'.ai = "checked" => draft' = draft \/ draft'.results = draft.rev
    PROVE  PreInv'
<1>1. dispatch[r] \in DispatchRow /\ dispatch \in [Revision -> DispatchRow]
  BY DEF PreInv, TypeOK
<1>2. As(status, dispatch[r]) \in DispatchRow /\ As(status, dispatch[r]).status = status
  BY <1>1, RowAs
<1>3. /\ dispatch' \in [Revision -> DispatchRow]
      /\ dispatch'[r].status = status
      /\ \A q \in Revision \ {r} : dispatch'[q] = dispatch[q]
  BY <1>1, <1>2
<1>4. draft.rev \in Revision
  BY DraftFields DEF PreInv
<1>5. ASSUME draft.status = "pending", Orderly
      PROVE  Cover(draft'.ai, dispatch'[draft.rev].status)
  <2>1. CASE r = draft.rev
    BY <1>3, <1>5, <2>1 DEF Current
  <2>2. CASE r # draft.rev
    BY <1>3, <1>4, <1>5, <2>2 DEF PreInv, ReviewedInv, IntentCoversDraft, Cover, Orderly
  <2> QED BY <2>1, <2>2
<1>6. ASSUME draft'.ai = "checked", Orderly
      PROVE  draft'.results = draft.rev
  BY <1>6 DEF PreInv, ReviewedInv, VerdictIsCurrent, Orderly
<1> QED BY <1>3, <1>5, <1>6, OutboxStep

\* What the mark of a covered draft in review says about its intent.
LEMMA Covered ==
    ASSUME PreInv, NEW r \in Revision, Current(r), Orderly
    PROVE  Cover(draft.ai, dispatch[r].status)
  BY DEF PreInv, ReviewedInv, IntentCoversDraft, Cover, Current, Orderly

LEMMA FaultCount ==
    ASSUME TypeOK, NEW kind, Fault(kind)
    PROVE  faults' \in 0..MaxFaults
  BY PreReviewConstants DEF TypeOK, Fault

LEMMA SweepSet ==
    ASSUME TypeOK, NEW s \in Sweeper, NEW pc \in {"idle", "enqueue", "ack", "nack"}
    PROVE  /\ [sw EXCEPT ![s].pc = pc] \in [Sweeper -> SweepState]
           /\ [sw EXCEPT ![s] = IdleSweep] \in [Sweeper -> SweepState]
           /\ sw[s].rev \in Revision
<1>1. sw[s] \in SweepState /\ sw \in [Sweeper -> SweepState]
  BY DEF TypeOK
<1>2. [sw[s] EXCEPT !.pc = pc] \in SweepState
  BY <1>1 DEF SweepState
<1>3. IdleSweep \in SweepState
  BY PreReviewConstants DEF IdleSweep, SweepState, Revision
<1>4. sw[s].rev \in Revision
  BY <1>1 DEF SweepState
<1> QED BY <1>1, <1>2, <1>3, <1>4

LEMMA EnqueuedJobs ==
    ASSUME TypeOK, NEW r \in Revision
    PROVE  Enqueued(r) \in [Revision -> JobState]
  BY DEF TypeOK, Enqueued, JobState

LEMMA SweepQuiet ==
    ASSUME PreInv, NEW s \in Sweeper,
           SweepEnqueue(s) \/ SweepEnqueueFails(s) \/ SweepDies(s)
    PROVE  PreInv'
<1>1. TypeOK
  BY DEF PreInv
<1>2. /\ [sw EXCEPT ![s].pc = "ack"] \in [Sweeper -> SweepState]
      /\ [sw EXCEPT ![s].pc = "nack"] \in [Sweeper -> SweepState]
      /\ [sw EXCEPT ![s] = IdleSweep] \in [Sweeper -> SweepState]
      /\ Enqueued(sw[s].rev) \in [Revision -> JobState]
  BY <1>1, SweepSet, EnqueuedJobs
<1>3. faults' \in 0..MaxFaults
  BY <1>1, FaultCount DEF SweepEnqueue, SweepEnqueueFails, SweepDies, TypeOK
<1>4. Others' /\ UNCHANGED <<draft, edit, dispatch>>
  BY <1>1, <1>2, <1>3 DEF SweepEnqueue, SweepEnqueueFails, SweepDies, Others, TypeOK
<1> QED BY <1>1, <1>4, QuietStep DEF TypeOK

LEMMA QueueQuiet ==
    ASSUME PreInv, NEW r \in Revision, RunnerStartFails(r) \/ ResultExpires(r)
    PROVE  PreInv'
<1>1. TypeOK
  BY DEF PreInv
<1>2. faults' \in 0..MaxFaults
  BY <1>1, FaultCount DEF RunnerStartFails, ResultExpires, TypeOK
<1>3. Others' /\ UNCHANGED <<draft, edit, dispatch>>
  BY <1>1, <1>2 DEF RunnerStartFails, ResultExpires, Others, TypeOK, JobState
<1> QED BY <1>1, <1>3, QuietStep DEF TypeOK

LEMMA RunnerDiesStep ==
    ASSUME PreInv, NEW w \in Worker, RunnerDies(w)
    PROVE  PreInv'
<1>1. TypeOK
  BY DEF PreInv
<1>2. faults' \in 0..MaxFaults
  BY <1>1, FaultCount DEF RunnerDies
<1>3. wk[w] \in Revision /\ wk' \in [Worker -> 0..MaxRevision]
  BY <1>1, PreReviewConstants DEF RunnerDies, TypeOK, Revision
<1>4. Others' /\ UNCHANGED <<draft, edit, dispatch>>
  BY <1>1, <1>2, <1>3 DEF RunnerDies, Others, TypeOK, JobState
<1> QED BY <1>1, <1>4, QuietStep DEF TypeOK

LEMMA TimeQuiet ==
    ASSUME PreInv, NEW r \in Revision, BackoffPasses(r) \/ LeaseRunsOut(r)
    PROVE  PreInv'
<1>1. TypeOK
  BY DEF PreInv
<1>2. faults' \in 0..MaxFaults
  BY <1>1, FaultCount DEF BackoffPasses, LeaseRunsOut, TypeOK
<1>3. Others' /\ UNCHANGED <<draft, edit>>
  BY <1>1, <1>2 DEF BackoffPasses, LeaseRunsOut, Others, TypeOK
<1>4. dispatch' = [dispatch EXCEPT ![r] = [dispatch[r] EXCEPT !.due = TRUE]]
  BY DEF BackoffPasses, LeaseRunsOut
<1>5. dispatch \in [Revision -> DispatchRow] /\ dispatch[r] \in DispatchRow
  BY <1>1 DEF TypeOK
<1>6. /\ [dispatch[r] EXCEPT !.due = TRUE] \in DispatchRow
      /\ [dispatch[r] EXCEPT !.due = TRUE].status = dispatch[r].status
  BY <1>5 DEF DispatchRow
<1> QED BY <1>3, <1>4, <1>5, <1>6, QuietStep

LEMMA StuckSelectStep ==
    ASSUME PreInv, StuckSelect
    PROVE  PreInv'
<1>1. TypeOK
  BY DEF PreInv
<1>2. Others' /\ UNCHANGED <<draft, edit, dispatch>>
  BY <1>1 DEF StuckSelect, Others, TypeOK, StuckState
<1> QED BY <1>1, <1>2, QuietStep DEF TypeOK

\* A sweep that still owns its claim resolves it; another one does nothing.
LEMMA ResolveStep ==
    ASSUME PreInv, NEW s \in Sweeper, NEW status \in Statuses, NEW d,
           Resolve(s, status, d), Marked(d),
           d.ai # draft.ai => sw[s].rev = draft.rev /\ draft.ai = "queued",
           d.ai = "checked" => d = draft,
           Current(sw[s].rev) /\ Orderly
               /\ dispatch[sw[s].rev].status = "dispatching" => Cover(d.ai, status)
    PROVE  PreInv'
<1>1. TypeOK
  BY DEF PreInv
<1>2. Others' /\ edit' = edit /\ sw[s].rev \in Revision
  BY <1>1, SweepSet DEF Resolve, Others, TypeOK
<1>3. CASE Owns(s)
  <2>1. /\ dispatch' = [dispatch EXCEPT ![sw[s].rev] = As(status, dispatch[sw[s].rev])]
        /\ draft' = d /\ dispatch[sw[s].rev].status = "dispatching"
    BY <1>3 DEF Resolve, Owns
  <2> QED BY <1>2, <2>1, TurnStep
<1>4. CASE ~Owns(s)
  <2>1. UNCHANGED <<draft, dispatch>>
    BY <1>4 DEF Resolve
  <2> QED BY <1>1, <1>2, <2>1, QuietStep DEF TypeOK
<1> QED BY <1>3, <1>4

LEMMA SweepAckStep ==
    ASSUME PreInv, NEW s \in Sweeper, SweepAck(s)
    PROVE  PreInv'
<1> DEFINE r == sw[s].rev
<1>1. TypeOK /\ Marked(draft) /\ r \in Revision
  BY SweepSet DEF PreInv, TypeOK, Marked
<1>2. {"completed", "enqueued", "stale"} \subseteq Statuses
  BY DEF Statuses, Open, Terminal
<1>3. CASE HasVerdict(r) /\ Resolve(s, "completed", draft)
  <2>1. Cover(draft.ai, "completed")
    BY <1>3 DEF HasVerdict, Matches, Final, Cover
  <2> QED BY <1>1, <1>2, <1>3, <2>1, ResolveStep
<1>4. CASE Matches(r, "queued") /\ Resolve(s, "enqueued", draft)
  <2>1. Cover(draft.ai, "enqueued")
    BY <1>4 DEF Matches, Cover, Open
  <2> QED BY <1>1, <1>2, <1>4, <2>1, ResolveStep
<1>5. CASE ~HasVerdict(r) /\ ~Matches(r, "queued") /\ Resolve(s, "stale", Cleared(r))
  <2>1. ASSUME Current(r), Orderly, dispatch[r].status = "dispatching"
        PROVE  FALSE
    <3>1. Cover(draft.ai, dispatch[r].status)
      BY <1>1, <2>1, Covered
    <3>2. draft.ai \in Final
      BY <1>1, <1>5, <2>1, <3>1, DraftFields DEF Matches, Cover, AiStatus
    <3> QED BY <1>5, <2>1, <3>2 DEF HasVerdict, Matches
  <2>2. /\ Marked(Cleared(r))
        /\ Cleared(r).ai # draft.ai => r = draft.rev /\ draft.ai = "queued"
        /\ Cleared(r).ai = "checked" => Cleared(r) = draft
    BY <1>1, ClearedRow
  <2> QED BY <1>1, <1>2, <1>5, <2>1, <2>2, ResolveStep
<1> QED BY <1>3, <1>4, <1>5 DEF SweepAck

LEMMA SweepNackStep ==
    ASSUME PreInv, NEW s \in Sweeper, SweepNack(s)
    PROVE  PreInv'
<1> DEFINE r == sw[s].rev
<1>1. TypeOK /\ Marked(draft) /\ r \in Revision
  BY SweepSet DEF PreInv, TypeOK, Marked
<1>2. {"completed", "pending", "stale", "failed"} \subseteq Statuses
  BY DEF Statuses, Open, Terminal
<1>3. CASE HasVerdict(r) /\ Resolve(s, "completed", draft)
  <2>1. Cover(draft.ai, "completed")
    BY <1>3 DEF HasVerdict, Matches, Final, Cover
  <2> QED BY <1>1, <1>2, <1>3, <2>1, ResolveStep
<1>4. CASE Matches(r, "queued") /\ Resolve(s, "pending", draft)
  <2>1. Cover(draft.ai, "pending")
    BY <1>4 DEF Matches, Cover, Open
  <2> QED BY <1>1, <1>2, <1>4, <2>1, ResolveStep
<1>5. CASE ~HasVerdict(r) /\ ~Matches(r, "queued") /\ Resolve(s, "stale", Cleared(r))
  <2>1. ASSUME Current(r), Orderly, dispatch[r].status = "dispatching"
        PROVE  FALSE
    <3>1. Cover(draft.ai, dispatch[r].status)
      BY <1>1, <2>1, Covered
    <3>2. draft.ai \in Final
      BY <1>1, <1>5, <2>1, <3>1, DraftFields DEF Matches, Cover, AiStatus
    <3> QED BY <1>5, <2>1, <3>2 DEF HasVerdict, Matches
  <2>2. /\ Marked(Cleared(r))
        /\ Cleared(r).ai # draft.ai => r = draft.rev /\ draft.ai = "queued"
        /\ Cleared(r).ai = "checked" => Cleared(r) = draft
    BY <1>1, ClearedRow
  <2> QED BY <1>1, <1>2, <1>5, <2>1, <2>2, ResolveStep
<1>6. CASE Matches(r, "queued") /\ Resolve(s, "failed", Skipped)
  <2>1. Marked(Skipped) /\ Skipped.ai = "skipped"
    BY <1>1, SkippedRow
  <2>2. Cover(Skipped.ai, "failed") /\ Skipped.ai # "checked"
    BY <2>1 DEF Cover
  <2>3. r = draft.rev /\ draft.ai = "queued"
    BY <1>6 DEF Matches, Current
  <2> QED BY <1>1, <1>2, <1>6, <2>1, <2>2, <2>3, ResolveStep
<1> QED BY <1>3, <1>4, <1>5, <1>6 DEF SweepNack

Fates == {"completed", "claim", "disabled", "stale"}

LEMMA FateIs ==
    ASSUME NEW r, NEW enabled \in BOOLEAN
    PROVE  /\ Fate(r, enabled) \in Fates
           /\ Fate(r, enabled) = "completed" => HasVerdict(r)
           /\ Fate(r, enabled) = "claim" => Current(r) /\ draft.ai \in {"pending", "queued"}
           /\ Fate(r, enabled) = "disabled" => Matches(r, "pending")
           /\ Fate(r, enabled) = "stale" =>
                 /\ ~HasVerdict(r) /\ ~Matches(r, "queued")
                 /\ ~(Matches(r, "pending") /\ dispatch[r].status = "pending")
  BY DEF Fate, Fates, Matches

LEMMA ClaimingSweeps ==
    ASSUME TypeOK, NEW s \in Sweeper, NEW r \in Revision
    PROVE  /\ Claiming(s, r) \in [Sweeper -> SweepState]
           /\ ClaimedRow(dispatch[r]) \in DispatchRow
           /\ ClaimedRow(dispatch[r]).status = "dispatching"
<1>1. dispatch[r].spent \in 0..MaxEnqueueAttempts
  BY DEF TypeOK, DispatchRow
<1>2. Spend(dispatch[r].spent) \in 0..MaxEnqueueAttempts
  BY <1>1, PreReviewConstants DEF Spend
<1> HIDE DEF Spend
<1>3. ASSUME NEW t \in Sweeper PROVE [sw[t] EXCEPT !.owns = FALSE] \in SweepState
  BY DEF TypeOK, SweepState
<1>4. [pc |-> "enqueue", rev |-> r, spent |-> Spend(dispatch[r].spent), owns |-> TRUE]
         \in SweepState
  BY <1>2 DEF SweepState
<1>5. Claiming(s, r) \in [Sweeper -> SweepState]
  BY <1>3, <1>4 DEF Claiming, TypeOK
<1>6. ClaimedRow(dispatch[r]) \in DispatchRow /\ ClaimedRow(dispatch[r]).status = "dispatching"
  BY <1>2 DEF ClaimedRow, DispatchRow, Open
<1> QED BY <1>5, <1>6

LEMMA SweepClaimStep ==
    ASSUME PreInv, NEW s \in Sweeper, SweepClaim(s)
    PROVE  PreInv'
<1> DEFINE cur == draft.rev
<1>1. TypeOK /\ cur \in Revision
  BY DraftFields DEF PreInv
<1>2. PICK enabled \in BOOLEAN :
        LET fate == IF Due(cur) THEN Fate(cur, enabled) ELSE "none"
        IN  /\ dispatch' = [r \in Revision |->
                  IF ~Due(r) THEN dispatch[r]
                  ELSE IF Fate(r, enabled) = "claim" THEN ClaimedRow(dispatch[r])
                  ELSE As(Fate(r, enabled), dispatch[r])]
            /\ draft' = CASE fate = "claim"    -> [draft EXCEPT !.ai = "queued",
                                  !.results = IF draft.ai = "pending" THEN 0 ELSE draft.results]
                          [] fate = "disabled" -> Skipped
                          [] fate = "stale"    -> Cleared(cur)
                          [] OTHER             -> draft
            /\ sw' = IF fate = "claim" THEN Claiming(s, cur) ELSE sw
  BY DEF SweepClaim
<1> DEFINE fate == IF Due(cur) THEN Fate(cur, enabled) ELSE "none"
           queued == [draft EXCEPT !.ai = "queued",
                        !.results = IF draft.ai = "pending" THEN 0 ELSE draft.results]
<1>3. /\ fate = "claim" => draft' = queued /\ sw' = Claiming(s, cur)
      /\ fate = "disabled" => draft' = Skipped /\ sw' = sw
      /\ fate = "stale" => draft' = Cleared(cur) /\ sw' = sw
      /\ fate \in {"completed", "none"} => draft' = draft /\ sw' = sw
      /\ fate \in Fates \cup {"none"}
  BY <1>2, FateIs DEF Fates
<1>4. Marked(queued) /\ queued.ai = "queued"
  <2>1. "queued" \in AiStatus /\ (IF draft.ai = "pending" THEN 0 ELSE draft.results) \in 0..MaxRevision
    BY <1>1, DraftFields, PreReviewConstants DEF AiStatus
  <2> QED BY <1>1, <2>1, MarkedRow
<1> HIDE DEF queued
<1>5. Others' /\ edit' = edit
  BY <1>1, <1>3, ClaimingSweeps DEF SweepClaim, Others, TypeOK, Fates
<1>6. ASSUME NEW r \in Revision
      PROVE  /\ dispatch'[r] \in DispatchRow
             /\ ~Due(r) => dispatch'[r] = dispatch[r]
             /\ Due(r) => dispatch[r].status # "none"
             /\ Due(r) /\ Fate(r, enabled) = "claim" => dispatch'[r].status = "dispatching"
  <2>1. dispatch[r] \in DispatchRow
    BY <1>1 DEF TypeOK
  <2>2. CASE ~Due(r)
    BY <1>2, <2>1, <2>2
  <2>3. CASE Due(r) /\ Fate(r, enabled) = "claim"
    BY <1>1, <1>2, <2>3, ClaimingSweeps DEF Due, Open
  <2>4. CASE Due(r) /\ Fate(r, enabled) # "claim"
    <3>1. Fate(r, enabled) \in Statuses
      BY <2>4, FateIs DEF Fates, Statuses, Open, Terminal
    <3>2. dispatch'[r] = As(Fate(r, enabled), dispatch[r])
      BY <1>2, <2>4
    <3> QED BY <2>1, <2>4, <3>1, <3>2, RowAs DEF Due, Open
  <2> QED BY <2>2, <2>3, <2>4
<1>7. dispatch' \in [Revision -> DispatchRow]
  BY <1>2, <1>6
<1>8. Marked(draft') /\ (draft'.ai = "checked" => draft' = draft)
  <2>1. Marked(draft) /\ Marked(Skipped) /\ Skipped.ai = "skipped" /\ Marked(Cleared(cur))
        /\ (Cleared(cur) = draft \/ Cleared(cur).ai = "skipped")
    BY <1>1, SkippedRow, ClearedRow DEF Marked, TypeOK
  <2> QED BY <1>3, <1>4, <2>1 DEF Fates
<1>9. ASSUME draft.ai = "pending", draft.status # "pending" PROVE draft'.ai = "pending"
  <2>1. fate \in {"stale", "none"}
    BY <1>3, <1>9, FateIs DEF Fates, HasVerdict, Matches, Current
  <2> QED BY <1>1, <1>3, <1>9, <2>1, ClearedRow
<1>10. ASSUME draft.status = "pending", Orderly
       PROVE  Cover(draft'.ai, dispatch'[cur].status)
  <2>1. Current(cur) /\ Cover(draft.ai, dispatch[cur].status)
    BY <1>1, <1>10, Covered DEF Current
  <2>2. CASE ~Due(cur)
    BY <1>1, <1>3, <1>6, <2>1, <2>2
  <2>3. CASE Due(cur) /\ fate = "claim"
    <3>1. dispatch'[cur].status = "dispatching"
      BY <1>1, <1>6, <2>3
    <3> QED BY <1>3, <1>4, <2>3, <3>1 DEF Cover, Open
  <2>4. CASE Due(cur) /\ fate = "disabled"
    BY <1>1, <1>3, <2>4, SkippedRow DEF Cover
  <2>5. CASE Due(cur) /\ fate = "completed"
    BY <1>3, <2>5, FateIs DEF HasVerdict, Matches, Final, Cover
  <2>6. CASE Due(cur) /\ fate = "stale"
    <3>1. ~HasVerdict(cur) /\ ~Matches(cur, "queued")
          /\ ~(Matches(cur, "pending") /\ dispatch[cur].status = "pending")
      BY <2>6, FateIs
    <3>2. draft.ai = "running"
      BY <1>1, <2>1, <3>1, DraftFields DEF HasVerdict, Matches, AiStatus, Cover
    <3> QED BY <2>1, <2>6, <3>2 DEF Cover, Due, Open
  <2>7. Due(cur) => fate \in Fates
    BY FateIs
  <2> QED BY <2>2, <2>3, <2>4, <2>5, <2>6, <2>7 DEF Fates
<1>11. ASSUME draft'.ai = "checked", Orderly
       PROVE  draft'.results = draft.rev
  BY <1>8, <1>11 DEF PreInv, ReviewedInv, VerdictIsCurrent, Orderly
<1>12. \A r \in Revision : dispatch[r].status = "none" => dispatch'[r].status = "none"
  BY <1>6
<1> HIDE DEF fate
<1> QED BY <1>5, <1>7, <1>8, <1>9, <1>10, <1>11, <1>12, OutboxStep

LEMMA RunnerStartStep ==
    ASSUME PreInv, NEW w \in Worker, NEW r \in Revision, RunnerStart(w, r)
    PROVE  PreInv'
<1>1. TypeOK /\ Marked(draft)
  BY DEF PreInv, TypeOK, Marked
<1>2. Others' /\ edit' = edit
  <2>1. r \in 0..MaxRevision /\ 0 \in 0..MaxRevision
    BY PreReviewConstants DEF Revision
  <2>2. /\ \E jb \in {"result", "running"} : job' = [job EXCEPT ![r] = jb]
        /\ wk' = wk \/ \E busy \in 0..MaxRevision : wk' = [wk EXCEPT ![w] = busy]
        /\ UNCHANGED <<edit, sw, stuck, faults>>
    BY <2>1 DEF RunnerStart
  <2> QED BY <1>1, <2>2 DEF Others, TypeOK, JobState
<1>3. {"stale", "completed", "running"} \subseteq Statuses
  BY DEF Statuses, Open, Terminal
<1> DEFINE Turn(status) == dispatch' = [dispatch EXCEPT ![r] = As(status, dispatch[r])]
           taken == dispatch[r].status \in {"dispatching", "enqueued"}
           started == [draft EXCEPT !.ai = "running"]
<1>4. \/ UNCHANGED <<draft, dispatch>>
      \/ taken /\ draft.status # "pending" /\ Turn("stale") /\ draft' = Cleared(r)
      \/ taken /\ ~Current(r) /\ Turn("stale") /\ draft' = draft
      \/ taken /\ HasVerdict(r) /\ Turn("completed") /\ draft' = draft
      \/ taken /\ Current(r) /\ draft.ai \in {"pending", "running"} /\ Turn("stale")
            /\ draft' = draft
      \/ taken /\ Matches(r, "queued") /\ Turn("running") /\ draft' = started
  BY DEF RunnerStart
<1> HIDE DEF Turn
<1>5. CASE UNCHANGED <<draft, dispatch>>
  BY <1>1, <1>2, <1>5, QuietStep DEF TypeOK
<1>6. CASE taken /\ draft.status # "pending" /\ Turn("stale") /\ draft' = Cleared(r)
  <2>1. /\ Marked(Cleared(r))
        /\ Cleared(r).ai # draft.ai => r = draft.rev /\ draft.ai = "queued"
        /\ Cleared(r).ai = "checked" => Cleared(r) = draft
    BY <1>1, ClearedRow
  <2> QED BY <1>2, <1>3, <1>6, <2>1, TurnStep DEF Turn, Current
<1>7. CASE taken /\ ~Current(r) /\ Turn("stale") /\ draft' = draft
  BY <1>1, <1>2, <1>3, <1>7, TurnStep DEF Turn
<1>8. CASE taken /\ HasVerdict(r) /\ Turn("completed") /\ draft' = draft
  <2>1. Cover(draft.ai, "completed")
    BY <1>8 DEF HasVerdict, Matches, Final, Cover
  <2> QED BY <1>1, <1>2, <1>3, <1>8, <2>1, TurnStep DEF Turn
<1>9. CASE taken /\ Current(r) /\ draft.ai \in {"pending", "running"} /\ Turn("stale")
            /\ draft' = draft
  <2>1. ~Orderly
    BY <1>9, Covered DEF Cover
  <2> QED BY <1>1, <1>2, <1>3, <1>9, <2>1, TurnStep DEF Turn
<1>10. CASE taken /\ Matches(r, "queued") /\ Turn("running") /\ draft' = started
  <2>1. "running" \in AiStatus /\ 0 \in 0..MaxRevision
    BY PreReviewConstants DEF AiStatus
  <2>2. Marked(started) /\ started.ai = "running"
    BY <1>1, <2>1, MarkedRow
  <2> HIDE DEF started
  <2>3. r = draft.rev /\ draft.ai = "queued" /\ Cover("running", "running")
    BY <1>10 DEF Matches, Current, Cover
  <2> QED BY <1>2, <1>3, <1>10, <2>2, <2>3, TurnStep DEF Turn
<1> QED BY <1>4, <1>5, <1>6, <1>7, <1>8, <1>9, <1>10

LEMMA RunnerFinishStep ==
    ASSUME PreInv, RunsInv, NEW w \in Worker, RunnerFinish(w)
    PROVE  PreInv'
<1> DEFINE r == wk[w]
<1>1. TypeOK /\ Marked(draft) /\ r \in Revision
  BY PreReviewConstants DEF PreInv, TypeOK, Marked, RunnerFinish, Revision
<1>2. Others' /\ edit' = edit
  BY <1>1, PreReviewConstants DEF RunnerFinish, Others, TypeOK, JobState
<1>3. {"stale", "completed"} \subseteq Statuses
  BY DEF Statuses, Terminal
<1> DEFINE Turn(status) == dispatch' = [dispatch EXCEPT ![r] = As(status, dispatch[r])]
           checked == [draft EXCEPT !.ai = "checked", !.results = r]
<1>4. \/ ~Current(r) /\ Turn("stale") /\ draft' = Cleared(r)
      \/ HasVerdict(r) /\ Turn("completed") /\ draft' = draft
      \/ Current(r) /\ draft.ai \in {"pending", "queued"} /\ Turn("stale")
            /\ draft' = draft
      \/ Matches(r, "running") /\ Turn("completed") /\ draft' = checked
  BY DEF RunnerFinish
<1>5. dispatch[r].status \in {"running", "failed"}
  BY <1>1 DEF RunsInv, RunnerFinish
<1> HIDE DEF Turn, r
<1>6. CASE ~Current(r) /\ Turn("stale") /\ draft' = Cleared(r)
  <2>1. /\ Marked(Cleared(r))
        /\ Cleared(r).ai # draft.ai => r = draft.rev /\ draft.ai = "queued"
        /\ Cleared(r).ai = "checked" => Cleared(r) = draft
    BY <1>1, ClearedRow
  <2> QED BY <1>1, <1>2, <1>3, <1>5, <1>6, <2>1, TurnStep DEF Turn
<1>7. CASE HasVerdict(r) /\ Turn("completed") /\ draft' = draft
  <2>1. Cover(draft.ai, "completed")
    BY <1>7 DEF HasVerdict, Matches, Final, Cover
  <2> QED BY <1>1, <1>2, <1>3, <1>5, <1>7, <2>1, TurnStep DEF Turn
<1>8. CASE Current(r) /\ draft.ai \in {"pending", "queued"} /\ Turn("stale")
            /\ draft' = draft
  <2>1. ~Orderly
    BY <1>1, <1>5, <1>8, Covered DEF Cover, Open
  <2> QED BY <1>1, <1>2, <1>3, <1>5, <1>8, <2>1, TurnStep DEF Turn
<1>9. CASE Matches(r, "running") /\ Turn("completed") /\ draft' = checked
  <2>1. "checked" \in AiStatus /\ r \in 0..MaxRevision
    BY <1>1, PreReviewConstants DEF AiStatus, Final, Revision
  <2>2. Marked(checked) /\ checked.ai = "checked" /\ checked.results = r
    BY <1>1, <2>1, MarkedRow
  <2> HIDE DEF checked
  <2>3. r = draft.rev /\ draft.ai = "running" /\ Cover("checked", "completed")
    BY <1>9 DEF Matches, Current, Cover
  <2> QED BY <1>1, <1>2, <1>3, <1>5, <1>9, <2>2, <2>3, TurnStep DEF Turn
<1> QED BY <1>4, <1>5, <1>6, <1>7, <1>8, <1>9

LEMMA FailedRuns ==
    ASSUME TypeOK
    PROVE  /\ RunsFailed \in [Revision -> DispatchRow]
           /\ \A r \in Revision :
                /\ dispatch[r].status # "running" => RunsFailed[r] = dispatch[r]
                /\ dispatch[r].status = "running" => RunsFailed[r].status = "failed"
<1> SUFFICES ASSUME NEW r \in Revision
             PROVE  /\ RunsFailed[r] \in DispatchRow
                    /\ dispatch[r].status # "running" => RunsFailed[r] = dispatch[r]
                    /\ dispatch[r].status = "running" => RunsFailed[r].status = "failed"
  BY DEF RunsFailed
<1>1. dispatch[r] \in DispatchRow /\ "failed" \in Statuses
  BY DEF TypeOK, Statuses, Terminal
<1>2. As("failed", dispatch[r]) \in DispatchRow /\ As("failed", dispatch[r]).status = "failed"
  BY <1>1, RowAs
<1> QED BY <1>1, <1>2 DEF RunsFailed

\* The stuck-run cron: a draft it finds running is skipped, and no draft that
\* waits for a claim loses its intent.
LEMMA StuckStep ==
    ASSUME PreInv, StuckUpdate \/ StuckFail
    PROVE  PreInv'
<1>1. TypeOK /\ Marked(draft) /\ draft.rev \in Revision
  BY DraftFields DEF PreInv, TypeOK, Marked
<1>2. Others' /\ edit' = edit
  BY <1>1 DEF StuckUpdate, StuckFail, Others, TypeOK, StuckState
<1>3. dispatch' = RunsFailed \/ dispatch' = dispatch
  BY DEF StuckUpdate, StuckFail
<1>4. dispatch' \in [Revision -> DispatchRow]
  BY <1>1, <1>3, FailedRuns DEF TypeOK
<1>5. draft' = draft \/ (Marked(draft') /\ draft.ai = "running" /\ draft'.ai = "skipped")
  <2>1. "skipped" \in AiStatus /\ 0 \in 0..MaxRevision
    BY PreReviewConstants DEF AiStatus, Final
  <2> QED BY <1>1, <2>1, MarkedRow DEF StuckUpdate, StuckFail
<1>6. ASSUME draft.status = "pending", Orderly
      PROVE  Cover(draft'.ai, dispatch'[draft.rev].status)
  <2>1. Cover(draft.ai, dispatch[draft.rev].status)
    BY <1>1, <1>6, Covered DEF Current
  <2>2. \/ dispatch'[draft.rev] = dispatch[draft.rev]
        \/ /\ dispatch[draft.rev].status = "running"
           /\ dispatch'[draft.rev].status = "failed"
    BY <1>1, <1>3, FailedRuns
  <2> QED BY <1>5, <2>1, <2>2 DEF Cover, Open
<1>7. ASSUME draft'.ai = "checked", Orderly
      PROVE  draft'.results = draft.rev
  BY <1>5, <1>7 DEF PreInv, ReviewedInv, VerdictIsCurrent, Orderly
<1>8. \A r \in Revision : dispatch[r].status = "none" => dispatch'[r].status = "none"
  BY <1>1, <1>3, FailedRuns
<1> QED BY <1>1, <1>2, <1>4, <1>5, <1>6, <1>7, <1>8, OutboxStep

-----------------------------------------------------------------------------
(* The draft lifecycle *)

LEMMA StagedRows ==
    ASSUME TypeOK, NEW r \in Revision
    PROVE  /\ Staged(r) \in [Revision -> DispatchRow]
           /\ Staged(r)[r].status # "none"
           /\ dispatch[r].status = "none" => Staged(r)[r].status = "pending"
           /\ \A q \in Revision \ {r} : Staged(r)[q] = dispatch[q]
<1>1. NewRow \in DispatchRow /\ NewRow.status = "pending"
  BY PreReviewConstants DEF NewRow, DispatchRow, Open
<1> QED BY <1>1 DEF Staged, TypeOK

LEMMA EditedFields ==
    ASSUME TypeOK, NEW seen \in Edit, seen.op \in Edits,
           seen.op # "submit" => draft.rev < MaxRevision
    PROVE  /\ Edited(seen) \in DraftRow
           /\ Edited(seen).reopened = draft.reopened
           /\ seen.op = "submit" => Edited(seen).rev = draft.rev
           /\ seen.op # "submit" => Edited(seen).rev = draft.rev + 1
           /\ Edited(seen).status =
                 LET target == IF seen.op = "update" THEN "draft" ELSE "pending"
                 IN  IF seen.status # target THEN target ELSE draft.status
           /\ Edited(seen).ai =
                 IF (seen.op \in {"resubmit", "rebase"} \/ seen.status = "needs_revision")
                      /\ seen.ai # "pending" THEN "pending" ELSE draft.ai
           /\ Edited(seen).results \in {0, draft.results}
           /\ Edited(seen).raced =
                 IF seen.op \in {"resubmit", "rebase"} \/ seen.status = "needs_revision"
                 THEN seen.op = "rebase" /\ seen.ai = "pending" /\ draft.ai # "pending"
                 ELSE draft.raced
<1> DEFINE new == Edited(seen)
<1>1. /\ new.reopened = draft.reopened
      /\ seen.op = "submit" => new.rev = draft.rev
      /\ seen.op # "submit" => new.rev = draft.rev + 1
      /\ new.status = LET target == IF seen.op = "update" THEN "draft" ELSE "pending"
                      IN  IF seen.status # target THEN target ELSE draft.status
      /\ new.ai = IF (seen.op \in {"resubmit", "rebase"} \/ seen.status = "needs_revision")
                       /\ seen.ai # "pending" THEN "pending" ELSE draft.ai
      /\ new.results \in {0, draft.results}
      /\ new.raced =
            IF seen.op \in {"resubmit", "rebase"} \/ seen.status = "needs_revision"
            THEN seen.op = "rebase" /\ seen.ai = "pending" /\ draft.ai # "pending"
            ELSE draft.raced
      /\ new = [status |-> new.status, rev |-> new.rev, ai |-> new.ai,
                results |-> new.results, reopened |-> new.reopened,
                raced |-> new.raced]
  BY DEF Edited
<1>2. /\ draft.rev \in Revision /\ draft.rev \in Int /\ draft.status \in DraftStatus
      /\ draft.ai \in AiStatus /\ draft.results \in 0..MaxRevision
      /\ draft.reopened \in BOOLEAN /\ draft.raced \in BOOLEAN
  BY DraftFields DEF TypeOK, DraftRow
<1> HIDE DEF new
<1>3. new.rev \in Revision /\ new.results \in 0..MaxRevision
  BY <1>1, <1>2, PreReviewConstants DEF Revision
<1>4. new.status \in DraftStatus /\ new.ai \in AiStatus /\ new.raced \in BOOLEAN
  BY <1>1, <1>2 DEF DraftStatus, AiStatus
<1>5. new \in DraftRow
  BY <1>1, <1>2, <1>3, <1>4 DEF DraftRow
<1> QED BY <1>1, <1>5 DEF new

\* The edit of a request that read what the draft still has, or whose reading
\* nothing has made stale that it goes by.
LEMMA CommitStep ==
    ASSUME PreInv, NEW seen \in Edit, seen.op \in Edits, CommitEdit(seen),
           UNCHANGED <<job, sw, wk, stuck, faults>>,
           seen.op # "submit" => draft.rev < MaxRevision,
           ~draft.reopened =>
               /\ draft.status = seen.status
               /\ seen.op = "update" => seen.status \in {"draft", "needs_revision"}
               /\ seen.op = "submit" => seen.status = "draft"
               /\ seen.op # "rebase" /\ seen.ai = "pending" => draft.ai = "pending"
    PROVE  PreInv'
<1> DEFINE new == Edited(seen)
<1>1. TypeOK
  BY DEF PreInv
<1>2. /\ draft' = new /\ edit' = NoEdit
      /\ dispatch' = IF seen.op # "update" THEN Staged(new.rev) ELSE dispatch
  BY DEF CommitEdit
<1>3. /\ new \in DraftRow
      /\ new.reopened = draft.reopened
      /\ seen.op = "submit" => new.rev = draft.rev
      /\ seen.op # "submit" => new.rev = draft.rev + 1
      /\ new.status = LET target == IF seen.op = "update" THEN "draft" ELSE "pending"
                      IN  IF seen.status # target THEN target ELSE draft.status
      /\ new.ai = IF (seen.op \in {"resubmit", "rebase"} \/ seen.status = "needs_revision")
                       /\ seen.ai # "pending" THEN "pending" ELSE draft.ai
      /\ new.raced =
            IF seen.op \in {"resubmit", "rebase"} \/ seen.status = "needs_revision"
            THEN seen.op = "rebase" /\ seen.ai = "pending" /\ draft.ai # "pending"
            ELSE draft.raced
  BY <1>1, EditedFields
<1> HIDE DEF new
<1>4. new.rev \in Revision /\ new.rev \in Int /\ draft.rev \in Int /\ draft.rev \in Revision
  BY <1>1, <1>3, DraftFields DEF DraftRow, Revision
<1>5. /\ dispatch' \in [Revision -> DispatchRow]
      /\ seen.op = "update" => dispatch' = dispatch
      /\ seen.op # "update" /\ dispatch[new.rev].status = "none" =>
            dispatch'[new.rev].status = "pending"
      /\ \A q \in Revision \ {new.rev} : dispatch'[q] = dispatch[q]
  BY <1>1, <1>2, <1>4, StagedRows DEF TypeOK
<1>6. TypeOK'
  <2>1. NoEdit \in Edit
    BY PreReviewConstants DEF NoEdit, Edit, DraftStatus, AiStatus
  <2> QED BY <1>1, <1>2, <1>3, <1>5, <2>1 DEF TypeOK
<1>7. NothingAhead'
  <2>1. new.rev >= draft.rev
    BY <1>3, <1>4
  <2> QED BY <1>2, <1>4, <1>5, <2>1 DEF PreInv, NothingAhead, Revision
<1>8. EditRoom' /\ EditIsFresh'
  BY <1>2 DEF EditRoom, EditIsFresh, NoEdit
<1>9. ASSUME ~draft.reopened
      PROVE  /\ new.ai = "pending" \/ (seen.op = "rebase" /\ new.raced)
             /\ dispatch[new.rev].status = "none"
             /\ new.status = IF seen.op = "update" THEN "draft" ELSE "pending"
  <2>1. CASE seen.op = "submit"
    BY <1>3, <1>9, <2>1 DEF PreInv, ReviewedInv, UnsubmittedIsNew
  <2>2. CASE seen.op # "submit"
    <3>1. dispatch[new.rev].status = "none"
      BY <1>3, <1>4, <2>2 DEF PreInv, NothingAhead
    <3>2. new.status = IF seen.op = "update" THEN "draft" ELSE "pending"
      BY <1>3, <1>9
    <3>3. new.ai = "pending" \/ (seen.op = "rebase" /\ new.raced)
      BY <1>3, <1>9, <2>2 DEF PreInv, ReviewedInv, UnsubmittedIsNew, Edits
    <3> QED BY <3>1, <3>2, <3>3
  <2> QED BY <2>1, <2>2
<1>10. ReviewedInv'
  <2>1. CASE draft.reopened
    BY <1>2, <1>3, <1>8, <2>1
       DEF ReviewedInv, UnsubmittedIsNew, IntentCoversDraft, VerdictIsCurrent
  <2>2. CASE ~draft.reopened
    BY <1>2, <1>3, <1>5, <1>8, <1>9, <2>2
       DEF ReviewedInv, UnsubmittedIsNew, IntentCoversDraft, VerdictIsCurrent
  <2> QED BY <2>1, <2>2
<1> QED BY <1>6, <1>7, <1>8, <1>10 DEF PreInv

LEMMA SeenIs ==
    ASSUME TypeOK, NEW op \in Edits
    PROVE  /\ Seen(op) \in Edit
           /\ Seen(op).op = op /\ Seen(op).status = draft.status /\ Seen(op).ai = draft.ai
  BY DraftFields DEF Seen, Edit

LEMMA MayEditIs ==
    ASSUME NEW op \in Edits, MayEdit(op)
    PROVE  /\ edit.op = "none"
           /\ op = "update" => draft.status \in {"draft", "needs_revision"}
           /\ op = "submit" => draft.status = "draft"
           /\ op = "resubmit" => draft.status = "needs_revision"
           /\ op # "submit" => draft.rev < MaxRevision
  BY DEF MayEdit, Edits

LEMMA AuthorStep ==
    ASSUME PreInv, NEW op \in Edits, Author(op)
    PROVE  PreInv'
<1>1. TypeOK /\ MayEdit(op) /\ CommitEdit(Seen(op)) /\ UNCHANGED <<job, sw, wk, stuck, faults>>
  BY DEF PreInv, Author
<1> QED BY <1>1, SeenIs, MayEditIs, CommitStep

LEMMA AuthorResumesStep ==
    ASSUME PreInv, AuthorResumes
    PROVE  PreInv'
<1>1. edit \in Edit /\ edit.op \in Edits
  BY DEF PreInv, TypeOK, AuthorResumes, Edit
<1> QED BY <1>1, CommitStep DEF AuthorResumes, PreInv, EditRoom, ReviewedInv, EditIsFresh

LEMMA AuthorStallsStep ==
    ASSUME PreInv, NEW op \in Edits, AuthorStalls(op)
    PROVE  PreInv'
<1>1. TypeOK /\ MayEdit(op) /\ op \in Stalls /\ edit' = Seen(op)
      /\ UNCHANGED <<draft, dispatch, job, sw, wk, stuck, faults>>
  BY DEF PreInv, AuthorStalls
<1>2. /\ Seen(op) \in Edit
      /\ Seen(op).op = op /\ Seen(op).status = draft.status /\ Seen(op).ai = draft.ai
  BY <1>1, SeenIs
<1>3. /\ op = "update" => draft.status \in {"draft", "needs_revision"}
      /\ op = "submit" => draft.status = "draft"
      /\ op = "resubmit" => draft.status = "needs_revision"
      /\ op # "submit" => draft.rev < MaxRevision
  BY <1>1, MayEditIs
<1>4. TypeOK' /\ NothingAhead'
  BY <1>1, <1>2 DEF PreInv, TypeOK, NothingAhead
<1>5. EditRoom' /\ EditIsFresh'
  BY <1>1, <1>2, <1>3 DEF EditRoom, EditIsFresh
<1>6. ReviewedInv'
  BY <1>1, <1>5
     DEF PreInv, ReviewedInv, UnsubmittedIsNew, IntentCoversDraft, VerdictIsCurrent
<1> QED BY <1>4, <1>5, <1>6 DEF PreInv

LEMMA LeaveReview ==
    ASSUME PreInv, RequestChanges \/ Close
    PROVE  PreInv'
<1>1. PICK status \in {"needs_revision", "closed"} :
         /\ edit.op = "none" /\ draft' = [draft EXCEPT !.status = status]
         /\ UNCHANGED <<edit, dispatch, job, sw, wk, stuck, faults>>
  BY DEF RequestChanges, Close
<1>2. /\ draft' \in DraftRow /\ draft'.status = status /\ draft'.ai = draft.ai
      /\ draft'.rev = draft.rev /\ draft'.results = draft.results
      /\ draft'.reopened = draft.reopened /\ draft'.raced = draft.raced
  BY <1>1 DEF PreInv, TypeOK, DraftRow, DraftStatus
<1>3. TypeOK' /\ NothingAhead' /\ EditRoom' /\ EditIsFresh'
  BY <1>1, <1>2 DEF PreInv, TypeOK, NothingAhead, EditRoom, EditIsFresh
<1>4. ReviewedInv'
  BY <1>1, <1>2, <1>3
     DEF PreInv, ReviewedInv, UnsubmittedIsNew, IntentCoversDraft, VerdictIsCurrent
<1> QED BY <1>3, <1>4 DEF PreInv

LEMMA BranchSubmitStep ==
    ASSUME PreInv, BranchSubmit
    PROVE  PreInv'
<1>1. TypeOK /\ draft.rev \in Revision
  BY DraftFields DEF PreInv
<1> DEFINE again == \/ draft.reopened \/ edit.op # "none"
                    \/ dispatch[draft.rev].status # "none"
<1>2. /\ draft' = [draft EXCEPT !.status = "pending", !.ai = "pending", !.results = 0,
                                !.reopened = again]
      /\ dispatch' = Staged(draft.rev)
      /\ UNCHANGED <<edit, job, sw, wk, stuck, faults>>
  BY DEF BranchSubmit
<1>3. again \in BOOLEAN
  BY <1>1 DEF TypeOK, DraftRow
<1> HIDE DEF again
<1>4. /\ draft' \in DraftRow /\ draft'.status = "pending" /\ draft'.ai = "pending"
      /\ draft'.rev = draft.rev /\ draft'.reopened = again
  <2>1. draft \in DraftRow /\ 0 \in 0..MaxRevision
    BY <1>1, PreReviewConstants DEF TypeOK
  <2>2. "pending" \in DraftStatus /\ "pending" \in AiStatus
    BY DEF DraftStatus, AiStatus
  <2> QED BY <1>2, <1>3, <2>1, <2>2 DEF DraftRow
<1>5. /\ dispatch' \in [Revision -> DispatchRow]
      /\ dispatch[draft.rev].status = "none" => dispatch'[draft.rev].status = "pending"
      /\ \A q \in Revision \ {draft.rev} : dispatch'[q] = dispatch[q]
  BY <1>1, <1>2, StagedRows
<1>6. TypeOK' /\ EditRoom'
  BY <1>1, <1>2, <1>4, <1>5 DEF PreInv, TypeOK, EditRoom
<1>7. NothingAhead'
  BY <1>4, <1>5 DEF PreInv, NothingAhead, Revision
<1>8. ReviewedInv'
  <2>1. CASE again
    BY <1>4, <2>1 DEF ReviewedInv, UnsubmittedIsNew, EditIsFresh, IntentCoversDraft,
       VerdictIsCurrent
  <2>2. CASE ~again
    BY <1>2, <1>4, <1>5, <2>2 DEF again, ReviewedInv, UnsubmittedIsNew, EditIsFresh,
       IntentCoversDraft, VerdictIsCurrent
  <2> QED BY <2>1, <2>2
<1> QED BY <1>6, <1>7, <1>8 DEF PreInv

-----------------------------------------------------------------------------
(* Running and resolved intents *)

\* statuses that no sweep and no request moves on
Held == Terminal \cup {"running"}

Kept(r) == dispatch[r].status \in Held => dispatch'[r].status = dispatch[r].status

LEMMA OneIntent ==
    ASSUME TypeOK, NEW q \in Revision, dispatch[q].status \notin Held, NEW row,
           dispatch' = [dispatch EXCEPT ![q] = row], NEW r \in Revision
    PROVE  Kept(r)
  BY DEF TypeOK, Kept

LEMMA StagedKeeps ==
    ASSUME TypeOK, NEW q, dispatch' = Staged(q), NEW r \in Revision
    PROVE  Kept(r)
  BY DEF TypeOK, Kept, Staged, Held, Terminal

LEMMA LifecycleKeeps ==
    ASSUME TypeOK, Lifecycle, NEW r \in Revision
    PROVE  Kept(r)
<1>1. dispatch' = dispatch \/ \E q : dispatch' = Staged(q)
  BY DEF Lifecycle, Author, AuthorStalls, AuthorResumes, CommitEdit, RequestChanges, Close,
     BranchSubmit
<1> QED BY <1>1, StagedKeeps DEF Kept

LEMMA SweepKeeps ==
    ASSUME TypeOK, NEW s \in Sweeper, SweepStep(s), NEW r \in Revision
    PROVE  Kept(r)
<1>1. CASE SweepClaim(s)
  <2>1. Due(r) \/ dispatch'[r] = dispatch[r]
    BY <1>1 DEF SweepClaim
  <2> QED BY <2>1 DEF Kept, Due, Open, Held, Terminal
<1>2. ASSUME NEW status, NEW d, Resolve(s, status, d) PROVE Kept(r)
  <2>1. CASE Owns(s)
    <3>1. sw[s].rev \in Revision /\ dispatch[sw[s].rev].status \notin Held
      BY <2>1, SweepSet DEF Owns, Held, Terminal
    <3>2. PICK row : dispatch' = [dispatch EXCEPT ![sw[s].rev] = row]
      BY <1>2, <2>1 DEF Resolve
    <3> QED BY <3>1, <3>2, OneIntent
  <2>2. CASE ~Owns(s)
    BY <1>2, <2>2 DEF Resolve, Kept
  <2> QED BY <2>1, <2>2
<1>3. CASE SweepAck(s) \/ SweepNack(s)
  BY <1>2, <1>3 DEF SweepAck, SweepNack
<1>4. CASE SweepEnqueue(s) \/ SweepEnqueueFails(s) \/ SweepDies(s)
  BY <1>4 DEF SweepEnqueue, SweepEnqueueFails, SweepDies, Kept
<1> QED BY <1>1, <1>3, <1>4 DEF SweepStep

LEMMA StartKeeps ==
    ASSUME TypeOK, NEW w \in Worker, NEW q \in Revision, RunnerStart(w, q), NEW r \in Revision
    PROVE  Kept(r)
<1>1. \/ dispatch' = dispatch
      \/ /\ dispatch[q].status \notin Held
         /\ \E row : dispatch' = [dispatch EXCEPT ![q] = row]
  BY DEF RunnerStart, Held, Terminal
<1> QED BY <1>1, OneIntent DEF Kept

LEMMA StuckKeeps ==
    ASSUME TypeOK, StuckSelect \/ StuckUpdate \/ StuckFail, NEW r \in Revision
    PROVE  Kept(r) \/ (dispatch[r].status = "running" /\ dispatch'[r].status = "failed")
<1>1. dispatch' = dispatch \/ dispatch' = RunsFailed
  BY DEF StuckSelect, StuckUpdate, StuckFail
<1> QED BY <1>1, FailedRuns DEF Kept

\* A run ends with its own outcome, on the intent it holds.
LEMMA FinishWrites ==
    ASSUME TypeOK, RunsInv, NEW w \in Worker, RunnerFinish(w)
    PROVE  /\ wk[w] \in Revision /\ dispatch[wk[w]].status \in {"running", "failed"}
           /\ dispatch'[wk[w]].status \in {"completed", "stale"}
           /\ \A r \in Revision \ {wk[w]} : dispatch'[r] = dispatch[r]
           /\ wk' = [wk EXCEPT ![w] = 0]
<1>1. wk[w] \in Revision
  BY PreReviewConstants DEF RunnerFinish, TypeOK, Revision
<1>2. dispatch[wk[w]] \in DispatchRow /\ {"completed", "stale"} \subseteq Statuses
  BY <1>1 DEF TypeOK, Statuses, Terminal
<1>3. PICK status \in {"completed", "stale"} :
        dispatch' = [dispatch EXCEPT ![wk[w]] = As(status, dispatch[wk[w]])]
  BY DEF RunnerFinish
<1>4. As(status, dispatch[wk[w]]).status = status
  BY <1>2, RowAs
<1> QED BY <1>1, <1>3, <1>4 DEF TypeOK, RunsInv, RunnerFinish

LEMMA TimedKeeps ==
    ASSUME TypeOK, NEW q \in Revision, Timed(q), NEW r \in Revision
    PROVE  Kept(r)
<1>1. CASE RunnerStartFails(q) \/ ResultExpires(q)
  BY <1>1 DEF RunnerStartFails, ResultExpires, Kept
<1>2. CASE BackoffPasses(q) \/ LeaseRunsOut(q)
  <2>1. /\ dispatch[q].status \notin Held
        /\ dispatch' = [dispatch EXCEPT ![q] = [dispatch[q] EXCEPT !.due = TRUE]]
    BY <1>2 DEF BackoffPasses, LeaseRunsOut, Held, Terminal
  <2> QED BY <2>1, OneIntent
<1> QED BY <1>1, <1>2 DEF Timed

\* Steps that keep running and failed intents as they are, and start no run.
LEMMA RunsKept ==
    ASSUME TypeOK, RunsInv, wk' = wk,
           \A r \in Revision : dispatch[r].status \in {"running", "failed"} =>
                dispatch'[r].status \in {"running", "failed"}
    PROVE  RunsInv'
<1>1. \A w \in Worker : wk[w] # 0 => wk[w] \in Revision
  BY PreReviewConstants DEF TypeOK, Revision
<1> QED BY <1>1 DEF RunsInv

LEMMA RunnerRuns ==
    ASSUME TypeOK, RunsInv, NEW w \in Worker, RunnerStep(w)
    PROVE  RunsInv'
<1>1. \A v \in Worker : wk[v] # 0 => wk[v] \in Revision
  BY PreReviewConstants DEF TypeOK, Revision
<1>2. CASE RunnerFinish(w)
  BY <1>1, <1>2, FinishWrites DEF RunsInv, TypeOK
<1>3. CASE RunnerDies(w)
  BY <1>3 DEF RunnerDies, RunsInv, TypeOK
<1>4. ASSUME NEW r \in Revision, RunnerStart(w, r) PROVE RunsInv'
  <2>1. CASE wk' = wk
    BY <1>4, <2>1, StartKeeps, RunsKept DEF Kept, Held, Terminal
  <2>2. CASE wk' # wk
    <3>1. /\ \A q \in Revision : Kept(q)
          /\ dispatch[r].status \in {"dispatching", "enqueued"}
      BY <1>4, <2>2, StartKeeps DEF RunnerStart
    <3>2. \/ wk' = [wk EXCEPT ![w] = 0]
          \/ /\ dispatch' = [dispatch EXCEPT ![r] = As("running", dispatch[r])]
             /\ wk' = [wk EXCEPT ![w] = r]
      BY <1>4, <2>2 DEF RunnerStart
    <3>3. CASE wk' = [wk EXCEPT ![w] = 0]
      BY <1>1, <3>1, <3>3 DEF RunsInv, TypeOK, Kept, Held, Terminal
    <3>4. CASE /\ dispatch' = [dispatch EXCEPT ![r] = As("running", dispatch[r])]
               /\ wk' = [wk EXCEPT ![w] = r]
      <4>1. dispatch'[r].status = "running"
        <5>1. dispatch[r] \in DispatchRow /\ "running" \in Statuses
          BY DEF TypeOK, Statuses
        <5> QED BY <3>4, <5>1, RowAs DEF TypeOK
      <4>2. \A v \in Worker : wk[v] # r
        BY <1>1, <3>1, PreReviewConstants DEF RunsInv, Revision
      <4>3. ASSUME NEW v \in Worker, v # w, wk[v] # 0
            PROVE  wk'[v] = wk[v] /\ dispatch'[wk[v]].status \in {"running", "failed"}
        BY <1>1, <3>1, <3>4, <4>3 DEF RunsInv, TypeOK, Kept, Held, Terminal
      <4> QED BY <3>4, <4>1, <4>2, <4>3 DEF RunsInv, TypeOK
    <3> QED BY <3>2, <3>3, <3>4
  <2> QED BY <2>1, <2>2
<1> QED BY <1>2, <1>3, <1>4 DEF RunnerStep

LEMMA NextRuns ==
    ASSUME TypeOK, RunsInv, [Next]_vars
    PROVE  RunsInv'
<1>1. CASE Lifecycle
  <2>1. wk' = wk
    BY <1>1 DEF Lifecycle, Author, AuthorStalls, AuthorResumes, RequestChanges, Close, BranchSubmit
  <2> QED BY <1>1, <2>1, LifecycleKeeps, RunsKept DEF Kept, Held, Terminal
<1>2. ASSUME NEW s \in Sweeper, SweepStep(s) PROVE RunsInv'
  <2>1. wk' = wk
    BY <1>2 DEF SweepStep, SweepClaim, SweepEnqueue, SweepEnqueueFails, SweepAck, SweepNack,
       Resolve, SweepDies
  <2> QED BY <1>2, <2>1, SweepKeeps, RunsKept DEF Kept, Held, Terminal
<1>3. CASE StuckSelect \/ StuckUpdate \/ StuckFail
  <2>1. wk' = wk
    BY <1>3 DEF StuckSelect, StuckUpdate, StuckFail
  <2> QED BY <1>3, <2>1, StuckKeeps, RunsKept DEF Kept, Held, Terminal
<1>4. ASSUME NEW q \in Revision, Timed(q) PROVE RunsInv'
  <2>1. wk' = wk
    BY <1>4 DEF Timed, RunnerStartFails, BackoffPasses, LeaseRunsOut, ResultExpires
  <2> QED BY <1>4, <2>1, TimedKeeps, RunsKept DEF Kept, Held, Terminal
<1>5. CASE UNCHANGED vars
  BY <1>5 DEF vars, RunsInv
<1> QED BY <1>1, <1>2, <1>3, <1>4, <1>5, RunnerRuns DEF Next

-----------------------------------------------------------------------------
(* Theorems *)

LEMMA InitPre == Init => PreInv
<1> SUFFICES ASSUME Init PROVE PreInv
  OBVIOUS
<1>1. PICK s \in {"draft", "pending"} :
         /\ draft = [status |-> s, rev |-> 1, ai |-> "pending", results |-> 0, reopened |-> FALSE,
                    raced |-> FALSE]
         /\ dispatch = [r \in Revision |-> IF r = 1 /\ s = "pending" THEN NewRow ELSE NoRow]
  BY DEF Init
<1>2. 1 \in Revision /\ 0 \in 0..MaxRevision
  BY PreReviewConstants DEF Revision
<1>3. /\ NewRow \in DispatchRow /\ NewRow.status = "pending"
      /\ NoRow \in DispatchRow /\ NoRow.status = "none"
  BY PreReviewConstants DEF NewRow, NoRow, DispatchRow, Open
<1>4. TypeOK
  <2>1. draft \in DraftRow
    BY <1>1, <1>2 DEF DraftRow, DraftStatus, AiStatus
  <2>2. NoEdit \in Edit /\ IdleSweep \in SweepState
    BY <1>2, PreReviewConstants DEF NoEdit, Edit, DraftStatus, AiStatus, IdleSweep, SweepState
  <2>3. dispatch \in [Revision -> DispatchRow]
    BY <1>1, <1>3
  <2>4. /\ job \in [Revision -> JobState] /\ sw \in [Sweeper -> SweepState]
        /\ wk \in [Worker -> 0..MaxRevision] /\ stuck \in StuckState
    BY <1>2, <2>2 DEF Init, JobState, StuckState
  <2>5. faults \in 0..MaxFaults /\ edit \in Edit
    BY <2>2, PreReviewConstants DEF Init
  <2> QED BY <2>1, <2>3, <2>4, <2>5 DEF TypeOK
<1>5. NothingAhead
  BY <1>1, <1>3 DEF NothingAhead, Revision
<1>6. EditRoom /\ EditIsFresh
  BY DEF Init, EditRoom, EditIsFresh, NoEdit
<1>7. UnsubmittedIsNew /\ IntentCoversDraft /\ VerdictIsCurrent
  BY <1>1, <1>2, <1>3 DEF UnsubmittedIsNew, IntentCoversDraft, VerdictIsCurrent
<1> QED BY <1>4, <1>5, <1>6, <1>7 DEF PreInv, ReviewedInv

LEMMA NextPre ==
    ASSUME PreInv, RunsInv, [Next]_vars
    PROVE  PreInv'
<1>1. CASE Lifecycle
  BY <1>1, AuthorStep, AuthorStallsStep, AuthorResumesStep, LeaveReview, BranchSubmitStep
     DEF Lifecycle
<1>2. CASE \E s \in Sweeper : SweepStep(s)
  BY <1>2, SweepClaimStep, SweepQuiet, SweepAckStep, SweepNackStep DEF SweepStep
<1>3. CASE \E w \in Worker : RunnerStep(w)
  BY <1>3, RunnerStartStep, RunnerFinishStep, RunnerDiesStep DEF RunnerStep
<1>4. CASE StuckSelect \/ StuckUpdate \/ StuckFail
  BY <1>4, StuckSelectStep, StuckStep
<1>5. CASE \E r \in Revision : Timed(r)
  BY <1>5, QueueQuiet, TimeQuiet DEF Timed
<1>6. CASE UNCHANGED vars
  BY <1>6 DEF vars, PreInv, TypeOK, NothingAhead, EditRoom, ReviewedInv,
     UnsubmittedIsNew, EditIsFresh, IntentCoversDraft, VerdictIsCurrent
<1> QED BY <1>1, <1>2, <1>3, <1>4, <1>5, <1>6 DEF Next

\* PreInv is inductive together with RunsInv.
THEOREM PreReviewInvariant == Spec => [](PreInv /\ RunsInv)
<1>1. Init => RunsInv
  BY DEF Init, RunsInv
<1>2. PreInv /\ RunsInv /\ [Next]_vars => (PreInv /\ RunsInv)'
  BY NextPre, NextRuns DEF PreInv
<1> QED BY <1>1, <1>2, InitPre, PTL DEF Spec

\* Draft, intents, queue and claims keep their types; an edit never leaves the
\* draft at a revision past the last.
THEOREM PreReviewTypes == Spec => []TypeOK
<1>1. PreInv => TypeOK
  BY DEF PreInv
<1> QED BY <1>1, PreReviewInvariant, PTL

\* A draft in review that waits for its verdict is covered by an intent, for
\* any number of concurrent sweeps and workers and with the stuck-run cron
\* between its statements, unless a branch reopened it or a rebase raced a sweep.
THEOREM IntentsCoverDrafts == Spec => []IntentCoversDraft
<1>1. PreInv => IntentCoversDraft
  BY DEF PreInv, ReviewedInv
<1> QED BY <1>1, PreReviewInvariant, PTL

\* No late worker puts its verdict on content it has not seen, and no edit keeps
\* an old one, stalled rebases included, unless one raced a sweep.
THEOREM VerdictsAreCurrent == Spec => []VerdictIsCurrent
<1>1. PreInv => VerdictIsCurrent
  BY DEF PreInv, ReviewedInv
<1> QED BY <1>1, PreReviewInvariant, PTL

\* Only the run that holds a failed intent writes a resolved one again.
THEOREM TerminalIntentsAreFinal == Spec => TerminalIntentIsFinal
<1> DEFINE Ends(r) ==
      dispatch[r].status \in Terminal =>
            \/ dispatch'[r].status = dispatch[r].status
            \/ /\ dispatch[r].status = "failed" /\ \E w \in Worker : wk[w] = r
               /\ dispatch'[r].status \in {"completed", "stale"}
<1>1. TypeOK /\ RunsInv /\ [Next]_vars => [\A r \in Revision : Ends(r)]_vars
  <2> SUFFICES ASSUME TypeOK, RunsInv, Next, NEW r \in Revision PROVE Ends(r)
    OBVIOUS
  <2>1. Kept(r) => Ends(r)
    BY DEF Kept, Held
  <2>2. CASE StuckSelect \/ StuckUpdate \/ StuckFail
    BY <2>1, <2>2, StuckKeeps DEF Terminal
  <2>3. ASSUME NEW w \in Worker, RunnerStep(w) PROVE Ends(r)
    <3>1. CASE RunnerFinish(w)
      BY <3>1, FinishWrites DEF Terminal
    <3>2. CASE RunnerDies(w)
      BY <2>1, <3>2 DEF RunnerDies, Kept
    <3> QED BY <2>1, <2>3, <3>1, <3>2, StartKeeps DEF RunnerStep
  <2> HIDE DEF Ends
  <2> QED BY <2>1, <2>2, <2>3, LifecycleKeeps, SweepKeeps, TimedKeeps DEF Next
<1>2. PreInv => TypeOK
  BY DEF PreInv
<1> QED BY <1>1, <1>2, PreReviewInvariant, PTL DEF Spec, TerminalIntentIsFinal
=============================================================================
