------------------------- MODULE SourceDeletionProofs -------------------------
(***************************************************************************)
(* Proofs about SourceDeletion, for any number of sources, objects, sweeps  *)
(* and faults: its types, that a removed source is clean, that a failure is *)
(* visible, and that it implements the safety part of DeletionContract.     *)
(***************************************************************************)
EXTENDS SourceDeletion, FiniteSetTheorems, TLAPS

\* what is true of one source, its intent and its objects
RowInv ==
    \A s \in Source :
        /\ intent[s].status = "none" <=> source[s] = "live"
        /\ intent[s].linked <=> source[s] = "tombstoned"
        /\ intent[s].status = "completed" => source[s] = "gone"
        /\ source[s] = "gone" => held[s] = {}
        /\ held[s] \subseteq store[s]
        /\ source[s] # "gone" =>
              (intent[s].status = "failed" <=> intent[s].error # "none")

\* a sweep works on sources whose tombstone is committed, and once it has
\* listed a prefix, what is left of the source's objects is on its list
SweepInv ==
    \A w \in Sweeper :
        /\ \A s \in sweep[w].due \cup sweep[w].row : source[s] # "live"
        /\ \A s, t \in sweep[w].row : s = t
        /\ sweep[w].at = "remove" =>
              \A s \in sweep[w].row : held[s] \subseteq sweep[w].left

\* a transaction that has read no intent holds the row lock of a live source
RequestInv ==
    /\ \A r \in Requester : \A s, t \in request[r].src : s = t
    /\ \A r \in Requester : \A s \in request[r].src :
          /\ ~request[r].live => source[s] # "live"
          /\ request[r].at = "read" /\ request[r].seen = "none" =>
                request[r].live /\ source[s] = "live"
          /\ request[r].at = "read" /\ request[r].seen # "none" =>
                source[s] # "live"
    /\ \A r, q \in Requester :
          /\ request[r].at = "read" /\ request[r].live
          /\ request[q].at = "read" /\ request[q].live
          /\ r # q
          => request[r].src \cap request[q].src = {}

DeletionInv == TypeOK /\ RowInv /\ SweepInv /\ RequestInv

-------------------------------------------------------------------------------
\* What a request, a claim, a failure and a removal write is an intent row.
LEMMA IntentRowClosed ==
    ASSUME intent \in [Source -> IntentRow], NEW i \in IntentRow
    PROVE  /\ [i EXCEPT !.status = "completed"] \in IntentRow
           /\ Claimed(i) \in IntentRow
           /\ Completed(i) \in IntentRow
           /\ \A b : Failed(i, b) \in IntentRow
           /\ \A seen : Requested(i, seen) \in IntentRow
<1>1. Intents \in Nat
  <2>1. IsFiniteSet({s \in Source : intent[s].status # "none"})
    BY DeletionAssumption, FS_Subset
  <2> QED BY <2>1, FS_CardinalityType DEF Intents
<1>2. /\ [i EXCEPT !.status = "completed"] \in IntentRow
      /\ Completed(i) \in IntentRow
  BY DEF IntentRow, Status, Completed
<1>3. Claimed(i) \in IntentRow
  <2> DEFINE a == IF i.attempts < MaxAttempts THEN i.attempts + 1 ELSE i.attempts
  <2>1. a \in 0..MaxAttempts
    BY DeletionAssumption DEF IntentRow
  <2>2. Claimed(i) = [i EXCEPT !.status = "in_progress", !.error = "none",
                               !.due = FALSE, !.attempts = a]
    BY DEF Claimed
  <2> HIDE DEF a
  <2> QED BY <2>1, <2>2 DEF IntentRow, Status, Active
<1>4. ASSUME NEW b PROVE Failed(i, b) \in IntentRow
  BY DEF IntentRow, Status, Active, Failed
<1>5. ASSUME NEW seen PROVE Requested(i, seen) \in IntentRow
  BY <1>1 DEF IntentRow, Status, Active, Requested
<1> QED BY <1>2, <1>3, <1>4, <1>5

LEMMA NextRowType ==
    ASSUME NEW due \in SUBSET Source
    PROVE  NextRow(due) \in SweepRun
  BY DEF NextRow, NoSweep, SweepRun

LEMMA ApiLoadInv ==
    ASSUME NEW s \in Source, DeletionInv, ApiLoad(s)
    PROVE  DeletionInv'
<1>1. TypeOK'
  BY DeletionAssumption DEF DeletionInv, TypeOK, Status, RequestTx, ApiLoad
<1>2. RowInv'
  BY DEF DeletionInv, RowInv, ApiLoad
<1>3. SweepInv'
  BY DEF DeletionInv, SweepInv, ApiLoad
<1>4. RequestInv'
  BY DEF DeletionInv, RequestInv, ApiLoad
<1> QED BY <1>1, <1>2, <1>3, <1>4 DEF DeletionInv

LEMMA CronLoadInv ==
    ASSUME NEW s \in Source, DeletionInv, CronLoad(s)
    PROVE  DeletionInv'
<1>1. TypeOK'
  BY DeletionAssumption DEF DeletionInv, TypeOK, Status, Requester, RequestTx,
     CronLoad
<1>2. RowInv'
  BY DEF DeletionInv, RowInv, CronLoad
<1>3. SweepInv'
  BY DEF DeletionInv, SweepInv, CronLoad
<1>4. RequestInv'
  <2> SUFFICES ASSUME NEW q \in Requester, NEW t \in request'[q].src
               PROVE  /\ \A u \in request'[q].src : t = u
                      /\ ~request'[q].live => source[t] # "live"
                      /\ request'[q].at = "read" /\ request'[q].seen = "none" =>
                            request'[q].live /\ source[t] = "live"
                      /\ request'[q].at = "read" /\ request'[q].seen # "none" =>
                            source[t] # "live"
                      /\ \A p \in Requester :
                            /\ request'[q].at = "read" /\ request'[q].live
                            /\ request'[p].at = "read" /\ request'[p].live
                            /\ q # p
                            => t \notin request'[p].src
    BY DEF RequestInv, CronLoad
  <2>1. /\ "orphans" \in Requester
        /\ request' = [request EXCEPT !["orphans"] =
              [at |-> "loaded", src |-> {s}, live |-> source[s] = "live",
               seen |-> "none"]]
    BY DEF CronLoad, Requester
  <2>2. CASE q = "orphans"
    BY <2>1, <2>2 DEF DeletionInv, TypeOK, RequestTx
  <2>3. CASE q # "orphans"
    <3>1. request'[q] = request[q]
      BY <2>1, <2>3 DEF DeletionInv, TypeOK
    <3>2. ASSUME NEW p \in Requester, request'[p].at = "read"
          PROVE  p # "orphans" /\ request'[p] = request[p]
      BY <2>1, <3>2 DEF DeletionInv, TypeOK
    <3> QED BY <3>1, <3>2 DEF DeletionInv, RequestInv
  <2> QED BY <2>2, <2>3
<1> QED BY <1>1, <1>2, <1>3, <1>4 DEF DeletionInv

LEMMA RequestReadInv ==
    ASSUME NEW r \in Requester, DeletionInv, RequestRead(r)
    PROVE  DeletionInv'
<1>1. TypeOK'
  <2>1. PICK s \in request[r].src :
            /\ request[r].live => ~Locked(s)
            /\ request' = [request EXCEPT ![r] =
                  IF source[s] = "gone" THEN NoRequest
                  ELSE [request[r] EXCEPT !.at = "read", !.seen = intent[s].status]]
    BY DEF RequestRead
  <2>2. s \in Source
    BY DEF DeletionInv, TypeOK, RequestTx
  <2>3. [request[r] EXCEPT !.at = "read", !.seen = intent[s].status] \in RequestTx
    BY <2>2 DEF DeletionInv, TypeOK, RequestTx, IntentRow
  <2>4. NoRequest \in RequestTx
    BY DEF NoRequest, RequestTx, Status
  <2> QED BY <2>1, <2>3, <2>4 DEF DeletionInv, TypeOK, RequestRead
<1>2. RowInv'
  BY DEF DeletionInv, RowInv, RequestRead
<1>3. SweepInv'
  BY DEF DeletionInv, SweepInv, RequestRead
<1>4. RequestInv'
  <2> SUFFICES ASSUME NEW q \in Requester, NEW t \in request'[q].src
               PROVE  /\ \A u \in request'[q].src : t = u
                      /\ ~request'[q].live => source[t] # "live"
                      /\ request'[q].at = "read" /\ request'[q].seen = "none" =>
                            request'[q].live /\ source[t] = "live"
                      /\ request'[q].at = "read" /\ request'[q].seen # "none" =>
                            source[t] # "live"
                      /\ \A p \in Requester :
                            /\ request'[q].at = "read" /\ request'[q].live
                            /\ request'[p].at = "read" /\ request'[p].live
                            /\ q # p
                            => t \notin request'[p].src
    BY DEF RequestInv, RequestRead
  <2>1. PICK s \in request[r].src :
            /\ request[r].live => ~Locked(s)
            /\ request' = [request EXCEPT ![r] =
                  IF source[s] = "gone" THEN NoRequest
                  ELSE [request[r] EXCEPT !.at = "read", !.seen = intent[s].status]]
    BY DEF RequestRead
  <2>2. s \in Source
    BY DEF DeletionInv, TypeOK, RequestTx
  <2>a. \A p \in Requester : p # r => request'[p] = request[p]
    BY <2>1 DEF DeletionInv, TypeOK
  <2>3. CASE source[s] = "gone"
    <3>1. request'[r] = NoRequest
      BY <2>1, <2>3 DEF DeletionInv, TypeOK
    <3>2. q # r
      BY <3>1 DEF NoRequest
    <3>3. \A p \in Requester : request'[p].at = "read" => p # r
      BY <3>1 DEF NoRequest
    <3> QED BY <2>a, <3>2, <3>3 DEF DeletionInv, RequestInv
  <2>4. CASE source[s] # "gone"
    <3>1. /\ request'[r].at = "read" /\ request'[r].seen = intent[s].status
          /\ request'[r].src = request[r].src
          /\ request'[r].live = request[r].live
      BY <2>1, <2>4 DEF DeletionInv, TypeOK, RequestTx
    <3>2. request[r].src = {s}
      BY <2>1 DEF DeletionInv, RequestInv
    <3>3. CASE q = r
      <4>1. t = s
        BY <3>1, <3>2, <3>3
      <4>2. ASSUME NEW p \in Requester, request'[r].live, p # r,
                   request'[p].at = "read", request'[p].live
            PROVE  s \notin request'[p].src
        BY <2>1, <2>a, <3>1, <4>2 DEF Locked
      <4> QED BY <2>1, <2>2, <3>1, <3>3, <4>1, <4>2 DEF DeletionInv, RequestInv, RowInv
    <3>4. CASE q # r
      <4>1. ASSUME request[q].at = "read", request[q].live, request[r].live
            PROVE  t \notin request'[r].src
        BY <2>1, <2>a, <3>1, <3>2, <3>4, <4>1 DEF Locked
      <4> QED BY <2>a, <3>1, <3>4, <4>1 DEF DeletionInv, RequestInv
    <3> QED BY <3>3, <3>4
  <2> QED BY <2>3, <2>4
<1> QED BY <1>1, <1>2, <1>3, <1>4 DEF DeletionInv

LEMMA RequestCommitInv ==
    ASSUME NEW r \in Requester, DeletionInv, RequestCommit(r)
    PROVE  DeletionInv'
<1>1. TypeOK'
  <2>1. PICK s \in request[r].src :
            /\ source' = [source EXCEPT ![s] =
                  IF source[s] = "live" THEN "tombstoned" ELSE source[s]]
            /\ held' = [held EXCEPT ![s] =
                  IF source[s] = "live" THEN store[s] ELSE held[s]]
            /\ work' = [work EXCEPT ![s] = [work[s] EXCEPT !.exec =
                  IF work[s].exec = "running" THEN "stale" ELSE work[s].exec]]
            /\ intent' = [intent EXCEPT ![s] = Requested(intent[s], request[r].seen)]
            /\ answer' = [answer EXCEPT ![s] =
                  IF r = "delete" THEN ImmediateCleanup ELSE answer[s]]
    BY DEF RequestCommit
  <2>2. s \in Source
    BY DEF DeletionInv, TypeOK, RequestTx
  <2>3. intent' \in [Source -> IntentRow]
    BY <2>1, <2>2, IntentRowClosed DEF DeletionInv, TypeOK
  <2>4. [work[s] EXCEPT !.exec =
            IF work[s].exec = "running" THEN "stale" ELSE work[s].exec] \in WorkRun
    BY <2>2 DEF DeletionInv, TypeOK, WorkRun
  <2>5. work' \in [Source -> WorkRun]
    BY <2>1, <2>4 DEF DeletionInv, TypeOK
  <2>6. /\ source' \in [Source -> {"live", "tombstoned", "gone"}]
        /\ held' \in [Source -> SUBSET Object]
    BY <2>1, <2>2 DEF DeletionInv, TypeOK
  <2>7. answer' \in [Source -> {"none", "completed"}]
    BY <2>1, <2>2 DEF DeletionInv, TypeOK, ImmediateCleanup
  <2>8. request' \in [Requester -> RequestTx]
    BY DEF DeletionInv, TypeOK, RequestCommit, NoRequest, RequestTx, Status
  <2> QED BY <2>3, <2>5, <2>6, <2>7, <2>8 DEF DeletionInv, TypeOK, RequestCommit
<1>2. RowInv'
  BY DEF DeletionInv, TypeOK, RowInv, RequestInv, RequestCommit, Requested
<1>3. SweepInv'
  BY DEF DeletionInv, SweepInv, RequestCommit
<1>4. RequestInv'
  BY DEF DeletionInv, TypeOK, RequestInv, RequestCommit, NoRequest
<1> QED BY <1>1, <1>2, <1>3, <1>4 DEF DeletionInv

LEMMA RequestAbortInv ==
    ASSUME NEW r \in Requester, DeletionInv, RequestAbort(r)
    PROVE  DeletionInv'
<1>1. TypeOK'
  BY DeletionAssumption DEF DeletionInv, TypeOK, Status, RequestTx,
     RequestAbort, NoRequest
<1>2. RowInv'
  BY DEF DeletionInv, RowInv, RequestAbort
<1>3. SweepInv'
  BY DEF DeletionInv, SweepInv, RequestAbort
<1>4. RequestInv'
  BY DEF DeletionInv, RequestInv, RequestAbort, NoRequest
<1> QED BY <1>1, <1>2, <1>3, <1>4 DEF DeletionInv

LEMMA BackoffElapsesInv ==
    ASSUME NEW s \in Source, DeletionInv, BackoffElapses(s)
    PROVE  DeletionInv'
<1>1. TypeOK'
  <2>1. [intent[s] EXCEPT !.due = TRUE] \in IntentRow
    BY DEF DeletionInv, TypeOK, IntentRow
  <2>2. intent' = [intent EXCEPT ![s] = [intent[s] EXCEPT !.due = TRUE]]
    BY DEF BackoffElapses
  <2> QED BY <2>1, <2>2 DEF DeletionInv, TypeOK, BackoffElapses
<1>2. RowInv'
  BY DEF DeletionInv, RowInv, BackoffElapses
<1>3. SweepInv'
  BY DEF DeletionInv, SweepInv, BackoffElapses
<1>4. RequestInv'
  BY DEF DeletionInv, RequestInv, BackoffElapses
<1> QED BY <1>1, <1>2, <1>3, <1>4 DEF DeletionInv

LEMMA SweepSelectInv ==
    ASSUME NEW w \in Sweeper, DeletionInv, SweepSelect(w)
    PROVE  DeletionInv'
<1>1. TypeOK'
  BY DeletionAssumption DEF DeletionInv, TypeOK, SweepRun, SweepSelect,
     Selected
<1>2. RowInv'
  BY DEF DeletionInv, RowInv, SweepSelect
<1>3. SweepInv'
  BY DEF DeletionInv, RowInv, SweepInv, SweepSelect, Selected
<1>4. RequestInv'
  BY DEF DeletionInv, RequestInv, SweepSelect
<1> QED BY <1>1, <1>2, <1>3, <1>4 DEF DeletionInv

LEMMA SweepClaimInv ==
    ASSUME NEW w \in Sweeper, DeletionInv, SweepClaim(w)
    PROVE  DeletionInv'
<1>1. TypeOK'
  <2>1. PICK s \in sweep[w].due :
            /\ intent' = [intent EXCEPT ![s] =
                  IF Finished(intent[s]) THEN [intent[s] EXCEPT !.status = "completed"]
                  ELSE Claimed(intent[s])]
            /\ sweep' = [sweep EXCEPT ![w] =
                  IF Finished(intent[s]) THEN NextRow(sweep[w].due \ {s})
                  ELSE [at |-> "list", due |-> sweep[w].due \ {s}, row |-> {s},
                        left |-> {}]]
    BY DEF SweepClaim
  <2>2. s \in Source /\ sweep[w].due \subseteq Source
    BY DEF DeletionInv, TypeOK, SweepRun
  <2>3. /\ [intent[s] EXCEPT !.status = "completed"] \in IntentRow
        /\ Claimed(intent[s]) \in IntentRow
    BY <2>2, IntentRowClosed DEF DeletionInv, TypeOK
  <2>4. /\ NextRow(sweep[w].due \ {s}) \in SweepRun
        /\ [at |-> "list", due |-> sweep[w].due \ {s}, row |-> {s}, left |-> {}]
              \in SweepRun
    BY <2>2, NextRowType DEF SweepRun
  <2>5. intent' \in [Source -> IntentRow]
    BY <2>1, <2>3 DEF DeletionInv, TypeOK
  <2>6. sweep' \in [Sweeper -> SweepRun]
    BY <2>1, <2>4 DEF DeletionInv, TypeOK
  <2> QED BY <2>5, <2>6 DEF DeletionInv, TypeOK, SweepClaim
<1>2. RowInv'
  BY DEF DeletionInv, TypeOK, RowInv, SweepInv, SweepClaim, Finished, Claimed
<1>3. SweepInv'
  BY DEF DeletionInv, SweepInv, SweepClaim, NextRow, NoSweep
<1>4. RequestInv'
  BY DEF DeletionInv, RequestInv, SweepClaim
<1> QED BY <1>1, <1>2, <1>3, <1>4 DEF DeletionInv

LEMMA SweepListInv ==
    ASSUME NEW w \in Sweeper, DeletionInv, SweepList(w)
    PROVE  DeletionInv'
<1>1. TypeOK'
  <2>1. PICK s \in sweep[w].row :
            sweep' = [sweep EXCEPT ![w] =
                         [sweep[w] EXCEPT !.at = "remove", !.left = store[s]]]
    BY DEF SweepList
  <2>2. s \in Source
    BY DEF DeletionInv, TypeOK, SweepRun
  <2>3. [sweep[w] EXCEPT !.at = "remove", !.left = store[s]] \in SweepRun
    BY <2>2 DEF DeletionInv, TypeOK, SweepRun
  <2> QED BY <2>1, <2>3 DEF DeletionInv, TypeOK, SweepList
<1>2. RowInv'
  BY DEF DeletionInv, RowInv, SweepList
<1>3. SweepInv'
  <2> SUFFICES ASSUME NEW v \in Sweeper
               PROVE  /\ \A t \in sweep'[v].due \cup sweep'[v].row :
                            source[t] # "live"
                      /\ \A t, u \in sweep'[v].row : t = u
                      /\ sweep'[v].at = "remove" =>
                            \A t \in sweep'[v].row : held[t] \subseteq sweep'[v].left
    BY DEF SweepInv, SweepList
  <2>1. CASE v # w
    BY <2>1 DEF DeletionInv, TypeOK, SweepInv, SweepList
  <2>2. CASE v = w
    <3>1. PICK s \in sweep[w].row :
              sweep' = [sweep EXCEPT ![w] =
                           [sweep[w] EXCEPT !.at = "remove", !.left = store[s]]]
      BY DEF SweepList
    <3>2. /\ sweep'[w].due = sweep[w].due
          /\ sweep'[w].row = sweep[w].row
          /\ sweep'[w].left = store[s]
      BY <3>1 DEF DeletionInv, TypeOK, SweepRun
    <3>3. sweep[w].row = {s}
      BY DEF DeletionInv, SweepInv, SweepList
    <3>4. s \in Source
      BY DEF DeletionInv, TypeOK, SweepRun
    <3> QED BY <2>2, <3>2, <3>3, <3>4 DEF DeletionInv, SweepInv, RowInv
  <2> QED BY <2>1, <2>2
<1>4. RequestInv'
  BY DEF DeletionInv, RequestInv, SweepList
<1> QED BY <1>1, <1>2, <1>3, <1>4 DEF DeletionInv

LEMMA SweepObjectInv ==
    ASSUME NEW w \in Sweeper, DeletionInv, SweepObject(w)
    PROVE  DeletionInv'
<1>1. TypeOK'
  <2>1. PICK s \in sweep[w].row, o \in sweep[w].left :
            /\ sweep' = [sweep EXCEPT ![w] =
                  [sweep[w] EXCEPT !.left = sweep[w].left \ {o}]]
            /\ store' = [store EXCEPT ![s] = store[s] \ {o}]
            /\ held' = [held EXCEPT ![s] = held[s] \ {o}]
    BY DEF SweepObject
  <2>2. s \in Source /\ sweep[w].left \subseteq Object
    BY DEF DeletionInv, TypeOK, SweepRun
  <2>3. [sweep[w] EXCEPT !.left = sweep[w].left \ {o}] \in SweepRun
    BY <2>2 DEF DeletionInv, TypeOK, SweepRun
  <2> QED BY <2>1, <2>2, <2>3 DEF DeletionInv, TypeOK, SweepObject
<1>2. RowInv'
  BY DEF DeletionInv, TypeOK, RowInv, SweepObject
<1>3. SweepInv'
  <2>1. PICK s \in sweep[w].row, o \in sweep[w].left :
            /\ sweep' = [sweep EXCEPT ![w] =
                  [sweep[w] EXCEPT !.left = sweep[w].left \ {o}]]
            /\ held' = [held EXCEPT ![s] = held[s] \ {o}]
    BY DEF SweepObject
  <2>2. sweep[w].row = {s} /\ s \in Source
    BY DEF DeletionInv, TypeOK, SweepRun, SweepInv, SweepObject
  <2> SUFFICES ASSUME NEW v \in Sweeper
               PROVE  /\ \A t \in sweep'[v].due \cup sweep'[v].row :
                            source[t] # "live"
                      /\ \A t, u \in sweep'[v].row : t = u
                      /\ sweep'[v].at = "remove" =>
                            \A t \in sweep'[v].row : held'[t] \subseteq sweep'[v].left
    BY DEF SweepInv, SweepObject
  <2>3. \A t \in Source : held'[t] \subseteq held[t]
    BY <2>1, <2>2 DEF DeletionInv, TypeOK
  <2>4. CASE v # w
    BY <2>1, <2>3, <2>4 DEF DeletionInv, TypeOK, SweepRun, SweepInv
  <2>5. CASE v = w
    <3>1. /\ sweep'[w].due = sweep[w].due
          /\ sweep'[w].row = {s}
          /\ sweep'[w].left = sweep[w].left \ {o}
          /\ sweep[w].at = "remove"
      BY <2>1, <2>2 DEF DeletionInv, TypeOK, SweepRun, SweepObject
    <3>2. held'[s] = held[s] \ {o} /\ held[s] \subseteq sweep[w].left
      BY <2>1, <2>2, <3>1 DEF DeletionInv, TypeOK, SweepInv
    <3> QED BY <2>2, <2>5, <3>1, <3>2 DEF DeletionInv, SweepInv
  <2> QED BY <2>4, <2>5
<1>4. RequestInv'
  BY DEF DeletionInv, RequestInv, SweepObject
<1> QED BY <1>1, <1>2, <1>3, <1>4 DEF DeletionInv

LEMMA StorageFailsInv ==
    ASSUME NEW w \in Sweeper, DeletionInv, StorageFails(w)
    PROVE  DeletionInv'
<1>1. TypeOK'
  <2>1. PICK s \in sweep[w].row :
            intent' = [intent EXCEPT ![s] = Failed(intent[s], intent[s].attempts >= MaxAttempts)]
    BY DEF StorageFails
  <2>2. s \in Source /\ sweep[w].due \subseteq Source
    BY DEF DeletionInv, TypeOK, SweepRun
  <2>3. Failed(intent[s], intent[s].attempts >= MaxAttempts) \in IntentRow
    BY <2>2, IntentRowClosed DEF DeletionInv, TypeOK
  <2>4. NextRow(sweep[w].due) \in SweepRun
    BY <2>2, NextRowType
  <2>5. intent' \in [Source -> IntentRow]
    BY <2>1, <2>3 DEF DeletionInv, TypeOK
  <2>6. sweep' \in [Sweeper -> SweepRun]
    BY <2>4 DEF DeletionInv, TypeOK, StorageFails
  <2>7. faults' \in 0..MaxFaults
    BY DeletionAssumption DEF DeletionInv, TypeOK, StorageFails
  <2> QED BY <2>5, <2>6, <2>7 DEF DeletionInv, TypeOK, StorageFails
<1>2. RowInv'
  BY DEF DeletionInv, RowInv, SweepInv, StorageFails, Failed
<1>3. SweepInv'
  BY DEF DeletionInv, SweepInv, StorageFails, NextRow, NoSweep
<1>4. RequestInv'
  BY DEF DeletionInv, RequestInv, StorageFails
<1> QED BY <1>1, <1>2, <1>3, <1>4 DEF DeletionInv

LEMMA RemoveRowsInv ==
    ASSUME NEW w \in Sweeper, DeletionInv, RemoveRows(w)
    PROVE  DeletionInv'
<1>1. TypeOK'
  <2>1. PICK s \in sweep[w].row :
            /\ source' = [source EXCEPT ![s] =
                  IF Finished(intent[s]) THEN source[s] ELSE "gone"]
            /\ work' = [work EXCEPT ![s] = [work[s] EXCEPT !.exec =
                  IF Finished(intent[s]) THEN work[s].exec ELSE "none"]]
            /\ intent' = [intent EXCEPT ![s] =
                  IF Finished(intent[s]) THEN [intent[s] EXCEPT !.status = "completed"]
                  ELSE Completed(intent[s])]
    BY DEF RemoveRows
  <2>2. s \in Source /\ sweep[w].due \subseteq Source
    BY DEF DeletionInv, TypeOK, SweepRun
  <2>3. /\ [intent[s] EXCEPT !.status = "completed"] \in IntentRow
        /\ Completed(intent[s]) \in IntentRow
    BY <2>2, IntentRowClosed DEF DeletionInv, TypeOK
  <2>4. NextRow(sweep[w].due) \in SweepRun
    BY <2>2, NextRowType
  <2>5. intent' \in [Source -> IntentRow]
    BY <2>1, <2>3 DEF DeletionInv, TypeOK
  <2>6. sweep' \in [Sweeper -> SweepRun]
    BY <2>4 DEF DeletionInv, TypeOK, RemoveRows
  <2>7. [work[s] EXCEPT !.exec = IF Finished(intent[s]) THEN work[s].exec ELSE "none"]
           \in WorkRun
    BY <2>2 DEF DeletionInv, TypeOK, WorkRun
  <2>8. work' \in [Source -> WorkRun]
    BY <2>1, <2>7 DEF DeletionInv, TypeOK
  <2>9. source' \in [Source -> {"live", "tombstoned", "gone"}]
    BY <2>1, <2>2 DEF DeletionInv, TypeOK
  <2> QED BY <2>5, <2>6, <2>8, <2>9 DEF DeletionInv, TypeOK, RemoveRows
<1>2. RowInv'
  BY DEF DeletionInv, TypeOK, SweepRun, RowInv, SweepInv, RemoveRows, Finished,
     Completed
<1>3. SweepInv'
  BY DEF DeletionInv, SweepInv, RemoveRows, NextRow, NoSweep
<1>4. RequestInv'
  BY DEF DeletionInv, SweepInv, RequestInv, RemoveRows
<1> QED BY <1>1, <1>2, <1>3, <1>4 DEF DeletionInv

LEMMA RemoveFailsInv ==
    ASSUME NEW w \in Sweeper, DeletionInv, RemoveFails(w)
    PROVE  DeletionInv'
<1>1. TypeOK'
  <2>1. PICK s \in sweep[w].row :
            intent' = [intent EXCEPT ![s] = Failed(intent[s], FALSE)]
    BY DEF RemoveFails
  <2>2. s \in Source /\ sweep[w].due \subseteq Source
    BY DEF DeletionInv, TypeOK, SweepRun
  <2>3. Failed(intent[s], FALSE) \in IntentRow
    BY <2>2, IntentRowClosed DEF DeletionInv, TypeOK
  <2>4. NextRow(sweep[w].due) \in SweepRun
    BY <2>2, NextRowType
  <2>5. intent' \in [Source -> IntentRow]
    BY <2>1, <2>3 DEF DeletionInv, TypeOK
  <2>6. sweep' \in [Sweeper -> SweepRun]
    BY <2>4 DEF DeletionInv, TypeOK, RemoveFails
  <2>7. faults' \in 0..MaxFaults
    BY DeletionAssumption DEF DeletionInv, TypeOK, RemoveFails
  <2> QED BY <2>5, <2>6, <2>7 DEF DeletionInv, TypeOK, RemoveFails
<1>2. RowInv'
  BY DEF DeletionInv, RowInv, SweepInv, RemoveFails, Failed
<1>3. SweepInv'
  BY DEF DeletionInv, SweepInv, RemoveFails, NextRow, NoSweep
<1>4. RequestInv'
  BY DEF DeletionInv, RequestInv, RemoveFails
<1> QED BY <1>1, <1>2, <1>3, <1>4 DEF DeletionInv

LEMMA SweepCrashInv ==
    ASSUME NEW w \in Sweeper, DeletionInv, SweepCrash(w)
    PROVE  DeletionInv'
<1>1. TypeOK'
  BY DeletionAssumption DEF DeletionInv, TypeOK, SweepRun, SweepCrash, NoSweep
<1>2. RowInv'
  BY DEF DeletionInv, RowInv, SweepCrash
<1>3. SweepInv'
  BY DEF DeletionInv, SweepInv, SweepCrash, NoSweep
<1>4. RequestInv'
  BY DEF DeletionInv, RequestInv, SweepCrash
<1> QED BY <1>1, <1>2, <1>3, <1>4 DEF DeletionInv

LEMMA WorkStartInv ==
    ASSUME NEW s \in Source, DeletionInv, WorkStart(s)
    PROVE  DeletionInv'
<1>1. TypeOK'
  <2>1. /\ [work[s] EXCEPT !.at = "extract", !.exec = "running"] \in WorkRun
        /\ [work[s] EXCEPT !.at = "done"] \in WorkRun
    BY DEF DeletionInv, TypeOK, WorkRun
  <2> QED BY <2>1 DEF DeletionInv, TypeOK, WorkStart
<1>2. RowInv'
  BY DEF DeletionInv, RowInv, WorkStart
<1>3. SweepInv'
  BY DEF DeletionInv, SweepInv, WorkStart
<1>4. RequestInv'
  BY DEF DeletionInv, RequestInv, WorkStart
<1> QED BY <1>1, <1>2, <1>3, <1>4 DEF DeletionInv

LEMMA WorkUploadInv ==
    ASSUME NEW s \in Source, DeletionInv, WorkUpload(s)
    PROVE  DeletionInv'
<1>1. TypeOK'
  <2>1. PICK o \in work[s].todo :
            /\ store' = [store EXCEPT ![s] = store[s] \cup {o}]
            /\ work' = [work EXCEPT ![s] =
                  [work[s] EXCEPT !.todo = work[s].todo \ {o}]]
    BY DEF WorkUpload
  <2>2. work[s].todo \subseteq Object
    BY DEF DeletionInv, TypeOK, WorkRun
  <2>3. [work[s] EXCEPT !.todo = work[s].todo \ {o}] \in WorkRun
    BY <2>2 DEF DeletionInv, TypeOK, WorkRun
  <2> QED BY <2>1, <2>2, <2>3 DEF DeletionInv, TypeOK, WorkUpload
<1>2. RowInv'
  BY DEF DeletionInv, RowInv, WorkUpload
<1>3. SweepInv'
  BY DEF DeletionInv, SweepInv, WorkUpload
<1>4. RequestInv'
  BY DEF DeletionInv, RequestInv, WorkUpload
<1> QED BY <1>1, <1>2, <1>3, <1>4 DEF DeletionInv

LEMMA WorkFenceInv ==
    ASSUME NEW s \in Source, DeletionInv, WorkFence(s)
    PROVE  DeletionInv'
<1>1. TypeOK'
  BY DeletionAssumption DEF DeletionInv, TypeOK, Status, Active, Requester,
     WorkRun, WorkFence
<1>2. RowInv'
  BY DEF DeletionInv, RowInv, WorkFence
<1>3. SweepInv'
  BY DEF DeletionInv, SweepInv, WorkFence
<1>4. RequestInv'
  BY DEF DeletionInv, RequestInv, WorkFence
<1> QED BY <1>1, <1>2, <1>3, <1>4 DEF DeletionInv

LEMMA WorkParkInv ==
    ASSUME NEW s \in Source, DeletionInv, WorkPark(s)
    PROVE  DeletionInv'
<1>1. TypeOK'
  <2>1. PICK e \in {"none", "running", "stale", "completed"} :
            work' = [work EXCEPT ![s] = [work[s] EXCEPT !.at = "parked",
                                                        !.exec = e]]
    BY DEF DeletionInv, TypeOK, WorkRun, WorkPark
  <2>2. [work[s] EXCEPT !.at = "parked", !.exec = e] \in WorkRun
    BY DEF DeletionInv, TypeOK, WorkRun
  <2>3. work' \in [Source -> WorkRun]
    BY <2>1, <2>2 DEF DeletionInv, TypeOK
  <2>4. UNCHANGED <<source, intent, store, held, request, sweep, answer, faults>>
    BY DEF WorkPark
  <2> QED BY <2>3, <2>4 DEF DeletionInv, TypeOK
<1>2. RowInv'
  BY DEF DeletionInv, RowInv, WorkPark
<1>3. SweepInv'
  BY DEF DeletionInv, SweepInv, WorkPark
<1>4. RequestInv'
  BY DEF DeletionInv, RequestInv, WorkPark
<1> QED BY <1>1, <1>2, <1>3, <1>4 DEF DeletionInv

LEMMA ApproveExtractionInv ==
    ASSUME NEW s \in Source, DeletionInv, ApproveExtraction(s)
    PROVE  DeletionInv'
<1>1. TypeOK'
  <2>1. [work[s] EXCEPT !.at = "compile", !.exec = "running"] \in WorkRun
    BY DEF DeletionInv, TypeOK, WorkRun
  <2>2. work' = [work EXCEPT ![s] = [work[s] EXCEPT !.at = "compile", !.exec = "running"]]
    BY DEF ApproveExtraction
  <2>3. work' \in [Source -> WorkRun]
    BY <2>1, <2>2 DEF DeletionInv, TypeOK
  <2>4. UNCHANGED <<source, intent, store, held, request, sweep, answer, faults>>
    BY DEF ApproveExtraction
  <2> QED BY <2>3, <2>4 DEF DeletionInv, TypeOK
<1>2. RowInv'
  BY DEF DeletionInv, RowInv, ApproveExtraction
<1>3. SweepInv'
  BY DEF DeletionInv, SweepInv, ApproveExtraction
<1>4. RequestInv'
  BY DEF DeletionInv, RequestInv, ApproveExtraction
<1> QED BY <1>1, <1>2, <1>3, <1>4 DEF DeletionInv

LEMMA WorkCommitInv ==
    ASSUME NEW s \in Source, DeletionInv, WorkCommit(s)
    PROVE  DeletionInv'
<1>1. TypeOK'
  <2>1. PICK e \in {"none", "running", "stale", "completed"} :
            work' = [work EXCEPT ![s] = [work[s] EXCEPT !.at = "done",
                                                        !.exec = e]]
    BY DEF DeletionInv, TypeOK, WorkRun, WorkCommit
  <2>2. [work[s] EXCEPT !.at = "done", !.exec = e] \in WorkRun
    BY DEF DeletionInv, TypeOK, WorkRun
  <2> QED BY <2>1, <2>2 DEF DeletionInv, TypeOK, WorkCommit
<1>2. RowInv'
  BY DEF DeletionInv, RowInv, WorkCommit
<1>3. SweepInv'
  BY DEF DeletionInv, SweepInv, WorkCommit
<1>4. RequestInv'
  BY DEF DeletionInv, RequestInv, WorkCommit
<1> QED BY <1>1, <1>2, <1>3, <1>4 DEF DeletionInv

-------------------------------------------------------------------------------
LEMMA DeletionInit == Init => DeletionInv
<1> SUFFICES ASSUME Init PROVE DeletionInv
  OBVIOUS
<1>1. TypeOK
  <2>1. \A s \in Source : store[s] \subseteq Object
    BY DEF Init
  <2>2. \A s \in Source : [at |-> IF s \in Ingesting THEN "new" ELSE "done",
                           exec |-> "none", todo |-> Object \ store[s]] \in WorkRun
    BY DEF WorkRun
  <2>3. work \in [Source -> WorkRun]
    BY <2>2 DEF Init
  <2>4. intent \in [Source -> IntentRow]
    BY DeletionAssumption DEF Init, IntentRow, Status
  <2>5. request \in [Requester -> RequestTx] /\ sweep \in [Sweeper -> SweepRun]
    BY DEF Init, NoRequest, NoSweep, RequestTx, SweepRun, Status
  <2> QED BY DeletionAssumption, <2>3, <2>4, <2>5 DEF Init, TypeOK
<1>2. RowInv
  BY DEF Init, RowInv
<1>3. SweepInv
  BY DEF Init, SweepInv, NoSweep
<1>4. RequestInv
  BY DEF Init, RequestInv, NoRequest
<1> QED BY <1>1, <1>2, <1>3, <1>4 DEF DeletionInv

\* Every step of a request, a sweep or a worker preserves the invariant.
LEMMA DeletionStep == DeletionInv /\ [Next]_vars => DeletionInv'
<1> SUFFICES ASSUME DeletionInv, [Next]_vars PROVE DeletionInv'
  OBVIOUS
<1>1. CASE \E s \in Source : ApiLoad(s) \/ CronLoad(s) \/ BackoffElapses(s)
  BY <1>1, ApiLoadInv, CronLoadInv, BackoffElapsesInv
<1>2. CASE \E s \in Source : \/ WorkStart(s) \/ WorkUpload(s) \/ WorkFence(s)
                             \/ WorkPark(s) \/ ApproveExtraction(s) \/ WorkCommit(s)
  BY <1>2, WorkStartInv, WorkUploadInv, WorkFenceInv, WorkParkInv,
     ApproveExtractionInv, WorkCommitInv
<1>3. CASE \E r \in Requester : RequestRead(r) \/ RequestCommit(r) \/ RequestAbort(r)
  BY <1>3, RequestReadInv, RequestCommitInv, RequestAbortInv
<1>4. CASE \E w \in Sweeper : SweepSelect(w) \/ SweepClaim(w) \/ SweepList(w)
                              \/ SweepObject(w)
  BY <1>4, SweepSelectInv, SweepClaimInv, SweepListInv, SweepObjectInv
<1>5. CASE \E w \in Sweeper : StorageFails(w) \/ RemoveRows(w) \/ RemoveFails(w)
                              \/ SweepCrash(w)
  BY <1>5, StorageFailsInv, RemoveRowsInv, RemoveFailsInv, SweepCrashInv
<1>6. CASE UNCHANGED vars
  BY <1>6 DEF DeletionInv, TypeOK, RowInv, SweepInv, RequestInv, vars
<1> QED BY <1>1, <1>2, <1>3, <1>4, <1>5, <1>6 DEF Next

\* The inductive invariant of requests, sweeps and workers together.
THEOREM DeletionInvariant == Spec => []DeletionInv
<1> QED BY DeletionInit, DeletionStep, PTL DEF Spec

\* The rows of source_deletions, and everything around them, keep their types.
THEOREM DeletionTypes == Spec => []TypeOK
<1>1. DeletionInv => TypeOK
  BY DEF DeletionInv
<1> QED BY <1>1, DeletionInvariant, PTL

\* A completed intent means a removed row, and a removed row a clean prefix,
\* for any number of overlapping sweeps, crashes and storage errors.
THEOREM RemovedIsClean == Spec => []ErasedMeansClean
<1>1. DeletionInv => ErasedMeansClean
  BY DEF DeletionInv, TypeOK, RowInv, ErasedMeansClean
<1> QED BY <1>1, DeletionInvariant, PTL

\* As long as the source is there, last_error tells whether its cleanup failed.
THEOREM FailuresAreVisible == Spec => []FailureIsVisible
<1>1. DeletionInv => FailureIsVisible
  BY DEF DeletionInv, RowInv, FailureIsVisible
<1> QED BY <1>1, DeletionInvariant, PTL

-------------------------------------------------------------------------------
(* The refinement *)

\* The commit of a request hides a live source and changes no other row.
LEMMA CommitHides ==
    ASSUME NEW r \in Requester, DeletionInv, RequestCommit(r)
    PROVE  Contract!Next \/ UNCHANGED <<source, held>>
<1>1. PICK s \in request[r].src :
          /\ source' = [source EXCEPT ![s] =
                IF source[s] = "live" THEN "tombstoned" ELSE source[s]]
          /\ held' = [held EXCEPT ![s] =
                IF source[s] = "live" THEN store[s] ELSE held[s]]
  BY DEF RequestCommit
<1>2. s \in Source /\ store[s] \in SUBSET Object
  BY DEF DeletionInv, TypeOK, RequestTx
<1>3. CASE source[s] = "live"
  <2>1. Contract!Hide(s)
    BY <1>1, <1>2, <1>3 DEF Contract!Hide
  <2> QED BY <1>2, <2>1 DEF Contract!Next
<1>4. CASE source[s] # "live"
  BY <1>1, <1>2, <1>4 DEF DeletionInv, TypeOK
<1> QED BY <1>3, <1>4

\* A removed object is one the tombstone owed, or a late upload.
LEMMA ObjectCleans ==
    ASSUME NEW w \in Sweeper, DeletionInv, SweepObject(w)
    PROVE  Contract!Next \/ UNCHANGED <<source, held>>
<1>1. PICK s \in sweep[w].row, o \in sweep[w].left :
          held' = [held EXCEPT ![s] = held[s] \ {o}]
  BY DEF SweepObject
<1>2. s \in Source /\ source[s] \in {"tombstoned", "gone"} /\ source' = source
  BY DEF DeletionInv, TypeOK, SweepRun, SweepInv, SweepObject
<1>3. CASE o \in held[s]
  <2>1. source[s] = "tombstoned"
    BY <1>2, <1>3 DEF DeletionInv, RowInv
  <2>2. held[s] \ {o} \in SUBSET held[s] /\ held[s] \ {o} # held[s]
    BY <1>3
  <2>3. Contract!Clean(s)
    BY <1>1, <1>2, <2>1, <2>2 DEF Contract!Clean
  <2> QED BY <1>2, <2>3 DEF Contract!Next
<1>4. CASE o \notin held[s]
  <2>1. held[s] \ {o} = held[s]
    BY <1>4
  <2> QED BY <1>1, <1>2, <2>1 DEF DeletionInv, TypeOK
<1> QED BY <1>3, <1>4

\* The row goes after the list is worked off, which covers every owed object.
LEMMA RowsRemove ==
    ASSUME NEW w \in Sweeper, DeletionInv, RemoveRows(w)
    PROVE  Contract!Next \/ UNCHANGED <<source, held>>
<1>1. PICK s \in sweep[w].row :
          source' = [source EXCEPT ![s] =
                        IF Finished(intent[s]) THEN source[s] ELSE "gone"]
  BY DEF RemoveRows
<1>2. s \in Source /\ held' = held
  BY DEF DeletionInv, TypeOK, SweepRun, RemoveRows
<1>3. CASE Finished(intent[s])
  BY <1>1, <1>2, <1>3 DEF DeletionInv, TypeOK
<1>4. CASE ~Finished(intent[s])
  <2>1. source[s] = "tombstoned"
    BY <1>2, <1>4 DEF DeletionInv, RowInv, Finished
  <2>2. held[s] = {}
    BY <1>1 DEF DeletionInv, SweepInv, RemoveRows
  <2>3. Contract!Remove(s)
    BY <1>1, <1>2, <1>4, <2>1, <2>2 DEF Contract!Remove
  <2> QED BY <1>2, <2>3 DEF Contract!Next
<1> QED BY <1>3, <1>4

\* Requests, sweeps, crashes and workers implement the safety of the contract:
\* hide first, then clean, and remove a row only when nothing of it is left.
THEOREM ImplementsContract == Spec => Contract!Safety
<1>1. Init => Contract!Init
  BY DEF Init, Contract!Init
<1>2. DeletionInv /\ [Next]_vars => [Contract!Next]_(Contract!vars)
  <2> SUFFICES ASSUME DeletionInv, [Next]_vars
               PROVE  Contract!Next \/ UNCHANGED <<source, held>>
    BY DEF Contract!vars
  <2>1. CASE \E s \in Source : ApiLoad(s) \/ CronLoad(s) \/ BackoffElapses(s)
    BY <2>1 DEF ApiLoad, CronLoad, BackoffElapses
  <2>2. CASE \E s \in Source : \/ WorkStart(s) \/ WorkUpload(s) \/ WorkFence(s)
                               \/ WorkPark(s) \/ ApproveExtraction(s)
                               \/ WorkCommit(s)
    BY <2>2 DEF WorkStart, WorkUpload, WorkFence, WorkPark, ApproveExtraction,
                WorkCommit
  <2>3. CASE \E r \in Requester : RequestRead(r) \/ RequestAbort(r)
    BY <2>3 DEF RequestRead, RequestAbort
  <2>4. CASE \E w \in Sweeper : \/ SweepSelect(w) \/ SweepClaim(w) \/ SweepList(w)
                                \/ StorageFails(w) \/ RemoveFails(w) \/ SweepCrash(w)
    BY <2>4 DEF SweepSelect, SweepClaim, SweepList, StorageFails, RemoveFails,
                SweepCrash
  <2>5. CASE UNCHANGED vars
    BY <2>5 DEF vars
  <2> QED BY <2>1, <2>2, <2>3, <2>4, <2>5, CommitHides, ObjectCleans, RowsRemove
          DEF Next
<1> QED BY <1>1, <1>2, DeletionInvariant, PTL DEF Spec, Contract!Safety
===============================================================================
