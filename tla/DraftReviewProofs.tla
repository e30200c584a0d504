------------------------- MODULE DraftReviewProofs -------------------------
(***************************************************************************)
(* Proofs about DraftReview for any number of drafts, requests and         *)
(* versions: the ledger follows the drafts, approvals of the page are      *)
(* serial, and what is published is what was reviewed.                     *)
(***************************************************************************)
EXTENDS DraftReview, Integers, TLAPS

Approved == {"approved", "published"}

Decided == {"rejected", "withdrawn"}

\* the ledger states in which a draft can still be decided on
InPlay == {"draft", "in_review", "needs_revision"}

\* a rejection or a withdrawal is the last event of its draft
Last(entry) == \A e \in entry.events : e[1] \in Decided => entry.state = e[1]

\* a draft and its ledger
RowInv(d) ==
    /\ draft[d].round < draft[d].version
    /\ draft[d].status = "none" =>
          ledger[d].state = "none" /\ d \notin unlogged
    /\ ledger[d].approval # NoApproval <=> ledger[d].state \in Approved
    /\ draft[d].gen <= generation
    /\ Last(ledger[d])
    /\ d \notin unlogged /\ ledger[d].state \in InPlay =>
          draft[d].status \in Open /\ (draft[d].gen = 0 \/ draft[d].gen >= fence)

\* an approval, the draft it was given to and the page it wrote
ApprovalInv(d) ==
    LET a == ledger[d].approval
    IN  a # NoApproval =>
          /\ a.digest.page <= page.version
          /\ a.digest.page = page.version => a.digest.content = page.content
          /\ ~a.forced => a.digest.base + 1 >= a.digest.page
          /\ ~a.edited /\ a.digest.version = draft[d].version =>
                a.digest.content = draft[d].content

\* what a request read is a state its draft was in
RequestInv(r) ==
    LET d == req[r].draft
    IN  req[r].kind # "idle" =>
          /\ draft[d].status # "none"
          /\ req[r].kind \in {"approve", "merge"} =>
                /\ req[r].revision \in Revision
                /\ req[r].revision.round < req[r].revision.version
                /\ req[r].revision.version <= draft[d].version
                /\ req[r].revision.version = draft[d].version =>
                      req[r].revision.content = draft[d].content
          /\ req[r].kind = "withdraw" => req[r].status \in Open
          /\ req[r].kind = "override" => d \in Branched

DraftsInv == \A d \in Draft : RowInv(d)
ApprovalsInv == \A d \in Draft : ApprovalInv(d)
RequestsInv == \A r \in Request : RequestInv(r)
PublicationInv ==
    publication # NoPublication => ledger[publication.draft].approval # NoApproval

ReviewInv ==
    /\ TypeOK
    /\ DraftsInv /\ ApprovalsInv /\ RequestsInv /\ PublicationInv
    /\ fence <= generation
    /\ StatusMatchesLedger /\ RevisionsAreSerial /\ PublishedIsReviewed

-----------------------------------------------------------------------------
(* Rows *)

States == {"none", "draft", "in_review", "needs_revision", "approved",
           "published", "rejected", "withdrawn"}

\* the status of a draft and the state of its ledger agree
Agree(row, entry) ==
    IF row.status = "approved" THEN entry.state \in Approved
    ELSE entry.state = LedgerState(row.status)

LEMMA StateRow ==
    ASSUME NEW row \in LedgerRow, NEW state \in States
    PROVE  /\ [row EXCEPT !.state = state] \in LedgerRow
           /\ [row EXCEPT !.state = state].state = state
           /\ [row EXCEPT !.state = state].approval = row.approval
           /\ [row EXCEPT !.state = state].events = row.events
  BY DEF LedgerRow, States

LEMMA StatusRow ==
    ASSUME NEW row \in DraftRow, NEW status \in Status
    PROVE  /\ [row EXCEPT !.status = status] \in DraftRow
           /\ [row EXCEPT !.status = status].status = status
           /\ [row EXCEPT !.status = status].version = row.version
           /\ [row EXCEPT !.status = status].round = row.round
           /\ [row EXCEPT !.status = status].content = row.content
           /\ [row EXCEPT !.status = status].gen = row.gen
  BY DEF DraftRow

LEMMA EditedRow ==
    ASSUME NEW row \in DraftRow, row.round < row.version, row.version < MaxVersion,
           NEW status \in Status, NEW c \in Content, NEW new,
           new = Edited(row, status, c)
    PROVE  /\ new \in DraftRow
           /\ new.status = status
           /\ new.version = row.version + 1
           /\ new.round < new.version
           /\ new.content = c
           /\ new.gen = row.gen
<1>1. NextRound(row) \in 0..MaxVersion /\ NextRound(row) < row.version + 1
  BY DraftReviewConstants DEF NextRound, DraftRow
<1>2. row.version + 1 \in 1..MaxVersion
  BY DraftReviewConstants DEF DraftRow
<1> HIDE DEF NextRound
<1> QED BY <1>1, <1>2 DEF Edited, DraftRow

LEMMA LedgerStates ==
    \A status \in Status : LedgerState(status) \in States
  BY DEF LedgerState, Status, Open, States

\* As long as a draft is not decided on, any next state follows its events.
LEMMA LastKept ==
    ASSUME ReviewInv, NEW d \in Draft, ledger[d].state \notin Decided,
           NEW entry, entry.events = ledger[d].events
    PROVE  Last(entry)
  BY DEF ReviewInv, DraftsInv, RowInv, Last, Decided

-----------------------------------------------------------------------------
(* Steps that change one draft *)

\* A step that touches one draft keeps the invariant if it keeps the approval,
\* gives changed contents a new version, and moves status and ledger together.
LEMMA OneDraft ==
    ASSUME ReviewInv, NEW d \in Draft,
           draft' \in [Draft -> DraftRow], ledger' \in [Draft -> LedgerRow],
           \A e \in Draft \ {d} : draft'[e] = draft[e] /\ ledger'[e] = ledger[e],
           page' = page, generation' = generation, fence' = fence,
           branch' \in {"draft", "pending_merge", "merged", "closed"},
           req' \in [Request -> RequestState \cup {IdleRequest}],
           \A r \in Request : req'[r] \in {req[r], IdleRequest},
           unlogged \subseteq unlogged', unlogged' \subseteq unlogged \cup {d},
           draft[d].status # "none", draft'[d].status # "none",
           draft'[d].round < draft'[d].version,
           draft'[d].gen = draft[d].gen,
           draft'[d].version >= draft[d].version,
           draft'[d].version = draft[d].version =>
               draft'[d].content = draft[d].content,
           ledger'[d].approval = ledger[d].approval,
           ledger'[d].state \in Approved <=> ledger[d].state \in Approved,
           ledger[d].state \in Approved => draft'[d].version = draft[d].version,
           d \notin unlogged' =>
               /\ Agree(draft'[d], ledger'[d])
               /\ ledger'[d].state \in InPlay =>
                      ledger[d].state \in InPlay /\ draft'[d].status \in Open,
           Last(ledger'[d]),
           publication' \in Publication \cup {NoPublication},
           \/ publication' = publication
           \/ /\ DigestHolds(d)
              /\ publication'.draft = d
              /\ publication'.content = page.content
    PROVE  ReviewInv'
<1> USE DEF ReviewInv
<1>1. TypeOK'
  BY DEF TypeOK
<1>2. DraftsInv'
  <2> SUFFICES ASSUME NEW e \in Draft PROVE RowInv(e)'
    BY DEF DraftsInv
  <2>1. CASE e = d
    BY <2>1 DEF DraftsInv, RowInv
  <2>2. CASE e # d
    BY <2>2 DEF DraftsInv, RowInv
  <2> QED BY <2>1, <2>2
<1>3. ApprovalsInv'
  <2> SUFFICES ASSUME NEW e \in Draft PROVE ApprovalInv(e)'
    BY DEF ApprovalsInv
  <2>1. CASE e = d
    BY <2>1 DEF DraftsInv, RowInv, ApprovalsInv, ApprovalInv
  <2>2. CASE e # d
    BY <2>2 DEF ApprovalsInv, ApprovalInv
  <2> QED BY <2>1, <2>2
<1>4. RequestsInv'
  <2> SUFFICES ASSUME NEW r \in Request PROVE RequestInv(r)'
    BY DEF RequestsInv
  <2>1. CASE req'[r] = IdleRequest
    BY <2>1 DEF RequestInv, IdleRequest
  <2>2. CASE req'[r] = req[r] /\ req[r].kind # "idle"
    <3>1. req[r].draft \in Draft
      BY <2>2 DEF TypeOK, RequestState, IdleRequest
    <3>2. CASE req[r].draft = d
      <4>1. draft[d].version \in Int /\ draft'[d].version \in Int
        BY DEF TypeOK, DraftRow
      <4>2. CASE req[r].kind \in {"approve", "merge"}
        <5>1. req[r].revision.version \in Int
          BY <2>2, <4>2 DEF RequestsInv, RequestInv, Revision
        <5> QED BY <2>2, <3>2, <4>1, <4>2, <5>1 DEF RequestsInv, RequestInv
      <4>3. CASE req[r].kind \notin {"approve", "merge"}
        BY <2>2, <3>2, <4>3 DEF RequestsInv, RequestInv
      <4> QED BY <4>2, <4>3
    <3>3. CASE req[r].draft # d
      BY <2>2, <3>1, <3>3 DEF RequestsInv, RequestInv
    <3> QED BY <3>2, <3>3
  <2>3. CASE req'[r] = req[r] /\ req[r].kind = "idle"
    BY <2>3 DEF RequestInv
  <2> QED BY <2>1, <2>2, <2>3
<1>5. PublicationInv' /\ PublishedIsReviewed'
  <2>1. CASE publication' = publication /\ publication # NoPublication
    <3>1. publication.draft \in Draft
      BY <2>1 DEF TypeOK, Publication
    <3>2. CASE publication.draft = d
      BY <2>1, <3>2 DEF PublicationInv, PublishedIsReviewed, DraftsInv, RowInv
    <3>3. CASE publication.draft # d
      BY <2>1, <3>1, <3>3 DEF PublicationInv, PublishedIsReviewed
    <3> QED BY <3>2, <3>3
  <2>2. CASE publication' = NoPublication
    BY <2>2 DEF PublicationInv, PublishedIsReviewed
  <2>3. CASE /\ DigestHolds(d)
             /\ publication'.draft = d
             /\ publication'.content = page.content
    <3>1. /\ ledger[d].approval # NoApproval
          /\ ledger[d].approval.digest.content = page.content
          /\ ledger[d].approval.digest.version = draft[d].version
      BY <2>3 DEF DigestHolds, Snapshot
    <3>2. draft'[d].content = draft[d].content
      BY <3>1 DEF DraftsInv, RowInv
    <3>3. ~ledger[d].approval.edited => draft[d].content = page.content
      BY <3>1 DEF ApprovalsInv, ApprovalInv
    <3> QED BY <2>3, <3>1, <3>2, <3>3 DEF PublicationInv, PublishedIsReviewed
  <2> QED BY <2>1, <2>2, <2>3
<1>6. StatusMatchesLedger'
  <2> SUFFICES ASSUME NEW e \in Draft \ unlogged'
               PROVE  Agree(draft'[e], ledger'[e])
    BY DEF StatusMatchesLedger, Agree, LedgerState, Approved
  <2>1. CASE e = d
    BY <2>1
  <2>2. CASE e # d
    BY <2>2 DEF StatusMatchesLedger, Agree, Approved
  <2> QED BY <2>1, <2>2
<1>7. RevisionsAreSerial'
  <2>1. \A e \in Draft : ledger'[e].approval = ledger[e].approval
    OBVIOUS
  <2> QED BY <2>1 DEF RevisionsAreSerial
<1> QED BY <1>1, <1>2, <1>3, <1>4, <1>5, <1>6, <1>7

\* what a step leaves when it sets one status
StatusSet(d, status) ==
    /\ draft' \in [Draft -> DraftRow]
    /\ \A e \in Draft \ {d} : draft'[e] = draft[e]
    /\ draft'[d].status = status
    /\ draft'[d].version = draft[d].version
    /\ draft[d].version \in Int
    /\ draft'[d].round < draft'[d].version
    /\ draft'[d].content = draft[d].content
    /\ draft'[d].gen = draft[d].gen

LEMMA StatusSetRow ==
    ASSUME ReviewInv, NEW d \in Draft, NEW status \in Status,
           draft' = [draft EXCEPT ![d] = [draft[d] EXCEPT !.status = status]]
    PROVE  StatusSet(d, status)
<1>1. draft[d] \in DraftRow /\ draft[d].round < draft[d].version
  BY DEF ReviewInv, TypeOK, DraftsInv, RowInv
<1>2. draft[d].version \in Int
  BY <1>1 DEF DraftRow
<1> QED BY <1>1, <1>2, StatusRow DEF ReviewInv, TypeOK, StatusSet

\* What the author's operations have in common.
LEMMA AuthorRow ==
    ASSUME ReviewInv, NEW d \in Draft, NEW op, NEW from, NEW to \in Open,
           from \subseteq Open, Author(d, op, from, to)
    PROVE  /\ ledger' \in [Draft -> LedgerRow]
           /\ \A e \in Draft \ {d} : ledger'[e] = ledger[e]
           /\ ledger'[d].state = LedgerState(to)
           /\ ledger'[d].approval = ledger[d].approval
           /\ ledger'[d].state \notin Approved
           /\ ledger[d].state \notin Approved
           /\ ledger[d].state \in InPlay /\ Last(ledger'[d])
           /\ draft[d].status \in from
<1>1. ledger' = [ledger EXCEPT ![d] = [ledger[d] EXCEPT !.state = LedgerState(to)]]
  BY DEF Author
<1>2. LedgerState(to) \in States /\ LedgerState(to) \notin Approved
  BY DEF LedgerState, States, Approved, Open
<1>3. ledger[d] \in LedgerRow /\ ledger \in [Draft -> LedgerRow]
  BY DEF ReviewInv, TypeOK
<1>4. ledger[d].state \in InPlay
  BY DEF Author, LedgerState, InPlay, Open
<1> HIDE DEF LedgerState
<1>5. ledger'[d].events = ledger[d].events
  BY <1>1, <1>2, <1>3, StateRow
<1>6. ledger[d].state \notin Approved /\ ledger[d].state \notin Decided
  BY <1>4 DEF InPlay, Approved, Decided
<1>7. Last(ledger'[d])
  BY <1>5, <1>6, LastKept
<1> QED BY <1>1, <1>2, <1>3, <1>4, <1>6, <1>7, StateRow DEF Author

LEMMA UpdateStep ==
    ASSUME ReviewInv, NEW d \in Draft, NEW c \in Content, Update(d, c)
    PROVE  ReviewInv'
<1>1. Author(d, "update", {"draft", "needs_revision"}, "draft")
  BY DEF Update
<1>2. /\ ledger' \in [Draft -> LedgerRow]
      /\ \A e \in Draft \ {d} : ledger'[e] = ledger[e]
      /\ ledger'[d].state = LedgerState("draft")
      /\ ledger'[d].approval = ledger[d].approval
      /\ ledger'[d].state \notin Approved
      /\ ledger[d].state \notin Approved
      /\ ledger[d].state \in InPlay /\ Last(ledger'[d])
      /\ draft[d].status \in Open
  BY <1>1, AuthorRow DEF Open
<1> DEFINE new == Edited(draft[d], "draft", c)
<1>3. /\ draft[d] \in DraftRow /\ draft[d].version < MaxVersion
      /\ draft[d].round < draft[d].version
      /\ draft' = [draft EXCEPT ![d] = new]
  BY DEF ReviewInv, TypeOK, DraftsInv, RowInv, Update, MayRevise
<1>4. /\ new \in DraftRow /\ new.status = "draft"
      /\ new.version = draft[d].version + 1 /\ new.round < new.version
      /\ new.gen = draft[d].gen
  BY <1>3, EditedRow DEF Status, Open
<1> HIDE DEF new
<1>5. /\ draft' \in [Draft -> DraftRow] /\ draft'[d] = new
      /\ \A e \in Draft \ {d} : draft'[e] = draft[e]
  BY <1>3, <1>4 DEF ReviewInv, TypeOK
<1>6. draft[d].version \in Int
  BY <1>3 DEF DraftRow
<1>7. Agree(draft'[d], ledger'[d])
  BY <1>2, <1>4, <1>5 DEF Agree
<1> QED
  BY <1>1, <1>2, <1>4, <1>5, <1>6, <1>7, OneDraft
     DEF Author, ReviewInv, TypeOK, Status, Open

LEMMA ResubmitStep ==
    ASSUME ReviewInv, NEW d \in Draft, NEW c \in Content, Resubmit(d, c)
    PROVE  ReviewInv'
<1>1. Author(d, "resubmit", {"needs_revision"}, "pending")
  BY DEF Resubmit
<1>2. /\ ledger' \in [Draft -> LedgerRow]
      /\ \A e \in Draft \ {d} : ledger'[e] = ledger[e]
      /\ ledger'[d].state = LedgerState("pending")
      /\ ledger'[d].approval = ledger[d].approval
      /\ ledger'[d].state \notin Approved
      /\ ledger[d].state \notin Approved
      /\ ledger[d].state \in InPlay /\ Last(ledger'[d])
      /\ draft[d].status \in Open
  BY <1>1, AuthorRow DEF Open
<1> DEFINE new == Edited(draft[d], "pending", c)
<1>3. /\ draft[d] \in DraftRow /\ draft[d].version < MaxVersion
      /\ draft[d].round < draft[d].version
      /\ draft' = [draft EXCEPT ![d] = new]
  BY DEF ReviewInv, TypeOK, DraftsInv, RowInv, Resubmit, MayRevise
<1>4. /\ new \in DraftRow /\ new.status = "pending"
      /\ new.version = draft[d].version + 1 /\ new.round < new.version
      /\ new.gen = draft[d].gen
  BY <1>3, EditedRow DEF Status, Open
<1> HIDE DEF new
<1>5. /\ draft' \in [Draft -> DraftRow] /\ draft'[d] = new
      /\ \A e \in Draft \ {d} : draft'[e] = draft[e]
  BY <1>3, <1>4 DEF ReviewInv, TypeOK
<1>6. draft[d].version \in Int
  BY <1>3 DEF DraftRow
<1>7. Agree(draft'[d], ledger'[d])
  BY <1>2, <1>4, <1>5 DEF Agree
<1> QED
  BY <1>1, <1>2, <1>4, <1>5, <1>6, <1>7, OneDraft
     DEF Author, ReviewInv, TypeOK, Status, Open

LEMMA RebaseStep ==
    ASSUME ReviewInv, NEW d \in Draft, NEW c \in Content, Rebase(d, c)
    PROVE  ReviewInv'
<1>1. Author(d, "rebase", {"pending"}, "pending")
  BY DEF Rebase
<1>2. /\ ledger' \in [Draft -> LedgerRow]
      /\ \A e \in Draft \ {d} : ledger'[e] = ledger[e]
      /\ ledger'[d].state = LedgerState("pending")
      /\ ledger'[d].approval = ledger[d].approval
      /\ ledger'[d].state \notin Approved
      /\ ledger[d].state \notin Approved
      /\ ledger[d].state \in InPlay /\ Last(ledger'[d])
      /\ draft[d].status \in Open
  BY <1>1, AuthorRow DEF Open
<1> DEFINE edited == Edited(draft[d], "pending", c)
           new == [edited EXCEPT !.base = page.version]
<1>3. /\ draft[d] \in DraftRow /\ draft[d].version < MaxVersion
      /\ draft[d].round < draft[d].version
      /\ draft' = [draft EXCEPT ![d] = new]
  BY DEF ReviewInv, TypeOK, DraftsInv, RowInv, Rebase, MayRevise
<1>4. /\ new \in DraftRow /\ new.status = "pending"
      /\ new.version = draft[d].version + 1 /\ new.round < new.version
      /\ new.gen = draft[d].gen
  <2>1. /\ edited \in DraftRow /\ edited.status = "pending"
        /\ edited.version = draft[d].version + 1 /\ edited.round < edited.version
        /\ edited.gen = draft[d].gen
    BY <1>3, EditedRow DEF Status, Open
  <2>2. page.version \in 1..MaxPage
    BY DEF ReviewInv, TypeOK, PageRow
  <2> HIDE DEF edited
  <2> QED BY <2>1, <2>2 DEF DraftRow
<1> HIDE DEF edited, new
<1>5. /\ draft' \in [Draft -> DraftRow] /\ draft'[d] = new
      /\ \A e \in Draft \ {d} : draft'[e] = draft[e]
  BY <1>3, <1>4 DEF ReviewInv, TypeOK
<1>6. draft[d].version \in Int
  BY <1>3 DEF DraftRow
<1>7. Agree(draft'[d], ledger'[d])
  BY <1>2, <1>4, <1>5 DEF Agree
<1> QED
  BY <1>1, <1>2, <1>4, <1>5, <1>6, <1>7, OneDraft
     DEF Author, ReviewInv, TypeOK, Status, Open

LEMMA SubmitStep ==
    ASSUME ReviewInv, NEW d \in Draft, Submit(d)
    PROVE  ReviewInv'
<1>1. Author(d, "submit", {"draft"}, "pending")
  BY DEF Submit
<1>2. /\ ledger' \in [Draft -> LedgerRow]
      /\ \A e \in Draft \ {d} : ledger'[e] = ledger[e]
      /\ ledger'[d].state = LedgerState("pending")
      /\ ledger'[d].approval = ledger[d].approval
      /\ ledger'[d].state \notin Approved
      /\ ledger[d].state \notin Approved
      /\ ledger[d].state \in InPlay /\ Last(ledger'[d])
      /\ draft[d].status \in Open
  BY <1>1, AuthorRow DEF Open
<1>3. draft' = [draft EXCEPT ![d] = [draft[d] EXCEPT !.status = "pending"]]
  BY DEF Submit
<1>4. StatusSet(d, "pending")
  BY <1>3, StatusSetRow DEF Status, Open
<1>5. Agree(draft'[d], ledger'[d])
  BY <1>2, <1>4 DEF Agree, StatusSet
<1> QED
  BY <1>1, <1>2, <1>4, <1>5, OneDraft
     DEF Author, StatusSet, ReviewInv, TypeOK, DraftsInv, RowInv, Status, Open

\* submit_wiki_branch writes the status and remembers that no event did.
LEMMA SubmitBranchStep ==
    ASSUME ReviewInv, NEW d \in Draft, SubmitBranch(d)
    PROVE  ReviewInv'
<1>1. draft' = [draft EXCEPT ![d] = [draft[d] EXCEPT !.status = "pending"]]
  BY DEF SubmitBranch, SetStatus
<1>2. StatusSet(d, "pending")
  BY <1>1, StatusSetRow DEF Status, Open
<1>3. ASSUME d \notin unlogged'
      PROVE  /\ Agree(draft'[d], ledger'[d])
             /\ draft'[d].status \in Open
  <2>1. draft[d].status = "pending" /\ d \notin unlogged
    BY <1>3 DEF SubmitBranch
  <2>2. ledger[d].state = LedgerState("pending")
    BY <2>1 DEF ReviewInv, StatusMatchesLedger
  <2> QED BY <1>2, <2>1, <2>2 DEF SubmitBranch, Agree, StatusSet, Open
<1> QED
  BY <1>2, <1>3, OneDraft
     DEF SubmitBranch, StatusSet, ReviewInv, TypeOK, DraftsInv, RowInv, Status, Open

-----------------------------------------------------------------------------
(* Requests *)

\* what a step leaves when it appends one event
Appended(d, from, to) ==
    /\ ledger' \in [Draft -> LedgerRow]
    /\ \A e \in Draft \ {d} : ledger'[e] = ledger[e]
    /\ ledger'[d].approval = ledger[d].approval
    /\ Last(ledger'[d])
    /\ \/ ledger[d].state = from /\ ledger'[d].state = to
       \/ ledger' = ledger /\ (to \in Decided => ledger[d].state = to)
    /\ from \in InPlay /\ from \notin Approved /\ to \notin Approved

LEMMA AppendRow ==
    ASSUME ReviewInv, NEW d \in Draft, NEW name \in {"changes", "rejected", "withdrawn"},
           NEW round \in 0..MaxVersion,
           NEW from \in InPlay, NEW to \in States, to \notin Approved,
           name \in Decided => to = name, to \in Decided => to = name,
           Append(d, <<name, round>>, from, to)
    PROVE  Appended(d, from, to)
<1> DEFINE event == <<name, round>>
           new == [ledger[d] EXCEPT !.state = to,
                                    !.events = ledger[d].events \cup {event}]
<1>1. ledger \in [Draft -> LedgerRow] /\ ledger[d] \in LedgerRow
  BY DEF ReviewInv, TypeOK
<1>2. Last(ledger[d])
  BY DEF ReviewInv, DraftsInv, RowInv
<1>3. from \notin Approved
  BY DEF InPlay, Approved
<1>4. CASE Follows(d, from) /\ ledger' = [ledger EXCEPT ![d] = new]
  <2>1. ledger[d].events \cup {event} \in
           SUBSET ({"changes", "rejected", "withdrawn"} \X (0..MaxVersion))
    BY <1>1 DEF LedgerRow
  <2>2. /\ new \in LedgerRow /\ new.state = to /\ new.approval = ledger[d].approval
        /\ new.events = ledger[d].events \cup {event}
    BY <1>1, <2>1 DEF LedgerRow, States
  <2>3. \A e \in ledger[d].events : e[1] \notin Decided
    BY <1>2, <1>4 DEF Last, Follows, InPlay, Decided
  <2>4. event[1] = name
    OBVIOUS
  <2> HIDE DEF new, event
  <2>5. Last(new)
    BY <2>2, <2>3, <2>4 DEF Last
  <2> QED BY <1>1, <1>3, <1>4, <2>2, <2>5 DEF Appended, Follows
<1>5. CASE event \in ledger[d].events /\ ledger' = ledger
  <2>1. event[1] = name
    OBVIOUS
  <2>2. to \in Decided => ledger[d].state = to
    BY <1>2, <1>5, <2>1 DEF Last
  <2> QED BY <1>1, <1>2, <1>3, <1>5, <2>2 DEF Appended
<1> QED BY <1>4, <1>5 DEF Append

LEMMA RequestOf ==
    ASSUME ReviewInv, NEW r \in Request, req[r].kind # "idle"
    PROVE  req[r].draft \in Draft /\ req[r].round \in 0..MaxVersion
  BY DEF ReviewInv, TypeOK, RequestState, IdleRequest

LEMMA EndsRow ==
    ASSUME ReviewInv, NEW r \in Request, Ends(r)
    PROVE  /\ req' \in [Request -> RequestState \cup {IdleRequest}]
           /\ \A q \in Request : req'[q] \in {req[q], IdleRequest}
  BY DEF ReviewInv, TypeOK, Ends

LEMMA RejectStep ==
    ASSUME ReviewInv, NEW r \in Request, Reject(r)
    PROVE  ReviewInv'
<1> DEFINE d == req[r].draft
<1>1. d \in Draft /\ req[r].round \in 0..MaxVersion
  BY RequestOf DEF Reject
<1>2. /\ draft' = [draft EXCEPT ![d] = [draft[d] EXCEPT !.status = "rejected"]]
      /\ Append(d, <<"rejected", req[r].round>>, "in_review", "rejected")
  BY DEF Reject, SetStatus
<1>3. Appended(d, "in_review", "rejected")
  BY <1>1, <1>2, AppendRow DEF States, Approved, InPlay, Decided
<1>4. StatusSet(d, "rejected")
  BY <1>1, <1>2, StatusSetRow DEF Status, Open
<1>5. Agree(draft'[d], ledger'[d]) /\ ledger'[d].state \notin InPlay
  BY <1>3, <1>4 DEF Agree, Appended, StatusSet, LedgerState, Decided, InPlay
<1>6. ledger'[d].state \in Approved <=> ledger[d].state \in Approved
  BY <1>3 DEF Appended
<1>7. draft[d].status # "none"
  BY DEF ReviewInv, RequestsInv, RequestInv, Reject
<1> HIDE DEF d
<1> QED
  BY <1>1, <1>3, <1>4, <1>5, <1>6, <1>7, EndsRow, OneDraft
     DEF Reject, Appended, StatusSet, ReviewInv, TypeOK, Status, Open

LEMMA RequestChangesStep ==
    ASSUME ReviewInv, NEW r \in Request, RequestChanges(r)
    PROVE  ReviewInv'
<1> DEFINE d == req[r].draft
<1>1. d \in Draft /\ req[r].round \in 0..MaxVersion
  BY RequestOf DEF RequestChanges
<1>2. /\ draft' = [draft EXCEPT ![d] = [draft[d] EXCEPT !.status = "needs_revision"]]
      /\ Append(d, <<"changes", req[r].round>>, "in_review", "needs_revision")
  BY DEF RequestChanges, SetStatus
<1>3. Appended(d, "in_review", "needs_revision")
  BY <1>1, <1>2, AppendRow DEF States, Approved, InPlay, Decided
<1>4. StatusSet(d, "needs_revision")
  BY <1>1, <1>2, StatusSetRow DEF Status, Open
<1>5. /\ d \notin unlogged' => Agree(draft'[d], ledger'[d])
      /\ ledger'[d].state \in InPlay => ledger[d].state \in InPlay
      /\ draft'[d].status \in Open
      /\ unlogged' \in {unlogged, unlogged \cup {d}}
  <2>1. ledger'[d].state = "needs_revision" \/ d \in unlogged'
    <3>1. CASE <<"changes", req[r].round>> \in ledger[d].events
      BY <1>2, <1>3, <3>1 DEF RequestChanges, Overtaken, Append, Appended
    <3>2. CASE <<"changes", req[r].round>> \notin ledger[d].events
      <4> DEFINE event == <<"changes", req[r].round>>
      <4>1. ledger' = [ledger EXCEPT ![d] = [ledger[d] EXCEPT
                !.state = "needs_revision", !.events = ledger[d].events \cup {event}]]
        BY <1>2, <3>2 DEF Append
      <4>2. ledger \in [Draft -> LedgerRow] /\ ledger[d] \in LedgerRow
        BY <1>1 DEF ReviewInv, TypeOK
      <4> HIDE DEF event
      <4> QED BY <1>1, <4>1, <4>2 DEF LedgerRow
    <3> QED BY <3>1, <3>2
  <2> QED BY <1>3, <1>4, <2>1
     DEF RequestChanges, Agree, Appended, StatusSet, LedgerState, Open
<1>6. ledger'[d].state \in Approved <=> ledger[d].state \in Approved
  BY <1>3 DEF Appended
<1>7. draft[d].status # "none"
  BY DEF ReviewInv, RequestsInv, RequestInv, RequestChanges
<1> HIDE DEF d
<1> QED
  BY <1>1, <1>3, <1>4, <1>5, <1>6, <1>7, EndsRow, OneDraft
     DEF RequestChanges, Appended, StatusSet, ReviewInv, TypeOK, Status, Open

LEMMA WithdrawnStep ==
    ASSUME ReviewInv, NEW r \in Request, req[r].kind # "idle",
           req[r].status \in Open, Withdrawn(r), Ends(r),
           UNCHANGED <<page, generation, publication, fence, unlogged>>,
           branch' \in {"draft", "pending_merge", "merged", "closed"}
    PROVE  ReviewInv'
<1> DEFINE d == req[r].draft
<1>1. d \in Draft /\ req[r].round \in 0..MaxVersion
  BY RequestOf
<1>2. /\ draft' = [draft EXCEPT ![d] = [draft[d] EXCEPT !.status = "withdrawn"]]
      /\ Append(d, <<"withdrawn", req[r].round>>, LedgerState(req[r].status),
                "withdrawn")
  BY DEF Withdrawn, SetStatus
<1>3. LedgerState(req[r].status) \in InPlay
  BY DEF LedgerState, Open, InPlay
<1>4. Appended(d, LedgerState(req[r].status), "withdrawn")
  BY <1>1, <1>2, <1>3, AppendRow DEF States, Approved, Decided
<1>5. StatusSet(d, "withdrawn")
  BY <1>1, <1>2, StatusSetRow DEF Status
<1>6. Agree(draft'[d], ledger'[d]) /\ ledger'[d].state \notin InPlay
  BY <1>4, <1>5 DEF Agree, Appended, StatusSet, LedgerState, Decided, InPlay
<1>7. draft[d].status # "none"
  BY DEF ReviewInv, RequestsInv, RequestInv
<1>8. ledger'[d].state \in Approved <=> ledger[d].state \in Approved
  BY <1>4 DEF Appended
<1> HIDE DEF d
<1> QED
  BY <1>1, <1>4, <1>5, <1>6, <1>7, <1>8, EndsRow, OneDraft
     DEF Appended, StatusSet, ReviewInv, TypeOK, Open

LEMMA WithdrawStep ==
    ASSUME ReviewInv, NEW r \in Request, Withdraw(r)
    PROVE  ReviewInv'
<1>1. req[r].status \in Open
  BY DEF ReviewInv, RequestsInv, RequestInv, Withdraw
<1> QED BY <1>1, WithdrawnStep DEF Withdraw, ReviewInv, TypeOK

LEMMA CloseBranchStep ==
    ASSUME ReviewInv, NEW r \in Request, CloseBranch(r)
    PROVE  ReviewInv'
<1> DEFINE d == req[r].draft
<1>0. req[r].kind # "idle" /\ branch' = "closed"
  BY DEF CloseBranch
<1>1. d \in Draft /\ draft[d].status # "none"
  BY <1>0, RequestOf DEF ReviewInv, RequestsInv, RequestInv
<1>2. CASE UNCHANGED <<draft, ledger, unlogged>>
  <2>1. draft[d] \in DraftRow /\ draft[d].round < draft[d].version
    BY <1>1 DEF ReviewInv, TypeOK, DraftsInv, RowInv
  <2>2. draft[d].version \in Int
    BY <2>1 DEF DraftRow
  <2>3. d \notin unlogged =>
          /\ Agree(draft[d], ledger[d])
          /\ ledger[d].state \in InPlay => draft[d].status \in Open
    BY <1>1 DEF ReviewInv, StatusMatchesLedger, Agree, Approved, DraftsInv, RowInv
  <2>4. Last(ledger[d])
    BY <1>1 DEF ReviewInv, DraftsInv, RowInv
  <2> HIDE DEF d
  <2> QED
    BY <1>0, <1>1, <1>2, <2>1, <2>2, <2>3, <2>4, EndsRow, OneDraft
       DEF CloseBranch, ReviewInv, TypeOK
<1>3. CASE /\ req[r].status \in {"pending", "needs_revision"}
           /\ Withdrawn(r) /\ UNCHANGED unlogged
  BY <1>0, <1>3, WithdrawnStep DEF CloseBranch, Open
<1>4. CASE /\ UNCHANGED ledger /\ SetStatus(d, "withdrawn")
           /\ unlogged' = unlogged \cup {d}
           /\ req[r].kind = "override"
  <2>1. StatusSet(d, "withdrawn")
    BY <1>1, <1>4, StatusSetRow DEF SetStatus, Status
  <2>2. d \in Branched
    BY <1>0, <1>4 DEF ReviewInv, RequestsInv, RequestInv
  <2>3. Last(ledger[d])
    BY <1>1 DEF ReviewInv, DraftsInv, RowInv
  <2> HIDE DEF d
  <2> QED
    BY <1>0, <1>1, <1>4, <2>1, <2>2, <2>3, EndsRow, OneDraft
       DEF CloseBranch, StatusSet, ReviewInv, TypeOK
<1> QED BY <1>2, <1>3, <1>4 DEF CloseBranch

LEMMA PublishStep ==
    ASSUME ReviewInv, NEW d \in Draft, NEW open \in BOOLEAN, Publish(d, open)
    PROVE  ReviewInv'
<1> DEFINE state == IF open THEN "published" ELSE "approved"
<1>1. ledger' = [ledger EXCEPT ![d] = [ledger[d] EXCEPT !.state = state]]
  BY DEF Publish
<1>2. ledger[d].approval # NoApproval /\ ledger[d].state \in Approved
  BY DEF Publish, DigestHolds, ReviewInv, DraftsInv, RowInv
<1>3. state \in States /\ state \in Approved
  BY DEF States, Approved
<1> HIDE DEF state
<1>4. /\ ledger' \in [Draft -> LedgerRow]
      /\ \A e \in Draft \ {d} : ledger'[e] = ledger[e]
      /\ ledger'[d].state = state
      /\ ledger'[d].approval = ledger[d].approval
  BY <1>1, <1>3, StateRow DEF ReviewInv, TypeOK
<1>5. draft[d] \in DraftRow /\ draft[d].round < draft[d].version
  BY DEF ReviewInv, TypeOK, DraftsInv, RowInv
<1>6. draft[d].version \in Int
  BY <1>5 DEF DraftRow
<1>7. /\ publication' \in Publication
      /\ publication'.draft = d /\ publication'.content = page.content
  BY DEF Publish, Publication, ReviewInv, TypeOK, PageRow
<1>8. Agree(draft'[d], ledger'[d]) /\ ledger'[d].state \notin InPlay
  BY <1>3, <1>4 DEF Publish, Agree, Approved, InPlay
<1>9. Last(ledger'[d])
  <2>1. ledger'[d].events = ledger[d].events
    BY <1>1, <1>3, StateRow DEF ReviewInv, TypeOK
  <2> QED BY <1>2, <2>1 DEF ReviewInv, DraftsInv, RowInv, Last, Approved, Decided
<1> QED
  BY <1>2, <1>3, <1>4, <1>5, <1>6, <1>7, <1>8, <1>9, OneDraft
     DEF Publish, ReviewInv, TypeOK

\* Only the requests change.
LEMMA RequestOnly ==
    ASSUME ReviewInv, UNCHANGED <<page, generation, draft, ledger, branch,
                                  publication, fence, unlogged>>,
           req' \in [Request -> RequestState \cup {IdleRequest}], RequestsInv'
    PROVE  ReviewInv'
<1>1. TypeOK' BY DEF ReviewInv, TypeOK
<1>2. DraftsInv' BY DEF ReviewInv, DraftsInv, RowInv
<1>3. ApprovalsInv' BY DEF ReviewInv, ApprovalsInv, ApprovalInv
<1>4. StatusMatchesLedger' BY DEF ReviewInv, StatusMatchesLedger
<1>5. RevisionsAreSerial' BY DEF ReviewInv, RevisionsAreSerial
<1>6. PublicationInv' /\ PublishedIsReviewed'
  BY DEF ReviewInv, PublicationInv, PublishedIsReviewed
<1> QED BY <1>1, <1>2, <1>3, <1>4, <1>5, <1>6 DEF ReviewInv

LEMMA RequestFailsStep ==
    ASSUME ReviewInv, NEW r \in Request, RequestFails(r)
    PROVE  ReviewInv'
<1>1. Ends(r) /\ UNCHANGED <<page, generation, draft, ledger, branch, publication,
                            fence, unlogged>>
  BY DEF RequestFails, Ends
<1>2. ASSUME NEW q \in Request PROVE RequestInv(q)'
  <2>1. CASE req'[q] = IdleRequest
    BY <2>1 DEF RequestInv, IdleRequest
  <2>2. CASE req'[q] = req[q]
    BY <1>1, <2>2 DEF ReviewInv, RequestsInv, RequestInv
  <2> QED BY <1>1, <2>1, <2>2, EndsRow
<1> QED BY <1>1, <1>2, EndsRow, RequestOnly DEF RequestsInv

LEMMA LoadStep ==
    ASSUME ReviewInv, NEW r \in Request, NEW kind \in Kinds, NEW d \in Draft,
           Load(r, kind, d)
    PROVE  ReviewInv'
<1> DEFINE approves == kind \in {"approve", "merge"}
           new == [kind |-> kind, draft |-> d,
                   status |-> IF approves \/ draft[d].status \notin Open THEN None
                              ELSE draft[d].status,
                   round |-> IF approves THEN 0 ELSE draft[d].round,
                   revision |-> IF approves THEN RevisionOf(draft[d]) ELSE None,
                   page |-> IF approves THEN page.version ELSE 0]
<1>1. /\ req' = [req EXCEPT ![r] = new] /\ MayLoad(kind, d)
      /\ UNCHANGED <<page, generation, draft, ledger, branch, publication, fence, unlogged>>
  BY DEF Load
<1>2. draft[d] \in DraftRow /\ draft[d].round < draft[d].version
  BY DEF ReviewInv, TypeOK, DraftsInv, RowInv
<1>3. /\ RevisionOf(draft[d]) \in Revision
      /\ RevisionOf(draft[d]).version = draft[d].version
      /\ RevisionOf(draft[d]).round = draft[d].round
      /\ RevisionOf(draft[d]).content = draft[d].content
  BY <1>2 DEF RevisionOf, Revision, DraftRow
<1>4. draft[d].version \in Int /\ draft[d].round \in 0..MaxVersion
  BY <1>2 DEF DraftRow
<1>5. new \in RequestState
  <2>1. new.page \in 0..MaxPage /\ new.round \in 0..MaxVersion
    BY <1>4, DraftReviewConstants DEF ReviewInv, TypeOK, PageRow
  <2>2. new.status \in Open \cup {None} /\ new.revision \in Revision \cup {None}
    BY <1>3
  <2> QED BY <2>1, <2>2 DEF RequestState
<1>6. /\ new.kind = kind /\ new.draft = d
      /\ approves => new.revision = RevisionOf(draft[d])
      /\ ~approves /\ draft[d].status \in Open => new.status = draft[d].status
  OBVIOUS
<1>7. /\ draft[d].status # "none"
      /\ kind = "withdraw" => draft[d].status \in Open
      /\ kind = "override" => d \in Branched
  BY <1>1 DEF MayLoad, Open
<1>8. ASSUME NEW q \in Request PROVE RequestInv(q)'
  <2>1. CASE q = r
    <3>1. req'[r] = new
      BY <1>1 DEF ReviewInv, TypeOK
    <3> HIDE DEF new
    <3> QED BY <1>1, <1>2, <1>3, <1>4, <1>6, <1>7, <2>1, <3>1 DEF RequestInv
  <2>2. CASE q # r
    <3>1. req'[q] = req[q]
      BY <1>1, <2>2 DEF ReviewInv, TypeOK
    <3> QED BY <1>1, <3>1 DEF ReviewInv, RequestsInv, RequestInv
  <2> QED BY <2>1, <2>2
<1>9. req' \in [Request -> RequestState \cup {IdleRequest}]
  <2> HIDE DEF new
  <2> QED BY <1>1, <1>5 DEF ReviewInv, TypeOK
<1> QED BY <1>1, <1>8, <1>9, RequestOnly DEF RequestsInv

-----------------------------------------------------------------------------
(* Proposals, re-ingests and approvals *)

LEMMA ProposeStep ==
    ASSUME ReviewInv, NEW d \in Draft, NEW c \in Content, Propose(d, c)
    PROVE  ReviewInv'
<1> USE DEF ReviewInv
<1> DEFINE status == IF d \in Compiled THEN "draft" ELSE "pending"
           new == [status |-> status, version |-> 1, round |-> 0,
                   base |-> page.version, content |-> c,
                   gen |-> IF d \in Compiled THEN generation ELSE 0]
<1>1. /\ draft[d].status = "none"
      /\ draft' = [draft EXCEPT ![d] = new]
      /\ ledger' = [ledger EXCEPT ![d] =
                       [ledger[d] EXCEPT !.state = LedgerState(status)]]
      /\ UNCHANGED <<page, generation, branch, req, publication, fence, unlogged>>
  BY DEF Propose
<1>2. /\ LedgerState(status) \in States \ Approved
      /\ status \in {"draft", "pending"}
  BY DEF LedgerState, States, Approved
<1>3. /\ ledger[d].approval = NoApproval /\ d \notin unlogged
      /\ ledger[d] \in LedgerRow
  BY <1>1 DEF TypeOK, DraftsInv, RowInv, Approved
<1>4. /\ generation \in 1..MaxGeneration /\ page.version \in 1..MaxPage
      /\ MaxVersion \in Nat \ {0} /\ MaxGeneration \in Nat \ {0}
  BY DraftReviewConstants DEF TypeOK, PageRow
<1>5. /\ new \in DraftRow /\ new.status = status /\ new.version = 1
      /\ new.round = 0 /\ new.gen \in {0, generation} /\ new.gen <= generation
  <2>1. (IF d \in Compiled THEN generation ELSE 0) \in 0..MaxGeneration
    BY <1>4
  <2> QED BY <1>2, <1>4, <2>1 DEF DraftRow, Status, Open
<1> HIDE DEF new, status
<1>6. /\ draft' \in [Draft -> DraftRow] /\ draft'[d] = new
      /\ ledger' \in [Draft -> LedgerRow]
      /\ ledger'[d].state = LedgerState(status)
      /\ ledger'[d].approval = ledger[d].approval
      /\ \A e \in Draft \ {d} : draft'[e] = draft[e] /\ ledger'[e] = ledger[e]
  BY <1>1, <1>2, <1>3, <1>5, StateRow DEF TypeOK
<1>7. TypeOK'
  BY <1>1, <1>6 DEF TypeOK
<1>8. DraftsInv'
  <2>1. ledger[d].state = "none"
    BY <1>1 DEF DraftsInv, RowInv
  <2>2. ledger'[d].events = ledger[d].events
    BY <1>1, <1>2, <1>3, StateRow DEF TypeOK
  <2>3. Last(ledger'[d])
    BY <2>1, <2>2, LastKept DEF Decided
  <2> QED BY <1>1, <1>2, <1>3, <1>5, <1>6, <2>3 DEF DraftsInv, RowInv, Open
<1>9. ApprovalsInv'
  BY <1>1, <1>3, <1>6 DEF ApprovalsInv, ApprovalInv
<1>10. RequestsInv'
  <2> SUFFICES ASSUME NEW r \in Request, req[r].kind # "idle" PROVE RequestInv(r)'
    BY <1>1 DEF RequestsInv, RequestInv
  <2>1. req[r].draft \in Draft \ {d}
    BY <1>1, RequestOf DEF RequestsInv, RequestInv
  <2> QED BY <1>1, <1>6, <2>1 DEF RequestsInv, RequestInv
<1>11. PublicationInv' /\ PublishedIsReviewed'
  <2> SUFFICES ASSUME publication # NoPublication
               PROVE  PublicationInv' /\ PublishedIsReviewed'
    BY <1>1 DEF PublicationInv, PublishedIsReviewed
  <2>1. publication.draft \in Draft \ {d}
    BY <1>3 DEF TypeOK, Publication, PublicationInv
  <2> QED BY <1>1, <1>6, <2>1 DEF PublicationInv, PublishedIsReviewed
<1>12. StatusMatchesLedger'
  <2> SUFFICES ASSUME NEW e \in Draft \ unlogged
               PROVE  Agree(draft'[e], ledger'[e])
    BY <1>1 DEF StatusMatchesLedger, Agree, LedgerState, Approved
  <2>1. CASE e = d
    BY <1>2, <1>5, <1>6, <2>1 DEF Agree
  <2>2. CASE e # d
    BY <1>6, <2>2 DEF StatusMatchesLedger, Agree, Approved
  <2> QED BY <2>1, <2>2
<1>13. RevisionsAreSerial'
  <2>1. \A e \in Draft : ledger'[e].approval = ledger[e].approval
    BY <1>6
  <2> QED BY <1>1, <2>1 DEF RevisionsAreSerial
<1>14. (fence <= generation)'
  BY <1>1
<1> QED BY <1>7, <1>8, <1>9, <1>10, <1>11, <1>12, <1>13, <1>14

\* A re-ingest withdraws every open compiler draft, in rows and in events.
LEMMA ReingestStep ==
    ASSUME ReviewInv, Reingest
    PROVE  ReviewInv'
<1> USE DEF ReviewInv
<1>1. /\ generation' = generation + 1 /\ generation < MaxGeneration
      /\ draft' = [d \in Draft |-> IF d \in Fenced
                     THEN [draft[d] EXCEPT !.status = "withdrawn"] ELSE draft[d]]
      /\ ledger' = [d \in Draft |-> IF d \in Fenced
                     THEN [ledger[d] EXCEPT !.state = "withdrawn"] ELSE ledger[d]]
      /\ fence' = generation'
      /\ UNCHANGED <<page, branch, req, publication, unlogged>>
  BY DEF Reingest, FencedEvent
<1>2. ASSUME NEW d \in Fenced
      PROVE  /\ d \in Draft
             /\ draft'[d] \in DraftRow /\ draft'[d].status = "withdrawn"
             /\ draft'[d].version = draft[d].version /\ draft'[d].round = draft[d].round
             /\ draft'[d].content = draft[d].content /\ draft'[d].gen = draft[d].gen
             /\ ledger'[d] \in LedgerRow /\ ledger'[d].state = "withdrawn"
             /\ ledger'[d].approval = ledger[d].approval
             /\ ledger'[d].events = ledger[d].events
             /\ ledger[d].state \notin Approved /\ ledger[d].state \notin Decided
  <2>1. d \in Draft /\ draft[d].status \in Open
    BY DEF Fenced
  <2>2. ledger[d].state \notin Approved /\ ledger[d].state \notin Decided
    BY <2>1 DEF Reingest, LedgerState, Open, Approved, Decided
  <2>3. draft[d] \in DraftRow /\ ledger[d] \in LedgerRow
    BY <2>1 DEF TypeOK
  <2>4. "withdrawn" \in Status /\ "withdrawn" \in States
    BY DEF Status, States
  <2> QED BY <1>1, <2>1, <2>2, <2>3, <2>4, StatusRow, StateRow
<1>3. \A d \in Draft \ Fenced : draft'[d] = draft[d] /\ ledger'[d] = ledger[d]
  BY <1>1
<1>4. \A d \in Draft : ledger'[d].approval = ledger[d].approval
  BY <1>2, <1>3
<1>5. \A d \in Draft : /\ draft'[d].version = draft[d].version
                      /\ draft'[d].content = draft[d].content
                      /\ draft'[d].status = "none" <=> draft[d].status = "none"
  BY <1>2, <1>3 DEF Fenced, Open
<1>6. TypeOK'
  <2>1. generation' \in 1..MaxGeneration
    BY <1>1, DraftReviewConstants DEF TypeOK
  <2>2. draft' \in [Draft -> DraftRow] /\ ledger' \in [Draft -> LedgerRow]
    BY <1>1, <1>2, <1>3 DEF TypeOK
  <2> QED BY <1>1, <2>1, <2>2 DEF TypeOK
<1>7. DraftsInv'
  <2> SUFFICES ASSUME NEW d \in Draft PROVE RowInv(d)'
    BY DEF DraftsInv
  <2>1. generation \in Int /\ draft[d].gen \in Int
    BY DEF TypeOK, DraftRow
  <2>2. CASE d \in Fenced
    <3>1. /\ draft[d].round < draft[d].version /\ draft[d].gen <= generation
          /\ ledger[d].approval = NoApproval
      BY <1>2, <2>2 DEF DraftsInv, RowInv
    <3>2. draft'[d].round < draft'[d].version /\ draft'[d].gen <= generation'
      <4>1. generation' = generation + 1
        BY <1>1
      <4>2. /\ draft'[d].round = draft[d].round /\ draft'[d].version = draft[d].version
            /\ draft'[d].gen = draft[d].gen
        BY <1>2, <2>2
      <4> QED BY <2>1, <3>1, <4>1, <4>2
    <3>3. /\ draft'[d].status = "withdrawn" /\ "withdrawn" \notin Open
          /\ ledger'[d].state = "withdrawn" /\ "withdrawn" \notin Approved
          /\ ledger'[d].approval = NoApproval
      BY <1>2, <2>2, <3>1 DEF Open, Approved
    <3>4. Last(ledger'[d])
      BY <1>2, <2>2, LastKept
    <3> QED BY <3>2, <3>3, <3>4 DEF RowInv, Open, Approved, InPlay
  <2>3. CASE d \notin Fenced
    <3>1. draft[d].gen = 0 \/ draft[d].status \notin Open
      BY <2>3 DEF Fenced
    <3> QED BY <1>1, <1>3, <2>1, <2>3, <3>1 DEF DraftsInv, RowInv
  <2> QED BY <2>2, <2>3
<1>8. ApprovalsInv'
  BY <1>1, <1>4, <1>5 DEF ApprovalsInv, ApprovalInv
<1>9. RequestsInv'
  <2> SUFFICES ASSUME NEW r \in Request, req[r].kind # "idle" PROVE RequestInv(r)'
    BY <1>1 DEF RequestsInv, RequestInv
  <2>1. req[r].draft \in Draft
    BY RequestOf
  <2> QED BY <1>1, <1>5, <2>1 DEF RequestsInv, RequestInv
<1>10. PublicationInv' /\ PublishedIsReviewed'
  <2> SUFFICES ASSUME publication # NoPublication
               PROVE  PublicationInv' /\ PublishedIsReviewed'
    BY <1>1 DEF PublicationInv, PublishedIsReviewed
  <2>1. publication.draft \in Draft
    BY DEF TypeOK, Publication
  <2> QED BY <1>1, <1>4, <1>5, <2>1 DEF PublicationInv, PublishedIsReviewed
<1>11. StatusMatchesLedger'
  <2> SUFFICES ASSUME NEW e \in Draft \ unlogged
               PROVE  Agree(draft'[e], ledger'[e])
    BY <1>1 DEF StatusMatchesLedger, Agree, LedgerState, Approved
  <2>1. CASE e \in Fenced
    BY <1>2, <2>1 DEF Agree, LedgerState
  <2>2. CASE e \notin Fenced
    BY <1>3, <2>2 DEF StatusMatchesLedger, Agree, Approved
  <2> QED BY <2>1, <2>2
<1>12. RevisionsAreSerial'
  BY <1>1, <1>4 DEF RevisionsAreSerial
<1>13. (fence <= generation)'
  BY <1>1, <1>6 DEF Reingest, TypeOK
<1> QED BY <1>6, <1>7, <1>8, <1>9, <1>10, <1>11, <1>12, <1>13

\* A retry only counts the generation up.
LEMMA RetryStep ==
    ASSUME ReviewInv, RetrySource
    PROVE  ReviewInv'
<1>1. /\ generation' = generation + 1 /\ generation < MaxGeneration
      /\ UNCHANGED <<page, draft, ledger, branch, req, publication, fence, unlogged>>
  BY DEF RetrySource
<1>2. generation \in Int /\ fence \in Int /\ \A d \in Draft : draft[d].gen \in Int
  BY DEF ReviewInv, TypeOK, DraftRow
<1>3. TypeOK' /\ (fence <= generation)'
  BY <1>1, <1>2, DraftReviewConstants DEF ReviewInv, TypeOK
<1>4. DraftsInv'
  BY <1>1, <1>2 DEF ReviewInv, DraftsInv, RowInv
<1>5. ApprovalsInv' /\ RequestsInv' /\ PublicationInv'
  BY <1>1 DEF ReviewInv, ApprovalsInv, ApprovalInv, RequestsInv, RequestInv, PublicationInv
<1>6. StatusMatchesLedger' /\ RevisionsAreSerial' /\ PublishedIsReviewed'
  BY <1>1 DEF ReviewInv, StatusMatchesLedger, LedgerState, RevisionsAreSerial, PublishedIsReviewed
<1> QED BY <1>3, <1>4, <1>5, <1>6 DEF ReviewInv

\* An approval writes the page and records the version it wrote: the approvals
\* before it are of older versions, or of the same text.
LEMMA ApproveStep ==
    ASSUME ReviewInv, NEW r \in Request, NEW forced \in BOOLEAN, NEW c \in Content,
           Approve(r, forced, c)
    PROVE  ReviewInv'
<1> USE DEF ReviewInv
<1> DEFINE d == req[r].draft
           seen == req[r].revision
           given == [digest |-> Snapshot(seen, page'), forced |-> forced,
                     edited |-> c # seen.content]
<1>1. /\ req[r].kind \in {"approve", "merge"} /\ req[r].kind # "idle"
      /\ ~forced => c = seen.content /\ seen.base >= page.version
      /\ ledger[d].state = "in_review"
      /\ page' \in Written(page, c)
      /\ page'.version <= MaxPage
      /\ draft' = [draft EXCEPT ![d] = [draft[d] EXCEPT !.status = "approved"]]
      /\ ledger' = [ledger EXCEPT ![d] =
            [ledger[d] EXCEPT !.state = "approved", !.approval = given]]
      /\ branch' = IF req[r].kind = "merge" THEN "merged" ELSE branch
      /\ req' = [req EXCEPT ![r] = IdleRequest]
      /\ UNCHANGED <<generation, publication, fence, unlogged>>
  BY DEF Approve, LockedPage, Follows, SetStatus, Ends
<1>2. d \in Draft
  BY <1>1, RequestOf
<1>3. /\ seen \in Revision
      /\ draft[d].status # "none"
      /\ seen.version = draft[d].version => seen.content = draft[d].content
  BY <1>1 DEF RequestsInv, RequestInv
<1>4. /\ page' \in PageRow /\ page'.content = c
      /\ page.version \in Int /\ page'.version \in Int
      /\ page.version <= page'.version /\ page'.version <= page.version + 1
      /\ page'.version = page.version => page' = page
  BY <1>1, DraftReviewConstants DEF TypeOK, PageRow, Written
<1>5. /\ given \in Approval /\ given # NoApproval
      /\ given.digest.page = page'.version /\ given.digest.content = c
      /\ given.digest.version = seen.version /\ given.digest.base = seen.base
      /\ given.forced = forced /\ given.edited = (c # seen.content)
  <2>1. Snapshot(seen, page') \in Digest
    BY <1>3, <1>4 DEF Snapshot, Digest, Revision, PageRow
  <2>2. Snapshot(seen, page') # None
    BY <2>1, NoneIsNew
  <2>3. given.digest = Snapshot(seen, page')
    OBVIOUS
  <2> QED BY <1>4, <2>1, <2>2, <2>3 DEF Approval, NoApproval, Snapshot
<1>6. ledger[d] \in LedgerRow /\ draft[d] \in DraftRow
  BY <1>2 DEF TypeOK
<1> HIDE DEF given, seen
<1>7. /\ ledger' \in [Draft -> LedgerRow]
      /\ ledger'[d].state = "approved" /\ ledger'[d].approval = given
      /\ \A e \in Draft \ {d} : ledger'[e] = ledger[e]
  <2>1. [ledger[d] EXCEPT !.state = "approved", !.approval = given] \in LedgerRow
    BY <1>5, <1>6 DEF LedgerRow
  <2>2. /\ [ledger[d] EXCEPT !.state = "approved", !.approval = given].state = "approved"
        /\ [ledger[d] EXCEPT !.state = "approved", !.approval = given].approval = given
    BY <1>6 DEF LedgerRow
  <2>3. ledger \in [Draft -> LedgerRow]
    BY DEF TypeOK
  <2> HIDE DEF d
  <2> QED BY <1>1, <1>2, <2>1, <2>2, <2>3
<1>8. StatusSet(d, "approved")
  <2>1. "approved" \in Status
    BY DEF Status
  <2> QED BY <1>1, <1>2, <2>1, StatusSetRow
<1>9. \A e \in Draft : /\ draft'[e].version = draft[e].version
                      /\ draft'[e].content = draft[e].content
  BY <1>8 DEF StatusSet
<1> HIDE DEF d
<1>10. ledger[d].approval = NoApproval
  BY <1>1, <1>2 DEF DraftsInv, RowInv, Approved
<1>11. TypeOK'
  <2>1. req' \in [Request -> RequestState \cup {IdleRequest}]
    BY <1>1 DEF TypeOK
  <2> QED BY <1>1, <1>4, <1>7, <1>8, <2>1 DEF TypeOK, StatusSet
<1>12. DraftsInv'
  <2> SUFFICES ASSUME NEW e \in Draft PROVE RowInv(e)'
    BY DEF DraftsInv
  <2>1. CASE e = d
    <3>1. draft[d].gen <= generation
      BY <1>2 DEF DraftsInv, RowInv
    <3>2. ledger'[d].events = ledger[d].events
      BY <1>1, <1>2, <1>6 DEF TypeOK, LedgerRow
    <3>3. Last(ledger'[d])
      BY <1>1, <1>2, <3>2, LastKept DEF Decided
    <3> QED BY <1>1, <1>5, <1>7, <1>8, <2>1, <3>1, <3>3
            DEF RowInv, StatusSet, Approved, InPlay
  <2>2. CASE e # d
    BY <1>1, <1>7, <1>8, <2>2 DEF DraftsInv, RowInv, StatusSet
  <2> QED BY <2>1, <2>2
<1>13. ApprovalsInv'
  <2> SUFFICES ASSUME NEW e \in Draft PROVE ApprovalInv(e)'
    BY DEF ApprovalsInv
  <2>1. CASE e = d
    <3>1. seen.base \in Int
      BY <1>3 DEF Revision
    <3>2. ~given.forced => given.digest.base + 1 >= given.digest.page
      BY <1>1, <1>4, <1>5, <3>1 DEF seen
    <3>3. ~given.edited /\ given.digest.version = draft[d].version =>
             given.digest.content = draft[d].content
      BY <1>3, <1>5
    <3> QED BY <1>2, <1>4, <1>5, <1>7, <1>9, <2>1, <3>2, <3>3 DEF ApprovalInv
  <2>2. CASE e # d /\ ledger[e].approval # NoApproval
    <3>1. ledger[e].approval.digest.page \in Int
      BY <2>2 DEF TypeOK, LedgerRow, Approval, Digest
    <3>2. /\ ledger[e].approval.digest.page <= page.version
          /\ ledger[e].approval.digest.page = page.version =>
                ledger[e].approval.digest.content = page.content
      BY <2>2 DEF ApprovalsInv, ApprovalInv
    <3>3. /\ ledger[e].approval.digest.page <= page'.version
          /\ ledger[e].approval.digest.page = page'.version =>
                ledger[e].approval.digest.content = page'.content
      BY <1>4, <3>1, <3>2
    <3>4. ledger'[e] = ledger[e]
      BY <1>7, <2>2
    <3> QED BY <1>9, <2>2, <3>3, <3>4 DEF ApprovalsInv, ApprovalInv
  <2>3. CASE e # d /\ ledger[e].approval = NoApproval
    BY <1>7, <2>3 DEF ApprovalInv
  <2> QED BY <2>1, <2>2, <2>3
<1>14. RequestsInv'
  <2> SUFFICES ASSUME NEW q \in Request PROVE RequestInv(q)'
    BY DEF RequestsInv
  <2>1. CASE q = r
    BY <1>1, <2>1 DEF RequestInv, IdleRequest, TypeOK
  <2>2. CASE q # r /\ req[q].kind # "idle"
    <3>1. req'[q] = req[q] /\ req[q].draft \in Draft
      BY <1>1, <2>2, RequestOf DEF TypeOK
    <3>2. draft'[req[q].draft].status # "none"
      BY <1>8, <2>2, <3>1 DEF StatusSet, RequestsInv, RequestInv
    <3> QED BY <1>9, <2>2, <3>1, <3>2 DEF RequestsInv, RequestInv
  <2>3. CASE q # r /\ req[q].kind = "idle"
    BY <1>1, <2>3 DEF RequestInv, TypeOK
  <2> QED BY <2>1, <2>2, <2>3
<1>15. PublicationInv' /\ PublishedIsReviewed'
  <2> SUFFICES ASSUME publication # NoPublication
               PROVE  PublicationInv' /\ PublishedIsReviewed'
    BY <1>1 DEF PublicationInv, PublishedIsReviewed
  <2>1. publication.draft \in Draft \ {d}
    BY <1>10 DEF TypeOK, Publication, PublicationInv
  <2> QED BY <1>1, <1>7, <1>9, <2>1 DEF PublicationInv, PublishedIsReviewed
<1>16. StatusMatchesLedger'
  <2> SUFFICES ASSUME NEW e \in Draft \ unlogged
               PROVE  Agree(draft'[e], ledger'[e])
    BY <1>1 DEF StatusMatchesLedger, Agree, LedgerState, Approved
  <2>1. CASE e = d
    BY <1>7, <1>8, <2>1 DEF Agree, StatusSet, Approved
  <2>2. CASE e # d
    BY <1>7, <1>8, <2>2 DEF StatusMatchesLedger, Agree, Approved, StatusSet
  <2> QED BY <2>1, <2>2
<1>17. RevisionsAreSerial'
  <2>1. ASSUME NEW e \in Draft, NEW f \in Draft,
               ledger'[e].approval # NoApproval, ledger'[f].approval # NoApproval,
               ledger'[f].approval.digest.page = ledger'[e].approval.digest.page
        PROVE  ledger'[f].approval.digest.content = ledger'[e].approval.digest.content
    <3>1. CASE e = d \/ f = d
      <4>1. ledger'[e].approval.digest.page = page'.version
        BY <1>5, <1>7, <2>1, <3>1
      <4> QED BY <1>13, <2>1, <4>1 DEF ApprovalsInv, ApprovalInv
    <3>2. CASE e # d /\ f # d
      <4>1. ledger'[e] = ledger[e] /\ ledger'[f] = ledger[f]
        BY <1>7, <3>2
      <4> QED BY <2>1, <4>1 DEF RevisionsAreSerial
    <3> QED BY <3>1, <3>2
  <2>2. ASSUME NEW e \in Draft, ledger'[e].approval # NoApproval
        PROVE  /\ ledger'[e].approval.digest.page <= page'.version
               /\ ~ledger'[e].approval.forced =>
                     ledger'[e].approval.digest.base + 1 >= ledger'[e].approval.digest.page
    BY <1>13, <2>2 DEF ApprovalsInv, ApprovalInv
  <2> QED BY <2>1, <2>2 DEF RevisionsAreSerial
<1>18. (fence <= generation)'
  BY DEF Approve
<1> QED BY <1>11, <1>12, <1>13, <1>14, <1>15, <1>16, <1>17, <1>18

-----------------------------------------------------------------------------
(* Theorems *)

LEMMA InitReview == Init => ReviewInv
<1> SUFFICES ASSUME Init PROVE ReviewInv
  OBVIOUS
<1>1. PICK c \in Content :
         /\ page = [version |-> 1, content |-> c]
         /\ draft = [d \in Draft |-> [status |-> "none", version |-> 1, round |-> 0,
                                      base |-> 1, content |-> c, gen |-> 0]]
  BY DEF Init
<1>2. /\ generation = 1 /\ branch = "draft" /\ publication = NoPublication /\ unlogged = {}
      /\ fence = 1
      /\ ledger = [d \in Draft |->
                     [state |-> "none", events |-> {}, approval |-> NoApproval]]
      /\ req = [r \in Request |-> IdleRequest]
  BY DEF Init
<1>3. TypeOK
  <2>1. page \in PageRow
    BY <1>1, DraftReviewConstants DEF PageRow
  <2>2. draft \in [Draft -> DraftRow]
    BY <1>1, DraftReviewConstants DEF DraftRow, Status
  <2>3. ledger \in [Draft -> LedgerRow]
    BY <1>2 DEF LedgerRow
  <2>4. generation \in 1..MaxGeneration /\ fence \in 1..MaxGeneration
    BY <1>2, DraftReviewConstants
  <2>5. req \in [Request -> RequestState \cup {IdleRequest}]
    BY <1>2
  <2> QED BY <1>2, <2>1, <2>2, <2>3, <2>4, <2>5 DEF TypeOK
<1>4. DraftsInv
  BY <1>1, <1>2 DEF DraftsInv, RowInv, Approved, Last, InPlay
<1>5. \A d \in Draft : ledger[d].approval = NoApproval
  BY <1>2
<1>6. ApprovalsInv /\ RevisionsAreSerial
  BY <1>5 DEF ApprovalsInv, ApprovalInv, RevisionsAreSerial
<1>7. RequestsInv
  BY <1>2 DEF RequestsInv, RequestInv, IdleRequest
<1>8. PublicationInv /\ PublishedIsReviewed
  BY <1>2 DEF PublicationInv, PublishedIsReviewed
<1>9. StatusMatchesLedger
  BY <1>1, <1>2 DEF StatusMatchesLedger, LedgerState
<1>10. fence <= generation
  BY <1>2
<1> QED BY <1>3, <1>4, <1>6, <1>7, <1>8, <1>9, <1>10 DEF ReviewInv

LEMMA NextReview ==
    ASSUME ReviewInv, [Next]_vars
    PROVE  ReviewInv'
<1>1. CASE \E d \in Draft : AuthorStep(d)
  BY <1>1, ProposeStep, UpdateStep, ResubmitStep, RebaseStep, SubmitStep, SubmitBranchStep
     DEF AuthorStep
<1>2. ASSUME NEW r \in Request, RequestStep(r) PROVE ReviewInv'
  BY <1>2, LoadStep, ApproveStep, RejectStep, RequestChangesStep, WithdrawStep,
     CloseBranchStep, RequestFailsStep DEF RequestStep
<1>3. CASE Reingest \/ RetrySource
  BY <1>3, ReingestStep, RetryStep
<1>4. CASE \E d \in Draft, open \in BOOLEAN : Publish(d, open)
  BY <1>4, PublishStep
<1>5. CASE UNCHANGED vars
  BY <1>5 DEF vars, ReviewInv, TypeOK, DraftsInv, RowInv, ApprovalsInv, ApprovalInv,
     RequestsInv, RequestInv, PublicationInv, StatusMatchesLedger, LedgerState,
     Approved, Last,
     RevisionsAreSerial, PublishedIsReviewed
<1> QED BY <1>1, <1>2, <1>3, <1>4, <1>5 DEF Next

\* ReviewInv is inductive: it holds in every state of every behaviour, those in
\* which a request is repeated or a source retried included.
THEOREM ReviewInvariant ==
    Spec => []ReviewInv
<1>1. ReviewInv /\ [Next]_vars => ReviewInv'
  BY NextReview
<1> QED BY <1>1, InitReview, PTL DEF Spec

\* The rows of the draft, page, ledger and publication tables, and what the
\* requests hold of them, keep their types.
THEOREM ReviewTypes ==
    Spec => []TypeOK
<1>1. ReviewInv => TypeOK
  BY DEF ReviewInv
<1> QED BY <1>1, ReviewInvariant, PTL

\* The ledger follows the status column for any number of requests that decide
\* on what they read before, repeated ones included: append_draft_event refuses the
\* late ones.  unlogged names the drafts a branch or an overtaken replay hit.
THEOREM LedgerFollowsStatus ==
    Spec => []StatusMatchesLedger
<1>1. ReviewInv => StatusMatchesLedger
  BY DEF ReviewInv
<1> QED BY <1>1, ReviewInvariant, PTL

\* Approvals of one page never write the same version with different texts,
\* and an approval that heeds conflicts replaces the version it was based on.
THEOREM ApprovalsAreSerial ==
    Spec => []RevisionsAreSerial
<1>1. ReviewInv => RevisionsAreSerial
  BY DEF ReviewInv
<1> QED BY <1>1, ReviewInvariant, PTL

\* What apply_durable_publish publishes is the content its approval recorded,
\* however many versions of the draft there were between.
THEOREM PublishesWhatWasReviewed ==
    Spec => []PublishedIsReviewed
<1>1. ReviewInv => PublishedIsReviewed
  BY DEF ReviewInv
<1> QED BY <1>1, ReviewInvariant, PTL

-----------------------------------------------------------------------------
(* Decisions *)

\* A step writes the ledger of d alone, and leaves its approval.
OneEntry(d) ==
    \A e \in Draft : /\ e # d => ledger'[e] = ledger[e]
                     /\ ledger'[e].approval = ledger[e].approval

LEMMA StateSet ==
    ASSUME TypeOK, NEW d \in Draft, NEW state,
           ledger' = [ledger EXCEPT ![d].state = state]
    PROVE  OneEntry(d) /\ ledger'[d].state = state
<1>1. ledger' = [ledger EXCEPT ![d] = [ledger[d] EXCEPT !.state = state]]
  OBVIOUS
<1>2. ledger \in [Draft -> LedgerRow] /\ ledger[d] \in LedgerRow
  BY DEF TypeOK
<1>3. /\ [ledger[d] EXCEPT !.state = state].state = state
      /\ [ledger[d] EXCEPT !.state = state].approval = ledger[d].approval
  BY <1>2 DEF LedgerRow
<1> QED BY <1>1, <1>2, <1>3 DEF OneEntry

LEMMA EntryAppended ==
    ASSUME TypeOK, NEW d \in Draft, NEW event, NEW from, NEW to, Append(d, event, from, to)
    PROVE  OneEntry(d) /\ (ledger' = ledger \/ ledger[d].state = from)
<1>1. CASE ledger' = ledger
  BY <1>1 DEF OneEntry
<1>2. CASE ledger' = [ledger EXCEPT ![d] =
                 [ledger[d] EXCEPT !.state = to, !.events = ledger[d].events \cup {event}]]
           /\ Follows(d, from)
  <2>1. ledger \in [Draft -> LedgerRow] /\ ledger[d] \in LedgerRow
    BY DEF TypeOK
  <2>2. [ledger[d] EXCEPT !.state = to, !.events = ledger[d].events \cup {event}].approval
           = ledger[d].approval
    BY <2>1 DEF LedgerRow
  <2> QED BY <1>2, <2>1, <2>2 DEF OneEntry, Follows
<1> QED BY <1>1, <1>2 DEF Append

\* The steps of a draft other than an approval or a publication write the
\* ledger of a draft that nothing has been decided about.
LEMMA Undecided ==
    ASSUME ReviewInv, Next
    PROVE  \/ ledger' = ledger
           \/ \E d \in Draft : OneEntry(d) /\ ledger[d].state \notin Decided \cup Approved
           \/ Reingest
           \/ \E r \in Request, forced \in BOOLEAN, c \in Content : Approve(r, forced, c)
           \/ \E d \in Draft, open \in BOOLEAN : Publish(d, open)
<1>1. TypeOK
  BY DEF ReviewInv
<1>2. ASSUME NEW d \in Draft, AuthorStep(d)
      PROVE  \/ ledger' = ledger
             \/ OneEntry(d) /\ ledger[d].state \notin Decided \cup Approved
  <2>1. ASSUME NEW op, NEW from, NEW to, from \subseteq Open, Author(d, op, from, to)
        PROVE  OneEntry(d) /\ ledger[d].state \notin Decided \cup Approved
    <3>1. ledger' = [ledger EXCEPT ![d].state = LedgerState(to)]
      BY <2>1 DEF Author
    <3>2. ledger[d].state \notin Decided \cup Approved
      BY <2>1 DEF Author, LedgerState, Open, Decided, Approved
    <3> HIDE DEF LedgerState
    <3> QED BY <1>1, <3>1, <3>2, StateSet
  <2>2. ASSUME NEW c \in Content, Propose(d, c)
        PROVE  OneEntry(d) /\ ledger[d].state \notin Decided \cup Approved
    <3>1. ledger[d].state = "none"
      BY <2>2 DEF Propose, ReviewInv, DraftsInv, RowInv
    <3>2. PICK state : ledger' = [ledger EXCEPT ![d].state = state]
      BY <2>2 DEF Propose
    <3> QED BY <1>1, <3>1, <3>2, StateSet DEF Decided, Approved
  <2>3. CASE \E c \in Content : Update(d, c) \/ Resubmit(d, c) \/ Rebase(d, c)
    BY <2>1, <2>3 DEF Update, Resubmit, Rebase, Open
  <2>4. CASE Submit(d)
    BY <2>1, <2>4 DEF Submit, Open
  <2>5. CASE SubmitBranch(d)
    BY <2>5 DEF SubmitBranch
  <2> QED BY <1>2, <2>2, <2>3, <2>4, <2>5 DEF AuthorStep
<1>3. ASSUME NEW r \in Request, RequestStep(r)
      PROVE  \/ ledger' = ledger
             \/ \E d \in Draft : OneEntry(d) /\ ledger[d].state \notin Decided \cup Approved
             \/ \E forced \in BOOLEAN, c \in Content : Approve(r, forced, c)
  <2> DEFINE d == req[r].draft
  <2>1. ASSUME req[r].kind # "idle" PROVE d \in Draft
    BY <2>1, RequestOf DEF ReviewInv
  <2>2. ASSUME req[r].kind # "idle", req[r].status \in Open, Withdrawn(r)
        PROVE  ledger' = ledger \/ (OneEntry(d) /\ ledger[d].state \notin Decided \cup Approved)
    <3>1. LedgerState(req[r].status) \notin Decided \cup Approved
      BY <2>2 DEF LedgerState, Open, Decided, Approved
    <3> QED BY <1>1, <2>1, <2>2, <3>1, EntryAppended DEF Withdrawn
  <2>3. CASE Reject(r)
    BY <1>1, <2>1, <2>3, EntryAppended DEF Reject, Decided, Approved
  <2>4. CASE RequestChanges(r)
    BY <1>1, <2>1, <2>4, EntryAppended DEF RequestChanges, Decided, Approved
  <2>5. CASE Withdraw(r)
    <3>1. req[r].status \in Open
      BY <2>5 DEF Withdraw, ReviewInv, RequestsInv, RequestInv
    <3> QED BY <2>1, <2>2, <2>5, <3>1 DEF Withdraw
  <2>6. CASE CloseBranch(r)
    BY <2>1, <2>2, <2>6 DEF CloseBranch, Open
  <2>7. CASE RequestFails(r) \/ \E kind \in Kinds, e \in Draft : Load(r, kind, e)
    BY <2>7 DEF RequestFails, Load
  <2> QED BY <1>3, <2>3, <2>4, <2>5, <2>6, <2>7 DEF RequestStep
<1>4. RetrySource => ledger' = ledger
  BY DEF RetrySource
<1> QED BY <1>2, <1>3, <1>4 DEF Next

LEMMA ApprovedEntry ==
    ASSUME ReviewInv, NEW r \in Request, NEW forced, NEW c, Approve(r, forced, c)
    PROVE  /\ req[r].draft \in Draft
           /\ ledger[req[r].draft].state = "in_review"
           /\ \A e \in Draft : e # req[r].draft => ledger'[e] = ledger[e]
<1>1. req[r].draft \in Draft
  BY RequestOf DEF ReviewInv, Approve
<1> QED BY <1>1 DEF Approve, Follows, ReviewInv, TypeOK

LEMMA ReingestEntry ==
    ASSUME ReviewInv, Reingest, NEW d \in Draft
    PROVE  /\ ledger'[d].approval = ledger[d].approval
           /\ ledger'[d] # ledger[d] => ledger[d].state \notin Decided \cup Approved
<1>1. ledger'[d] = FencedEvent(d)
  BY DEF Reingest
<1>2. ledger[d] \in LedgerRow
  BY DEF ReviewInv, TypeOK
<1>3. CASE d \in Fenced
  <2>1. ledger[d].state \notin Decided \cup Approved
    BY <1>3 DEF Reingest, Fenced, LedgerState, Open, Decided, Approved
  <2>2. [ledger[d] EXCEPT !.state = "withdrawn"].approval = ledger[d].approval
    BY <1>2 DEF LedgerRow
  <2> QED BY <1>1, <1>3, <2>1, <2>2 DEF FencedEvent
<1>4. CASE d \notin Fenced
  BY <1>1, <1>4 DEF FencedEvent
<1> QED BY <1>3, <1>4

\* No interleaving of stale requests changes a decision in the ledger: nothing
\* follows a rejection or a withdrawal, and an approval is given once.
THEOREM DecisionsAreFinal ==
    Spec => DecisionIsFinal
<1> DEFINE Stands(d) ==
      /\ ledger[d].state \in {"rejected", "withdrawn"} => ledger'[d] = ledger[d]
      /\ ledger[d].approval # NoApproval =>
            /\ ledger'[d].approval = ledger[d].approval
            /\ ledger'[d].state \in {"approved", "published"}
<1>1. ReviewInv /\ [Next]_vars => [\A d \in Draft : Stands(d)]_vars
  <2> SUFFICES ASSUME ReviewInv, Next, NEW d \in Draft PROVE Stands(d)
    OBVIOUS
  <2>1. ledger[d].approval # NoApproval <=> ledger[d].state \in Approved
    BY DEF ReviewInv, DraftsInv, RowInv
  <2>2. CASE ledger'[d] = ledger[d] \/ ledger[d].state \notin Decided \cup Approved
    BY <2>1, <2>2 DEF Approved, Decided
  <2>3. CASE \E e \in Draft : OneEntry(e) /\ ledger[e].state \notin Decided \cup Approved
    BY <2>2, <2>3 DEF OneEntry
  <2>4. CASE Reingest
    BY <2>2, <2>4, ReingestEntry
  <2>5. CASE \E r \in Request, forced \in BOOLEAN, c \in Content : Approve(r, forced, c)
    <3>1. PICK r \in Request, forced \in BOOLEAN, c \in Content : Approve(r, forced, c)
      BY <2>5
    <3> QED BY <2>2, <3>1, ApprovedEntry DEF Decided, Approved
  <2>6. CASE \E e \in Draft, open \in BOOLEAN : Publish(e, open)
    <3>1. PICK e \in Draft, open \in BOOLEAN : Publish(e, open)
      BY <2>6
    <3> DEFINE to == IF open THEN "published" ELSE "approved"
    <3>2. /\ ledger' = [ledger EXCEPT ![e].state = to]
          /\ ledger[e].state \in Approved /\ to \in Approved
      BY <3>1 DEF Publish, Follows, PublishedFrom, Approved
    <3> HIDE DEF to
    <3>3. OneEntry(e) /\ ledger'[e].state = to
      BY <3>2, StateSet DEF ReviewInv
    <3> QED BY <2>1, <2>2, <3>2, <3>3 DEF OneEntry, Approved, Decided
  <2> QED BY <2>2, <2>3, <2>4, <2>5, <2>6, Undecided
<1> QED BY <1>1, ReviewInvariant, PTL DEF Spec, DecisionIsFinal

\* A compiler draft from before a re-ingest is never approved after it, for any
\* number of reviewers that read it before the re-ingest withdrew it and of
\* retries that advance the generation around it.
THEOREM FencedDraftsStayOut ==
    Spec => FencedDraftStaysOut
<1> DEFINE Admitted(d) ==
      ledger'[d].approval # ledger[d].approval => draft[d].gen = 0 \/ draft[d].gen >= fence
<1>1. ReviewInv /\ [Next]_vars => [\A d \in Draft \ unlogged : Admitted(d)]_vars
  <2> SUFFICES ASSUME ReviewInv, Next, NEW d \in Draft \ unlogged,
                      ledger'[d].approval # ledger[d].approval
               PROVE  draft[d].gen = 0 \/ draft[d].gen >= fence
    OBVIOUS
  <2>1. ~\E e \in Draft, open \in BOOLEAN : Publish(e, open)
    <3> SUFFICES ASSUME NEW e \in Draft, NEW open \in BOOLEAN, Publish(e, open) PROVE FALSE
      OBVIOUS
    <3>1. PICK state : ledger' = [ledger EXCEPT ![e].state = state]
      BY DEF Publish
    <3> QED BY <3>1, StateSet DEF ReviewInv, OneEntry
  <2>2. PICK r \in Request, forced \in BOOLEAN, c \in Content : Approve(r, forced, c)
    BY <2>1, Undecided, ReingestEntry DEF OneEntry
  <2>3. ledger[d].state = "in_review"
    BY <2>2, ApprovedEntry
  <2> QED BY <2>3 DEF ReviewInv, DraftsInv, RowInv, InPlay
<1> QED BY <1>1, ReviewInvariant, PTL DEF Spec, FencedDraftStaysOut
=============================================================================
