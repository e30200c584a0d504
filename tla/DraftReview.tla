---------------------------- MODULE DraftReview ----------------------------
(***************************************************************************)
(* The review of competing drafts of one wiki page, from proposal to       *)
(* publication: review/contributions.py and review/branches.py over the    *)
(* append-only ledger of governance/ledger.py, the page write of           *)
(* wiki_service.py and the guards of the durable publish command           *)
(* (publish/durable.py, governance/approval_guards.py).                    *)
(*                                                                         *)
(* A reviewer's request, a withdrawal and the closing of a branch read the *)
(* draft without a lock, and their transaction writes it later: Load and   *)
(* the action that commits are two steps, with anything in between.  The   *)
(* author's own operations lock the draft's aggregate before they read it, *)
(* so each is one step; so is publishing.  A transaction that is refused   *)
(* or aborted leaves no trace: RequestFails.  A branch has one draft of    *)
(* this page at most.                                                      *)
(***************************************************************************)
EXTENDS Naturals, FiniteSets

CONSTANTS
    Draft,          \* drafts that edit the page
    Branched,       \* the one that belongs to the contribution branch
    Compiled,       \* those that the compiler stages
    Request,        \* requests in flight at a time
    Content,        \* texts a page or a draft can have
    Ops,            \* operations in scope besides load, commit and publish
    Revised,        \* bound: drafts that are changed after they are proposed
    MaxVersion,     \* bound: versions of such a draft
    MaxPage,        \* bound: versions of the page
    MaxGeneration,  \* bound: dispatch generations of the source
    None

OpKinds ==
    {"update", "submit", "resubmit", "rebase",           \* by the author
     "reject", "request_changes", "withdraw",            \* single drafts
     "submit_branch", "merge", "close", "override",      \* branches
     "reingest", "retry"}                                \* the source

ASSUME DraftReviewConstants ==
    /\ Branched \subseteq Draft /\ Cardinality(Branched) <= 1
    /\ Compiled \subseteq Draft /\ Revised \subseteq Draft
    /\ Ops \subseteq OpKinds
    /\ MaxVersion \in Nat \ {0} /\ MaxPage \in Nat \ {0}
    /\ MaxGeneration \in Nat \ {0}
    /\ Content # {}
    /\ None \notin Draft

VARIABLES
    page,         \* the wiki_pages row
    generation,   \* the source's dispatch_generation
    draft,        \* wiki_page_drafts rows
    ledger,       \* governance_ledger_events, by draft
    branch,       \* the wiki_branches row's status
    req,          \* requests that have read their draft
    publication,  \* the latest publication of the page
    fence,        \* history: the generation of the latest re-ingest
    unlogged      \* history: drafts whose status was written with no event for it

vars == <<page, generation, draft, ledger, branch, req, publication, fence, unlogged>>

-----------------------------------------------------------------------------
(* Vocabulary *)

Open == {"draft", "pending", "needs_revision"}

Status == Open \cup {"none", "approved", "rejected", "withdrawn"}

PageRow == [version : 1..MaxPage, content : Content]

\* gen is the source generation a compiler draft was made from, 0 for a
\* draft somebody wrote.
DraftRow ==
    [status : Status, version : 1..MaxVersion, round : 0..MaxVersion,
     base : 1..MaxPage, content : Content, gen : 0..MaxGeneration]

\* What an approval decides on.
Revision == [version : 1..MaxVersion, round : 0..MaxVersion, base : 1..MaxPage, content : Content]

\* approval_digest: what of the draft and of the page was approved.
Digest ==
    [version : 1..MaxVersion, round : 0..MaxVersion, base : 1..MaxPage,
     page : 1..MaxPage, content : Content]

\* forced: the reviewer overrode the conflict check; edited: the reviewer
\* approved another text than the draft's.
Approval == [digest : Digest, forced : BOOLEAN, edited : BOOLEAN]

NoApproval == [digest |-> None, forced |-> FALSE, edited |-> FALSE]

\* The to_state of the latest event, the keys of the events that can meet a
\* retry (with their revision round), and the approval event.
LedgerRow ==
    [state : {"none", "draft", "in_review", "needs_revision", "approved",
              "published", "rejected", "withdrawn"},
     events : SUBSET ({"changes", "rejected", "withdrawn"} \X (0..MaxVersion)),
     approval : Approval \cup {NoApproval}]

Kinds == {"approve", "reject", "request_changes", "withdraw", "merge", "close", "override"}

\* What a request read and will use: the page version and the draft revision
\* for an approval, its round and status for the others.
RequestState ==
    [kind : Kinds, draft : Draft, status : Open \cup {None}, round : 0..MaxVersion,
     revision : Revision \cup {None}, page : 0..MaxPage]

IdleRequest ==
    [kind |-> "idle", draft |-> None, status |-> None, round |-> 0,
     revision |-> None, page |-> 0]

\* None is none of the values it stands for the absence of.
ASSUME NoneIsNew == None \notin Digest \cup Revision \cup Open

Publication == [draft : Draft, content : Content, open : BOOLEAN]

NoPublication == [draft |-> None, content |-> None, open |-> FALSE]

TypeOK ==
    /\ page \in PageRow
    /\ generation \in 1..MaxGeneration
    /\ draft \in [Draft -> DraftRow]
    /\ ledger \in [Draft -> LedgerRow]
    /\ branch \in {"draft", "pending_merge", "merged", "closed"}
    /\ req \in [Request -> RequestState \cup {IdleRequest}]
    /\ publication \in Publication \cup {NoPublication}
    /\ fence \in 1..MaxGeneration
    /\ unlogged \subseteq Draft

Init ==
    /\ \E c \in Content :
          /\ page = [version |-> 1, content |-> c]
          /\ draft = [d \in Draft |-> [status |-> "none", version |-> 1, round |-> 0,
                                       base |-> 1, content |-> c, gen |-> 0]]
    /\ generation = 1
    /\ ledger = [d \in Draft |->
                   [state |-> "none", events |-> {}, approval |-> NoApproval]]
    /\ branch = "draft"
    /\ req = [r \in Request |-> IdleRequest]
    /\ publication = NoPublication
    /\ fence = 1
    /\ unlogged = {}

\* What the ledger calls a draft status.
LedgerState(status) == IF status = "pending" THEN "in_review" ELSE status

-----------------------------------------------------------------------------
(* Authors and the compiler *)

\* create_wiki_draft from an editor, and stage_compilation_wiki_draft.  Bound:
\* the text differs from the page's, and the base is the page as it is.
Propose(d, c) ==
    /\ draft[d].status = "none"
    /\ c # page.content
    /\ LET status == IF d \in Compiled THEN "draft" ELSE "pending"
       IN  /\ draft' = [draft EXCEPT ![d] =
                 [status |-> status, version |-> 1, round |-> 0, base |-> page.version,
                  content |-> c, gen |-> IF d \in Compiled THEN generation ELSE 0]]
           /\ ledger' = [ledger EXCEPT ![d].state = LedgerState(status)]
    /\ UNCHANGED <<page, generation, branch, req, publication, fence, unlogged>>

\* The ledger accepts the next event of a draft only from the state it is in.
Author(d, op, from, to) ==
    /\ op \in Ops
    /\ draft[d].status \in from
    /\ ledger[d].state = LedgerState(draft[d].status)
    /\ ledger' = [ledger EXCEPT ![d].state = LedgerState(to)]
    /\ UNCHANGED <<page, generation, branch, req, publication, fence, unlogged>>

\* A round ends when a returned draft is changed.
NextRound(row) == IF row.status = "needs_revision" THEN row.round + 1 ELSE row.round

Edited(row, status, c) ==
    [row EXCEPT !.status = status, !.content = c, !.version = row.version + 1,
                !.round = NextRound(row)]

MayRevise(d) == d \in Revised /\ draft[d].version < MaxVersion

Update(d, c) ==
    /\ MayRevise(d)
    /\ c # draft[d].content
    /\ Author(d, "update", {"draft", "needs_revision"}, "draft")
    /\ draft' = [draft EXCEPT ![d] = Edited(draft[d], "draft", c)]

Submit(d) ==
    /\ Author(d, "submit", {"draft"}, "pending")
    /\ draft' = [draft EXCEPT ![d].status = "pending"]

Resubmit(d, c) ==
    /\ MayRevise(d)
    /\ Author(d, "resubmit", {"needs_revision"}, "pending")
    /\ draft' = [draft EXCEPT ![d] = Edited(draft[d], "pending", c)]

\* rebase_wiki_branch_draft
Rebase(d, c) ==
    /\ d \in Branched
    /\ branch = "pending_merge"
    /\ MayRevise(d)
    /\ draft[d].base < page.version
    /\ Author(d, "rebase", {"pending"}, "pending")
    /\ draft' = [draft EXCEPT ![d] =
                    [Edited(draft[d], "pending", c) EXCEPT !.base = page.version]]

Fenced == {d \in Draft : draft[d].gen # 0 /\ draft[d].status \in Open}

\* Mutant: the fence withdraws the rows and leaves the ledger alone
FencedRowsOnly(d) == ledger[d]

FencedEvent(d) ==
    IF d \in Fenced THEN [ledger[d] EXCEPT !.state = "withdrawn"] ELSE ledger[d]

\* The re-ingest of update_source: a new dispatch generation, with
\* invalidate_stale_compiler_drafts in its transaction; an event the ledger
\* refuses refuses the whole of it.
Reingest ==
    /\ "reingest" \in Ops
    /\ generation < MaxGeneration
    /\ \A d \in Fenced : ledger[d].state = LedgerState(draft[d].status)
    /\ generation' = generation + 1
    /\ draft' = [d \in Draft |->
          IF d \in Fenced THEN [draft[d] EXCEPT !.status = "withdrawn"] ELSE draft[d]]
    /\ ledger' = [d \in Draft |-> FencedEvent(d)]
    /\ fence' = generation'
    /\ UNCHANGED <<page, branch, req, publication, unlogged>>

\* retry_source, and an upload anew: the next generation, and no draft is
\* withdrawn.
RetrySource ==
    /\ "retry" \in Ops
    /\ generation < MaxGeneration
    /\ generation' = generation + 1
    /\ UNCHANGED <<page, draft, ledger, branch, req, publication, fence, unlogged>>

-----------------------------------------------------------------------------
(* Requests that read first *)

\* The checks made on what was read: the status, for an approval the fence
\* of compiler drafts, for a branch its status and a first conflict check.
MayLoad(kind, d) ==
    LET row == draft[d]
        current == row.gen \in {0, generation}
    IN  \/ kind = "approve" /\ row.status = "pending" /\ current
        \/ kind \in {"reject", "request_changes"} \cap Ops /\ row.status = "pending"
        \/ kind \in {"withdraw"} \cap Ops /\ row.status \in Open
        \/ /\ kind \in {"merge"} \cap Ops /\ d \in Branched /\ branch = "pending_merge"
           /\ row.status = "pending" /\ current /\ row.base >= page.version
        \/ /\ kind \in {"close", "override"} \cap Ops /\ d \in Branched
           /\ branch \in {"draft", "pending_merge"} /\ row.status # "none"

RevisionOf(row) ==
    [version |-> row.version, round |-> row.round, base |-> row.base, content |-> row.content]

Load(r, kind, d) ==
    /\ req[r] = IdleRequest
    /\ MayLoad(kind, d)
    /\ req' = [req EXCEPT ![r] = LET approves == kind \in {"approve", "merge"} IN
          [kind |-> kind, draft |-> d,
           status |-> IF approves \/ draft[d].status \notin Open THEN None ELSE draft[d].status,
           round |-> IF approves THEN 0 ELSE draft[d].round,
           revision |-> IF approves THEN RevisionOf(draft[d]) ELSE None,
           page |-> IF approves THEN page.version ELSE 0]]
    /\ UNCHANGED <<page, generation, draft, ledger, branch, publication, fence, unlogged>>

RequestFails(r) ==
    /\ req[r] # IdleRequest
    /\ req' = [req EXCEPT ![r] = IdleRequest]
    /\ UNCHANGED <<page, generation, draft, ledger, branch, publication, fence, unlogged>>

Ends(r) == req' = [req EXCEPT ![r] = IdleRequest]

SetStatus(d, status) == draft' = [draft EXCEPT ![d].status = status]

\* Mutant: the latest event is not looked at
Unordered(d, from) == TRUE

\* append_draft_event, for a key that is new.
Follows(d, from) == ledger[d].state = from

\* For a key that may exist: an identical event is a replay, another one a
\* conflict.  The key of a request for changes names the round.
Append(d, event, from, to) ==
    LET keys == {e \in ledger[d].events : e[1] = event[1] /\ (e[1] = "changes" => e = event)}
    IN  \/ /\ keys = {} /\ Follows(d, from)
           /\ ledger' = [ledger EXCEPT ![d] =
                 [ledger[d] EXCEPT !.state = to, !.events = ledger[d].events \cup {event}]]
        \/ event \in keys /\ UNCHANGED ledger

\* Mutant: the page row is not refreshed once the slug lock is held
PageAsLoaded(r) == [version |-> req[r].page, content |-> page.content]

\* The page row approve_wiki_draft goes by.
LockedPage(r) == page

\* write_page: a write that changes nothing makes no version.
Written(row, c) ==
    {[version |-> row.version + 1, content |-> c]}
        \cup (IF row.content = c THEN {row} ELSE {})

Snapshot(row, p) ==
    [version |-> row.version, round |-> row.round, base |-> row.base,
     page |-> p.version, content |-> p.content]

\* approve_wiki_draft on what the request read; allow_conflict and edited
\* content override the check against newer versions of the page.
Approve(r, forced, c) ==
    LET d    == req[r].draft
        seen == req[r].revision
    IN  /\ req[r].kind \in {"approve", "merge"}
        /\ forced => req[r].kind = "approve"
        /\ ~forced => c = seen.content /\ seen.base >= LockedPage(r).version
        /\ ledger[d].approval = NoApproval
        /\ Follows(d, "in_review")
        /\ page' \in Written(LockedPage(r), c)
        /\ page'.version <= MaxPage
        /\ SetStatus(d, "approved")
        /\ ledger' = [ledger EXCEPT ![d] =
              [ledger[d] EXCEPT !.state = "approved",
                                !.approval = [digest |-> Snapshot(seen, page'), forced |-> forced,
                                              edited |-> c # seen.content]]]
        /\ branch' = IF req[r].kind = "merge" THEN "merged" ELSE branch
        /\ Ends(r)
        /\ UNCHANGED <<generation, publication, fence, unlogged>>

Reject(r) ==
    LET d == req[r].draft
    IN  /\ req[r].kind = "reject"
        /\ SetStatus(d, "rejected")
        /\ Append(d, <<"rejected", req[r].round>>, "in_review", "rejected")
        /\ Ends(r)
        /\ UNCHANGED <<page, generation, branch, publication, fence, unlogged>>

\* An identical request came first, and the draft has moved on since.
Overtaken(r) ==
    LET entry == ledger[req[r].draft]
    IN  <<"changes", req[r].round>> \in entry.events /\ entry.state # "needs_revision"

RequestChanges(r) ==
    LET d == req[r].draft
    IN  /\ req[r].kind = "request_changes"
        /\ SetStatus(d, "needs_revision")
        /\ Append(d, <<"changes", req[r].round>>, "in_review", "needs_revision")
        /\ unlogged' = IF Overtaken(r) THEN unlogged \cup {d} ELSE unlogged
        /\ Ends(r)
        /\ UNCHANGED <<page, generation, branch, publication, fence>>

Withdrawn(r) ==
    /\ SetStatus(req[r].draft, "withdrawn")
    /\ Append(req[r].draft, <<"withdrawn", req[r].round>>,
              LedgerState(req[r].status), "withdrawn")

Withdraw(r) ==
    /\ req[r].kind = "withdraw"
    /\ Withdrawn(r)
    /\ Ends(r)
    /\ UNCHANGED <<page, generation, branch, publication, fence, unlogged>>

\* submit_wiki_branch: into review whatever the status was, with no event.
SubmitBranch(d) ==
    /\ "submit_branch" \in Ops
    /\ d \in Branched /\ draft[d].status # "none"
    /\ branch = "draft"
    /\ branch' = "pending_merge"
    /\ SetStatus(d, "pending")
    /\ unlogged' = IF draft[d].status = "pending" THEN unlogged ELSE unlogged \cup {d}
    /\ UNCHANGED <<page, generation, ledger, req, publication, fence>>

\* close_wiki_branch by its author withdraws the draft it read; a reviewer's
\* writes the status alone.
CloseBranch(r) ==
    LET open == req[r].status \in {"pending", "needs_revision"}
    IN  /\ req[r].kind \in {"close", "override"}
        /\ branch' = "closed"
        /\ \/ ~open /\ UNCHANGED <<draft, ledger, unlogged>>
           \/ open /\ req[r].kind = "close" /\ Withdrawn(r) /\ UNCHANGED unlogged
           \/ /\ open /\ req[r].kind = "override" /\ UNCHANGED ledger
              /\ SetStatus(req[r].draft, "withdrawn")
              /\ unlogged' = unlogged \cup {req[r].draft}
        /\ Ends(r)
        /\ UNCHANGED <<page, generation, publication, fence>>

-----------------------------------------------------------------------------
(* Publication *)

\* Mutant: the digest covers the page and not the draft revision
DigestOfPage(d) ==
    ledger[d].approval.digest.page = page.version
        /\ ledger[d].approval.digest.content = page.content

\* The digest of the rows as they are is the one that was approved.
DigestHolds(d) ==
    /\ ledger[d].approval # NoApproval
    /\ ledger[d].approval.digest = Snapshot(draft[d], page)

PublishedFrom == IF publication.open THEN "published" ELSE "approved"

\* apply_durable_publish; an action that leaves no binding open puts the
\* ledger back to approved.
Publish(d, open) ==
    /\ draft[d].status = "approved"
    /\ DigestHolds(d)
    /\ Follows(d, PublishedFrom)
    /\ ledger' = [ledger EXCEPT ![d].state = IF open THEN "published" ELSE "approved"]
    /\ publication' = [draft |-> d, content |-> page.content, open |-> open]
    /\ UNCHANGED <<page, generation, draft, branch, req, fence, unlogged>>

-----------------------------------------------------------------------------
AuthorStep(d) ==
    \/ \E c \in Content : Propose(d, c) \/ Update(d, c) \/ Resubmit(d, c) \/ Rebase(d, c)
    \/ Submit(d) \/ SubmitBranch(d)

RequestStep(r) ==
    \/ \E kind \in Kinds, d \in Draft : Load(r, kind, d)
    \/ \E forced \in BOOLEAN, c \in Content : Approve(r, forced, c)
    \/ Reject(r) \/ RequestChanges(r) \/ Withdraw(r) \/ CloseBranch(r) \/ RequestFails(r)

Next ==
    \/ \E d \in Draft : AuthorStep(d)
    \/ \E r \in Request : RequestStep(r)
    \/ Reingest \/ RetrySource
    \/ \E d \in Draft, open \in BOOLEAN : Publish(d, open)

Spec == Init /\ [][Next]_vars

-----------------------------------------------------------------------------
(* Properties *)

\* The status column and the ledger tell the same story, however stale the
\* reads are that reviewers and authors decide on, and though append_draft_event
\* answers an identical request again: no decision of a draft parts the two.  Two
\* things do, and unlogged names the drafts they hit: a branch that is submitted
\* or closed over a draft, and a repeated request for changes that comes after
\* the author or somebody else has moved the draft on (ReplayIsHarmless).
StatusMatchesLedger ==
    \A d \in Draft \ unlogged :
        IF draft[d].status = "approved"
        THEN ledger[d].state \in {"approved", "published"}
        ELSE ledger[d].state = LedgerState(draft[d].status)

\* What is published is what was reviewed: the content the approval recorded,
\* and, unless the reviewer edited it, the content the draft row holds.  An
\* approval that read an older version of the draft writes the page, and the
\* digest keeps it from being published.
PublishedIsReviewed ==
    publication # NoPublication =>
        LET d == publication.draft
        IN  /\ publication.content = ledger[d].approval.digest.content
            /\ ~ledger[d].approval.edited => publication.content = draft[d].content

\* Approvals of a page are serial: the versions they write do not collide,
\* and one that was not told to ignore conflicts replaced exactly the version
\* its author started from.
RevisionsAreSerial ==
    \A d \in Draft : LET a == ledger[d].approval
        IN  a # NoApproval =>
            /\ a.digest.page <= page.version
            /\ ~a.forced => a.digest.base + 1 >= a.digest.page
            /\ \A e \in Draft : LET o == ledger[e].approval
                   IN  o # NoApproval /\ o.digest.page = a.digest.page =>
                           o.digest.content = a.digest.content

\* A compiler draft from before a re-ingest is never approved after it, even by
\* a reviewer whose request had passed validate_compiler_draft_context before:
\* update_source fences "all older compiler drafts" in its own transaction.
FencedDraftStaysOut ==
    [][\A d \in Draft \ unlogged : ledger'[d].approval # ledger[d].approval =>
            draft[d].gen = 0 \/ draft[d].gen >= fence]_vars

\* A decision on a draft stands in the ledger: nothing follows a rejection or
\* a withdrawal, and there is one approval at most.
DecisionIsFinal ==
    [][\A d \in Draft :
          /\ ledger[d].state \in {"rejected", "withdrawn"} => ledger'[d] = ledger[d]
          /\ ledger[d].approval # NoApproval =>
                /\ ledger'[d].approval = ledger[d].approval
                /\ ledger'[d].state \in {"approved", "published"}]_vars

\* A revision of a published page that was reviewed can be published: the
\* ledger does not refuse what the digests admit.
ApprovedCanPublish ==
    \A d \in Draft \ unlogged :
        draft[d].status = "approved" /\ DigestHolds(d) => Follows(d, PublishedFrom)

\* What the conflict message "compiler source generation changed" promises for
\* every new generation.  A retry of the source starts one and withdraws no
\* draft: a request that passed the fence before it approves the old draft.
SupersededStaysOut ==
    [][\A d \in Draft \ unlogged : ledger'[d].approval # ledger[d].approval =>
            draft[d].gen \in {0, generation}]_vars

\* What append_draft_event promises of a repeated request: "return its exact
\* idempotent replay".  The replay of a request for changes writes the status
\* of a draft that was resubmitted or withdrawn in the meantime.
ReplayIsHarmless == unlogged \subseteq Branched
=============================================================================
