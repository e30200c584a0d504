---------------------------- MODULE FeedbackRoutes ----------------------------
(***************************************************************************)
(* Consumption feedback and the review work it leads to.  A feedback       *)
(* command records one fact and, when its kind is routed, one durable      *)
(* route (governed_feedback_tools.py, feedback_routing.py).  Drains on     *)
(* every worker's schedule lease the due routes and execute them one by    *)
(* one (feedback_execution.py, worker.py): a route ends completed, with a  *)
(* governance signal and its review assignment, blocked, or failed after   *)
(* its last attempt.  Administrators then assign and resolve the signal    *)
(* (review_assignments.py, signals.py).                                    *)
(*                                                                         *)
(* A command names its fact, its route and its signal, which the code ties *)
(* one to one.  The lease token is random in the code; here it is the name *)
(* of the drain, which holds at most one claim of a route at a time and    *)
(* none after a crash, so two claims of a route never share it.            *)
(***************************************************************************)
EXTENDS Naturals, Sequences, FiniteSets

CONSTANTS
    Command,         \* command ids of feedback
    Kind,            \* kinds of feedback
    Routed,          \* the kinds _ROUTING_POLICY maps to a route
    Drain,           \* drain_feedback_routes calls that may overlap
    Limit,           \* _FEEDBACK_ROUTE_SWEEP_LIMIT
    MaxAttempts,     \* MAX_FEEDBACK_ROUTE_ATTEMPTS
    AssignCommand,   \* command ids of assignment commands
    Owner,           \* owners an assignment may name
    MaxVersion,      \* bound on the versions an assignment reaches
    None

ASSUME FeedbackAssumption ==
    /\ Routed \subseteq Kind
    /\ Limit \in Nat \ {0}
    /\ MaxAttempts \in Nat \ {0}
    /\ MaxVersion \in Nat \ {0}
    /\ None \notin Kind \cup Drain \cup Owner \cup Command \cup AssignCommand

VARIABLES
    fact,        \* GovernanceFeedbackSignal: the kind a command recorded
    route,       \* GovernanceFeedbackRoute
    audit,       \* how many terminal audit rows a route has
    signal,      \* GovernanceSignal: status of the outcome
    assignment,  \* GovernanceReviewAssignment
    history,     \* GovernanceReviewAssignmentEvent, by sequence
    drain        \* progress of each drain

vars == <<fact, route, audit, signal, assignment, history, drain>>

-----------------------------------------------------------------------------
(* Vocabulary *)

TerminalRoute == {"completed", "blocked", "failed"}
RouteState == {"absent", "queued", "running"} \cup TerminalRoute
Lease == {"none", "live", "expired"}
RouteRow == [state : RouteState, attempts : 0..MaxAttempts,
             token : Drain \cup {None}, lease : Lease, due : BOOLEAN]
NoRoute == [state |-> "absent", attempts |-> 0, token |-> None,
            lease |-> "none", due |-> FALSE]
NewRoute == [state |-> "queued", attempts |-> 0, token |-> None,
             lease |-> "none", due |-> TRUE]

OwnerState == {"unassigned", "assigned", "escalated"}
Assignment == [state : OwnerState, owner : Owner \cup {None},
               version : 0..MaxVersion]
NoAssignment == [state |-> "unassigned", owner |-> None, version |-> 0]

\* An event keeps the command that caused it and the version it expected; the
\* initial event has neither.
Event == [sequence : 1..MaxVersion, command : AssignCommand \cup {None},
          expected : 0..MaxVersion, from : OwnerState \cup {None},
          to : OwnerState, owner : Owner \cup {None}]

\* A drain works through its claims; at is the one in hand, and inTime whether
\* its lease was unexpired when the code last read the clock.
DrainState == [pc : {"idle", "draining", "executing", "failing", "recording"},
               batch : SUBSET Command, at : Command \cup {None},
               inTime : BOOLEAN]
Idle == [pc |-> "idle", batch |-> {}, at |-> None, inTime |-> FALSE]

Init ==
    /\ fact = [c \in Command |-> None]
    /\ route = [c \in Command |-> NoRoute]
    /\ audit = [c \in Command |-> 0]
    /\ signal = [c \in Command |-> "absent"]
    /\ assignment = [c \in Command |-> NoAssignment]
    /\ history = [c \in Command |-> << >>]
    /\ drain = [d \in Drain |-> Idle]

-----------------------------------------------------------------------------
(* Recording feedback *)

\* record_feedback_signal: one transaction under the lock of the command id
\* writes the fact and, for a routed kind, its route.  A replay finds the fact
\* and writes nothing; another input under the same id is a conflict.
RecordFeedback(c, k) ==
    /\ fact[c] = None
    /\ fact' = [fact EXCEPT ![c] = k]
    /\ route' = IF k \in Routed
                  THEN [route EXCEPT ![c] = NewRoute] ELSE route
    /\ UNCHANGED <<audit, signal, assignment, history, drain>>

-----------------------------------------------------------------------------
(* Claiming *)

\* Mutant: only queued routes are due
DueOnlyQueued(c) == route[c].state = "queued" /\ route[c].due

\* The rows claim_feedback_routes selects.
Due(c) ==
    \/ route[c].state = "queued" /\ route[c].due
    \/ route[c].state = "running" /\ route[c].lease = "expired"

Exhausted(r) == r.attempts >= MaxAttempts

Claimed(r, d) == [state |-> "running", attempts |-> r.attempts + 1,
                  token |-> d, lease |-> "live", due |-> FALSE]

\* _mark_completed, _mark_blocked, _mark_failed
Closed(r, state) == [r EXCEPT !.state = state, !.token = None,
                              !.lease = "none", !.due = FALSE]

\* claim_feedback_routes, committed before anything is executed.  A row that
\* another transaction has locked is skipped, and the batch is bounded.  A
\* route whose last attempt expired is failed here.
ClaimRoutes(d) ==
    \E S \in SUBSET {c \in Command : Due(c)} :
        LET spent == {c \in S : Exhausted(route[c])} IN
        /\ drain[d].pc = "idle"
        /\ S # {} /\ Cardinality(S) <= Limit
        /\ route' = [c \in Command |->
                       IF c \in spent THEN Closed(route[c], "failed")
                       ELSE IF c \in S THEN Claimed(route[c], d)
                       ELSE route[c]]
        /\ audit' = [c \in Command |->
                       IF c \in spent THEN audit[c] + 1 ELSE audit[c]]
        /\ drain' = [drain EXCEPT ![d] =
                       IF S = spent THEN Idle
                       ELSE [Idle EXCEPT !.pc = "draining", !.batch = S \ spent]]
        /\ UNCHANGED <<fact, signal, assignment, history>>

-----------------------------------------------------------------------------
(* Executing one claim *)

\* The drain goes on to its next claim, or ends.
NextClaim(d) ==
    LET rest == drain[d].batch \ {drain[d].at} IN
    drain' = [drain EXCEPT ![d] =
                IF rest = {} THEN Idle
                ELSE [Idle EXCEPT !.pc = "draining", !.batch = rest]]

\* execute_feedback_route reads the clock before it waits for the row lock.
StartExecution(d, c) ==
    /\ drain[d].pc = "draining"
    /\ c \in drain[d].batch
    /\ drain' = [drain EXCEPT ![d].pc = "executing", ![d].at = c,
                              ![d].inTime = route[c].lease = "live"]
    /\ UNCHANGED <<fact, route, audit, signal, assignment, history>>

\* Mutant: the token is not compared
HoldsAnyToken(d) ==
    LET r == route[drain[d].at] IN
    r.state = "running" /\ drain[d].inTime

\* _require_active_lease, on the locked row
Holds(d) ==
    LET r == route[drain[d].at] IN
    r.state = "running" /\ r.token = d /\ drain[d].inTime

\* A terminal route is replayed, a lost lease is rolled back, or the session
\* itself breaks: nothing is written, and the drain goes on.
ExecuteNothing(d) ==
    /\ drain[d].pc = "executing"
    /\ NextClaim(d)
    /\ UNCHANGED <<fact, route, audit, signal, assignment, history>>

\* Whether the database's answer to the commit arrives: if not, the code sees
\* an exception although the transaction is durable.
CommitAnswered(d) ==
    \/ NextClaim(d)
    \/ drain' = [drain EXCEPT ![d].pc = "failing"]

\* create_governance_signal and initialize_review_assignment: once per
\* reference, with the unassigned baseline as version and event 1.
Materialize(c) ==
    /\ signal' = [signal EXCEPT ![c] = IF @ = "absent" THEN "active" ELSE @]
    /\ assignment' = [assignment EXCEPT ![c] =
                        IF signal[c] = "absent"
                          THEN [NoAssignment EXCEPT !.version = 1] ELSE @]
    /\ history' = [history EXCEPT ![c] =
                     IF signal[c] = "absent"
                       THEN << [sequence |-> 1, command |-> None, expected |-> 0,
                                from |-> None, to |-> "unassigned",
                                owner |-> None] >>
                       ELSE @]

\* The target resolves: signal, assignment, completion and audit in one
\* transaction.
ExecuteComplete(d) ==
    LET c == drain[d].at IN
    /\ drain[d].pc = "executing"
    /\ Holds(d)
    /\ Materialize(c)
    /\ route' = [route EXCEPT ![c] = Closed(@, "completed")]
    /\ audit' = [audit EXCEPT ![c] = @ + 1]
    /\ CommitAnswered(d)
    /\ UNCHANGED fact

\* The policy has changed, or the page or draft of the feedback is gone, not
\* materialized, ineligible or another object: the route is blocked.
ExecuteBlock(d) ==
    LET c == drain[d].at IN
    /\ drain[d].pc = "executing"
    /\ Holds(d)
    /\ route' = [route EXCEPT ![c] = Closed(@, "blocked")]
    /\ audit' = [audit EXCEPT ![c] = @ + 1]
    /\ CommitAnswered(d)
    /\ UNCHANGED <<fact, signal, assignment, history>>

\* Mutant: the signal is committed by itself, before the route
ExecuteRaisesAfterSignal(d) ==
    /\ drain[d].pc = "executing"
    /\ Holds(d)
    /\ Materialize(drain[d].at)
    /\ drain' = [drain EXCEPT ![d].pc = "failing"]
    /\ UNCHANGED <<fact, route, audit>>

\* Any exception: the execution is rolled back.
ExecuteRaises(d) ==
    /\ drain[d].pc = "executing"
    /\ drain' = [drain EXCEPT ![d].pc = "failing"]
    /\ UNCHANGED <<fact, route, audit, signal, assignment, history>>

-----------------------------------------------------------------------------
(* Recording a failure, in a session of its own *)

\* record_feedback_route_failure reads the clock again.
StartRecording(d) ==
    /\ drain[d].pc = "failing"
    /\ drain' = [drain EXCEPT ![d].pc = "recording",
                              ![d].inTime = route[drain[d].at].lease = "live"]
    /\ UNCHANGED <<fact, route, audit, signal, assignment, history>>

\* _requeue_after_failure
Requeued(r) == [r EXCEPT !.state = "queued", !.token = None,
                         !.lease = "none", !.due = FALSE]

\* Mutant: the failure of a closed route is recorded like any other
RecordFailureAlways(d) ==
    LET c == drain[d].at IN
    /\ drain[d].pc = "recording"
    /\ route' = [route EXCEPT ![c] = IF Exhausted(@) THEN Closed(@, "failed")
                                     ELSE Requeued(@)]
    /\ audit' = [audit EXCEPT ![c] = IF Exhausted(route[c]) THEN @ + 1 ELSE @]
    /\ NextClaim(d)
    /\ UNCHANGED <<fact, signal, assignment, history>>

\* The last attempt fails the route, an earlier one puts it back in the queue
\* with a delay.
RecordFailure(d) ==
    LET c == drain[d].at IN
    /\ drain[d].pc = "recording"
    /\ Holds(d)
    /\ route' = [route EXCEPT ![c] = IF Exhausted(@) THEN Closed(@, "failed")
                                     ELSE Requeued(@)]
    /\ audit' = [audit EXCEPT ![c] = IF Exhausted(route[c]) THEN @ + 1 ELSE @]
    /\ NextClaim(d)
    /\ UNCHANGED <<fact, signal, assignment, history>>

\* The route is terminal, the lease is lost, or recording the failure fails
\* too: nothing is written, and an expired lease brings the route back.
RecordNothing(d) ==
    /\ drain[d].pc = "recording"
    /\ NextClaim(d)
    /\ UNCHANGED <<fact, route, audit, signal, assignment, history>>

-----------------------------------------------------------------------------
(* Time and crashes *)

LeaseExpires(c) ==
    /\ route[c].lease = "live"
    /\ route' = [route EXCEPT ![c].lease = "expired"]
    /\ UNCHANGED <<fact, audit, signal, assignment, history, drain>>

RetryDelayEnds(c) ==
    /\ route[c].state = "queued" /\ ~route[c].due
    /\ route' = [route EXCEPT ![c].due = TRUE]
    /\ UNCHANGED <<fact, audit, signal, assignment, history, drain>>

\* The worker process dies, its claims with it.
DrainCrash(d) ==
    /\ drain[d].pc # "idle"
    /\ drain' = [drain EXCEPT ![d] = Idle]
    /\ UNCHANGED <<fact, route, audit, signal, assignment, history>>

-----------------------------------------------------------------------------
(* The review work *)

\* Command ids that some event is bound to; using one again is a replay or a
\* conflict, and writes nothing.
Bound ==
    UNION {{history[c][i].command : i \in DOMAIN history[c]} : c \in Command}

\* _transition: what a command may do to an assignment.
Allowed(a, to, o) ==
    \/ to \in {"assigned", "escalated"} /\ o \in Owner
       /\ ~(a.state = to /\ a.owner = o)
    \/ to = "unassigned" /\ o = None /\ a.state # "unassigned"

\* Mutant: a command is applied whatever version its author saw
ApplyStaleAssignment(k, c, to, o, v) ==
    /\ k \notin Bound
    /\ signal[c] = "active"
    /\ Allowed(assignment[c], to, o)
    /\ assignment[c].version < MaxVersion
    /\ assignment' = [assignment EXCEPT ![c] =
                        [state |-> to, owner |-> o, version |-> @.version + 1]]
    /\ history' = [history EXCEPT ![c] =
                     Append(@, [sequence |-> assignment[c].version + 1,
                                command |-> k, expected |-> v,
                                from |-> assignment[c].state, to |-> to,
                                owner |-> o])]
    /\ UNCHANGED <<fact, route, audit, signal, drain>>

\* apply_review_assignment_command: one transaction, serialized by the row
\* locks of signal and assignment.  v is the version the author saw.
ApplyAssignment(k, c, to, o, v) ==
    /\ k \notin Bound
    /\ signal[c] = "active"
    /\ assignment[c].version = v
    /\ Allowed(assignment[c], to, o)
    /\ assignment[c].version < MaxVersion
    /\ assignment' = [assignment EXCEPT ![c] =
                        [state |-> to, owner |-> o, version |-> @.version + 1]]
    /\ history' = [history EXCEPT ![c] =
                     Append(@, [sequence |-> assignment[c].version + 1,
                                command |-> k, expected |-> v,
                                from |-> assignment[c].state, to |-> to,
                                owner |-> o])]
    /\ UNCHANGED <<fact, route, audit, signal, drain>>

\* resolve_governance_signal; a retry preserves the first resolution.
ResolveSignal(c) ==
    /\ signal[c] = "active"
    /\ signal' = [signal EXCEPT ![c] = "resolved"]
    /\ UNCHANGED <<fact, route, audit, assignment, history, drain>>

-----------------------------------------------------------------------------
(* The specification *)

DrainStep(d) ==
    \/ \E c \in Command : StartExecution(d, c)
    \/ ExecuteNothing(d) \/ ExecuteComplete(d) \/ ExecuteBlock(d)
    \/ ExecuteRaises(d) \/ StartRecording(d) \/ RecordFailure(d)
    \/ RecordNothing(d)

Next ==
    \/ \E c \in Command, k \in Kind : RecordFeedback(c, k)
    \/ \E d \in Drain : ClaimRoutes(d) \/ DrainStep(d) \/ DrainCrash(d)
    \/ \E c \in Command : LeaseExpires(c) \/ RetryDelayEnds(c) \/ ResolveSignal(c)
    \/ \E k \in AssignCommand, c \in Command, to \in OwnerState,
          o \in Owner \cup {None}, v \in 1..MaxVersion :
             ApplyAssignment(k, c, to, o, v)

Spec == Init /\ [][Next]_vars

\* The cron keeps draining, a drain that lives goes on, and time passes.
\* Crashes and exceptions are not bounded.
Fairness ==
    /\ WF_vars(\E d \in Drain : ClaimRoutes(d))
    /\ \A d \in Drain : WF_vars(DrainStep(d))
    /\ \A c \in Command : WF_vars(LeaseExpires(c)) /\ WF_vars(RetryDelayEnds(c))

FairSpec == Spec /\ Fairness

-----------------------------------------------------------------------------
(* Properties *)

\* Every variable stays in its type; in particular no route is attempted more
\* often than MAX_FEEDBACK_ROUTE_ATTEMPTS.
TypeOK ==
    /\ fact \in [Command -> Kind \cup {None}]
    /\ route \in [Command -> RouteRow]
    /\ audit \in [Command -> Nat]
    /\ signal \in [Command -> {"absent", "active", "resolved"}]
    /\ assignment \in [Command -> Assignment]
    /\ history \in [Command -> Seq(Event)]
    /\ drain \in [Drain -> DrainState]

\* Whatever drains overlap, die or lose an answer, a route has an outcome
\* signal exactly when it is completed, "the one nonsensitive audit row"
\* exactly when it is terminal, and is failed only after its last attempt.
OneOutcome ==
    \A c \in Command :
        /\ signal[c] # "absent" <=> route[c].state = "completed"
        /\ audit[c] = IF route[c].state \in TerminalRoute THEN 1 ELSE 0
        /\ route[c].state = "failed" => route[c].attempts = MaxAttempts

\* A drain that is alive and holds an unexpired lease is the only one that
\* changes its route: no sweep, and no drain that lost the route earlier,
\* requeues, closes or takes it.
LiveLeaseHonoured ==
    [][\A d \in Drain, c \in Command :
          /\ c \in drain[d].batch
          /\ route[c].token = d /\ route[c].lease = "live"
          /\ route'[c] # route[c]
          => \/ drain'[d] # drain[d]
             \/ route'[c] = [route[c] EXCEPT !.lease = "expired"]]_vars

\* A closed route keeps its verdict: a late drain, a failure recorded after a
\* commit whose answer was lost, and the recovery sweep all leave it alone.
TerminalRouteIsFinal ==
    [][\A c \in Command :
          route[c].state \in TerminalRoute => route'[c] = route[c]]_vars

\* The history of an assignment explains it: events are numbered without gaps,
\* each starts where the one before ended and was decided on that version, no
\* command id occurs twice, and the last event is the current assignment.
HistoryExplainsAssignment ==
    /\ \A c \in Command :
          LET h == history[c] IN
          /\ Len(h) = assignment[c].version
          /\ \A i \in 1..Len(h) :
                /\ h[i].sequence = i
                /\ i > 1 => h[i].expected = i - 1 /\ h[i].from = h[i-1].to
          /\ h # << >> => /\ assignment[c].state = h[Len(h)].to
                          /\ assignment[c].owner = h[Len(h)].owner
    /\ \A c1, c2 \in Command :
          \A i \in DOMAIN history[c1], j \in DOMAIN history[c2] :
             /\ history[c1][i].command = history[c2][j].command
             /\ history[c1][i].command # None
             => c1 = c2 /\ i = j

\* Every route is eventually completed, blocked or failed, however often
\* drains crash or executions raise.
RoutesSettle ==
    \A c \in Command :
        route[c].state = "queued" ~> route[c].state \in TerminalRoute

\* Drains, leases and retries together do what feedback routing promises: every
\* routed fact gets at most one outcome, and review work appears with it.
Outcome(r) ==
    IF r.state = "absent" THEN "none"
    ELSE IF r.state \in TerminalRoute THEN r.state ELSE "pending"

Contract == INSTANCE FeedbackContract WITH
    Command <- Command, Kind <- Kind, Routed <- Routed, Owner <- Owner,
    None <- None, fact <- fact, signal <- signal, work <- assignment,
    outcome <- [c \in Command |-> Outcome(route[c])]

FeedbackContractHolds == Contract!Spec
=============================================================================
