------------------------- MODULE FeedbackRoutesProofs -------------------------
(***************************************************************************)
(* Theorems about FeedbackRoutes, for any commands, drains, limits and     *)
(* budgets and under unbounded crashes and exceptions.                     *)
(*                                                                         *)
(* RouteInv is the inductive invariant: beside OneOutcome it says that     *)
(* only a running route has a token or a lease, that a route is created    *)
(* with its fact, and that a drain works on a claim of its own batch.      *)
(***************************************************************************)
EXTENDS FeedbackRoutes, TLAPS

RowShape ==
    \A c \in Command :
        /\ route[c].token # None => route[c].state = "running"
        /\ route[c].lease # "none" => route[c].state = "running"
        /\ fact[c] = None => route[c].state = "absent"

DrainShape ==
    \A d \in Drain :
        /\ drain[d].pc = "idle" => drain[d].batch = {}
        /\ drain[d].pc \in {"executing", "failing", "recording"} =>
              drain[d].at \in drain[d].batch

RouteInv == TypeOK /\ OneOutcome /\ RowShape /\ DrainShape

LEMMA InitInv == Init => RouteInv
<1> SUFFICES ASSUME Init PROVE RouteInv
  OBVIOUS
<1>1. NoRoute \in RouteRow
  BY FeedbackAssumption DEF NoRoute, RouteRow, RouteState, TerminalRoute, Lease
<1>2. NoAssignment \in Assignment
  BY FeedbackAssumption DEF NoAssignment, Assignment, OwnerState
<1>3. Idle \in DrainState
  BY DEF Idle, DrainState
<1>4. << >> \in Seq(Event)
  OBVIOUS
<1>5. TypeOK
  BY <1>1, <1>2, <1>3, <1>4 DEF Init, TypeOK
<1>6. OneOutcome /\ RowShape
  BY DEF Init, OneOutcome, RowShape, NoRoute, TerminalRoute
<1>7. DrainShape
  BY DEF Init, DrainShape, Idle
<1> QED BY <1>5, <1>6, <1>7 DEF RouteInv

-----------------------------------------------------------------------------
(* The rows an action writes are well formed, and so is a drain's next state *)

LEMMA ClosedRow ==
    ASSUME NEW r \in RouteRow, NEW s \in TerminalRoute
    PROVE  /\ Closed(r, s) \in RouteRow
           /\ Closed(r, s).state = s /\ Closed(r, s).attempts = r.attempts
           /\ Closed(r, s).token = None /\ Closed(r, s).lease = "none"
BY FeedbackAssumption DEF Closed, RouteRow, RouteState, TerminalRoute, Lease

LEMMA RequeuedRow ==
    ASSUME NEW r \in RouteRow
    PROVE  /\ Requeued(r) \in RouteRow /\ Requeued(r).state = "queued"
           /\ Requeued(r).token = None /\ Requeued(r).lease = "none"
BY FeedbackAssumption DEF Requeued, RouteRow, RouteState, TerminalRoute, Lease

LEMMA ClaimedRow ==
    ASSUME NEW r \in RouteRow, NEW d \in Drain, ~Exhausted(r)
    PROVE  Claimed(r, d) \in RouteRow /\ Claimed(r, d).state = "running"
<1>1. r.attempts + 1 \in 0..MaxAttempts
  BY FeedbackAssumption DEF Exhausted, RouteRow
<1> QED BY <1>1 DEF Claimed, RouteRow, RouteState, TerminalRoute, Lease

LEMMA SpentRow ==
    ASSUME NEW r \in RouteRow, Exhausted(r)
    PROVE  r.attempts = MaxAttempts
BY FeedbackAssumption DEF Exhausted, RouteRow

LEMMA NextClaimShape ==
    ASSUME RouteInv, NEW d \in Drain, NextClaim(d)
    PROVE  drain' \in [Drain -> DrainState] /\ DrainShape'
<1> DEFINE rest == drain[d].batch \ {drain[d].at}
           new  == IF rest = {} THEN Idle
                   ELSE [Idle EXCEPT !.pc = "draining", !.batch = rest]
<1>1. drain[d].batch \subseteq Command
  BY DEF RouteInv, TypeOK, DrainState
<1>2. /\ new \in DrainState
      /\ new.pc \in {"idle", "draining"}
      /\ new.pc = "idle" => new.batch = {}
  BY <1>1 DEF Idle, DrainState
<1>3. drain' = [drain EXCEPT ![d] = new]
  BY DEF NextClaim
<1> HIDE DEF new
<1>4. drain' \in [Drain -> DrainState]
  BY <1>2, <1>3 DEF RouteInv, TypeOK
<1>5. DrainShape'
  BY <1>2, <1>3 DEF RouteInv, TypeOK, DrainShape
<1> QED BY <1>4, <1>5

\* A drain that stays with the claim in hand keeps its shape.
LEMMA StayShape ==
    ASSUME RouteInv, NEW d \in Drain, NEW b \in BOOLEAN,
           NEW p \in {"executing", "failing", "recording"},
           NEW c \in drain[d].batch,
           drain' = [drain EXCEPT ![d] = [drain[d] EXCEPT !.pc = p, !.at = c,
                                                          !.inTime = b]]
    PROVE  drain' \in [Drain -> DrainState] /\ DrainShape'
<1> DEFINE new == [drain[d] EXCEPT !.pc = p, !.at = c, !.inTime = b]
<1>1. drain[d] \in DrainState /\ drain[d].batch \subseteq Command
  BY DEF RouteInv, TypeOK, DrainState
<1>2. new \in DrainState /\ new.pc = p /\ new.at = c /\ new.batch = drain[d].batch
  BY <1>1 DEF DrainState
<1>3. drain' = [drain EXCEPT ![d] = new]
  OBVIOUS
<1> HIDE DEF new
<1>4. drain' \in [Drain -> DrainState]
  BY <1>2, <1>3 DEF RouteInv, TypeOK
<1>5. DrainShape'
  BY <1>2, <1>3 DEF RouteInv, TypeOK, DrainShape
<1> QED BY <1>4, <1>5

LEMMA HeldIsRunning ==
    ASSUME RouteInv, NEW d \in Drain, Holds(d),
           drain[d].pc \in {"executing", "recording"}
    PROVE  /\ drain[d].at \in Command /\ drain[d].at \in drain[d].batch
           /\ route[drain[d].at].state = "running"
           /\ route[drain[d].at].token = d
           /\ route[drain[d].at] \in RouteRow
           /\ signal[drain[d].at] = "absent" /\ audit[drain[d].at] = 0
<1>1. drain[d].at \in drain[d].batch
  BY DEF RouteInv, DrainShape
<1>2. drain[d].at \in Command
  BY <1>1 DEF RouteInv, TypeOK, DrainState
<1>3. route[drain[d].at].state = "running" /\ route[drain[d].at].token = d
  BY DEF Holds
<1> QED BY <1>1, <1>2, <1>3 DEF RouteInv, TypeOK, OneOutcome, TerminalRoute

-----------------------------------------------------------------------------
(* One step per action *)

LEMMA RecordFeedbackInv ==
    ASSUME RouteInv, NEW c \in Command, NEW k \in Kind, RecordFeedback(c, k)
    PROVE  RouteInv'
<1>1. /\ NewRoute \in RouteRow
      /\ NewRoute.state = "queued" /\ NewRoute.token = None
      /\ NewRoute.lease = "none"
  <2>1. 0 \in 0..MaxAttempts
    BY FeedbackAssumption
  <2> QED BY <2>1 DEF NewRoute, RouteRow, RouteState, TerminalRoute, Lease
<1>2. route' = [route EXCEPT ![c] = NewRoute] \/ route' = route
  BY DEF RecordFeedback
<1>3. /\ fact' = [fact EXCEPT ![c] = k] /\ fact[c] = None
      /\ UNCHANGED <<audit, signal, assignment, history, drain>>
  BY DEF RecordFeedback
<1>4. route[c].state = "absent" /\ k # None
  BY <1>3, FeedbackAssumption DEF RouteInv, RowShape
<1>5. TypeOK'
  BY <1>1, <1>2, <1>3 DEF RouteInv, TypeOK
<1>6. OneOutcome'
  BY <1>1, <1>2, <1>3, <1>4 DEF RouteInv, TypeOK, OneOutcome, TerminalRoute
<1>7. RowShape'
  BY <1>1, <1>2, <1>3, <1>4 DEF RouteInv, TypeOK, RowShape
<1>8. DrainShape'
  BY <1>3 DEF RouteInv, DrainShape
<1> QED BY <1>5, <1>6, <1>7, <1>8 DEF RouteInv

LEMMA ClaimRoutesInv ==
    ASSUME RouteInv, NEW d \in Drain, ClaimRoutes(d)
    PROVE  RouteInv'
<1>1. PICK S \in SUBSET {c \in Command : Due(c)} :
        LET spent == {c \in S : Exhausted(route[c])} IN
        /\ route' = [c \in Command |->
                       IF c \in spent THEN Closed(route[c], "failed")
                       ELSE IF c \in S THEN Claimed(route[c], d)
                       ELSE route[c]]
        /\ audit' = [c \in Command |->
                       IF c \in spent THEN audit[c] + 1 ELSE audit[c]]
        /\ drain' = [drain EXCEPT ![d] =
                       IF S = spent THEN Idle
                       ELSE [Idle EXCEPT !.pc = "draining", !.batch = S \ spent]]
        /\ UNCHANGED <<fact, signal, assignment, history>>
  BY DEF ClaimRoutes
<1> DEFINE spent == {c \in S : Exhausted(route[c])}
           row(c) == IF c \in spent THEN Closed(route[c], "failed")
                     ELSE IF c \in S THEN Claimed(route[c], d)
                     ELSE route[c]
           new == IF S = spent THEN Idle
                  ELSE [Idle EXCEPT !.pc = "draining", !.batch = S \ spent]
<1>2. ASSUME NEW c \in Command
      PROVE  /\ row(c) \in RouteRow
             /\ c \in spent => /\ row(c).state = "failed"
                               /\ row(c).attempts = MaxAttempts
                               /\ row(c).token = None /\ row(c).lease = "none"
             /\ c \in S \ spent => row(c).state = "running"
             /\ c \notin S => row(c) = route[c]
             /\ c \in S => route[c].state \in {"queued", "running"}
  <2>1. route[c] \in RouteRow
    BY DEF RouteInv, TypeOK
  <2>2. CASE c \in spent
    <3>1. Exhausted(route[c])
      BY <2>2
    <3> QED BY <2>1, <2>2, <3>1, ClosedRow, SpentRow DEF TerminalRoute, Due
  <2>3. CASE c \in S \ spent
    BY <2>1, <2>3, ClaimedRow DEF Due
  <2>4. CASE c \notin S
    BY <2>1, <2>4
  <2> QED BY <2>2, <2>3, <2>4
<1>3. /\ new \in DrainState
      /\ new.pc \in {"idle", "draining"}
      /\ new.pc = "idle" => new.batch = {}
  BY DEF Idle, DrainState
<1>4. /\ route' = [c \in Command |-> row(c)]
      /\ audit' = [c \in Command |->
                     IF c \in spent THEN audit[c] + 1 ELSE audit[c]]
      /\ drain' = [drain EXCEPT ![d] = new]
      /\ UNCHANGED <<fact, signal, assignment, history>>
  BY <1>1
<1>5. spent \subseteq S /\ S \subseteq Command
  OBVIOUS
<1> HIDE DEF new, row, spent
<1>6. TypeOK'
  <2>1. route' \in [Command -> RouteRow]
    BY <1>2, <1>4
  <2>2. audit' \in [Command -> Nat]
    BY <1>4 DEF RouteInv, TypeOK
  <2>3. drain' \in [Drain -> DrainState]
    BY <1>3, <1>4 DEF RouteInv, TypeOK
  <2> QED BY <1>4, <2>1, <2>2, <2>3 DEF RouteInv, TypeOK
<1>7. OneOutcome'
  <2> SUFFICES ASSUME NEW c \in Command
               PROVE  /\ signal[c] # "absent" <=> row(c).state = "completed"
                      /\ audit'[c] = IF row(c).state \in TerminalRoute THEN 1 ELSE 0
                      /\ row(c).state = "failed" => row(c).attempts = MaxAttempts
    BY <1>4 DEF OneOutcome
  <2>1. /\ signal[c] # "absent" <=> route[c].state = "completed"
        /\ audit[c] = IF route[c].state \in TerminalRoute THEN 1 ELSE 0
        /\ route[c].state = "failed" => route[c].attempts = MaxAttempts
    BY DEF RouteInv, OneOutcome
  <2>2. audit'[c] = IF c \in spent THEN audit[c] + 1 ELSE audit[c]
    BY <1>4
  <2> QED BY <1>2, <1>5, <2>1, <2>2 DEF TerminalRoute
<1>8. RowShape'
  <2> SUFFICES ASSUME NEW c \in Command
               PROVE  /\ row(c).token # None => row(c).state = "running"
                      /\ row(c).lease # "none" => row(c).state = "running"
                      /\ fact[c] = None => row(c).state = "absent"
    BY <1>4 DEF RowShape
  <2>1. /\ route[c].token # None => route[c].state = "running"
        /\ route[c].lease # "none" => route[c].state = "running"
        /\ fact[c] = None => route[c].state = "absent"
    BY DEF RouteInv, RowShape
  <2> QED BY <1>2, <1>5, <2>1
<1>9. DrainShape'
  BY <1>3, <1>4 DEF RouteInv, TypeOK, DrainShape
<1> QED BY <1>6, <1>7, <1>8, <1>9 DEF RouteInv

\* A transaction of d that closes the route in hand.
LEMMA CloseInv ==
    ASSUME RouteInv, NEW d \in Drain, NEW s \in {"blocked", "failed"}, Holds(d),
           drain[d].pc \in {"executing", "recording"},
           s = "failed" => Exhausted(route[drain[d].at]),
           route' = [route EXCEPT ![drain[d].at] = Closed(@, s)],
           audit' = [audit EXCEPT ![drain[d].at] = @ + 1],
           UNCHANGED <<fact, signal, assignment, history>>,
           drain' \in [Drain -> DrainState], DrainShape'
    PROVE  RouteInv'
<1> DEFINE c == drain[d].at
           new == Closed(route[c], s)
<1>1. /\ c \in Command /\ route[c].state = "running" /\ route[c] \in RouteRow
      /\ signal[c] = "absent" /\ audit[c] = 0
  BY HeldIsRunning
<1>2. s \in TerminalRoute
  BY DEF TerminalRoute
<1>3. /\ new \in RouteRow /\ new.state = s /\ new.attempts = route[c].attempts
      /\ new.token = None /\ new.lease = "none"
  BY <1>1, <1>2, ClosedRow
<1>4. s = "failed" => new.attempts = MaxAttempts
  BY <1>1, <1>3, SpentRow
<1>5. route' = [route EXCEPT ![c] = new] /\ audit' = [audit EXCEPT ![c] = 1]
  BY <1>1 DEF RouteInv, TypeOK
<1>6. fact[c] # None
  BY <1>1 DEF RouteInv, RowShape
<1> HIDE DEF new, c
<1>7. TypeOK'
  BY <1>1, <1>3, <1>5 DEF RouteInv, TypeOK
<1>8. OneOutcome'
  BY <1>1, <1>2, <1>3, <1>4, <1>5 DEF RouteInv, TypeOK, OneOutcome, TerminalRoute
<1>9. RowShape'
  BY <1>1, <1>3, <1>5, <1>6 DEF RouteInv, TypeOK, RowShape
<1> QED BY <1>7, <1>8, <1>9 DEF RouteInv

\* An answered commit moves on, an unanswered one fails over.
LEMMA CommitShape ==
    ASSUME RouteInv, NEW d \in Drain, drain[d].pc = "executing",
           CommitAnswered(d)
    PROVE  drain' \in [Drain -> DrainState] /\ DrainShape'
<1>1. CASE NextClaim(d)
  BY <1>1, NextClaimShape
<1>2. CASE drain' = [drain EXCEPT ![d].pc = "failing"]
  <2>1. drain[d] \in DrainState /\ drain[d].at \in drain[d].batch
    BY DEF RouteInv, TypeOK, DrainShape
  <2>2. drain' = [drain EXCEPT ![d] = [drain[d] EXCEPT !.pc = "failing",
                     !.at = drain[d].at, !.inTime = drain[d].inTime]]
    BY <1>2, <2>1 DEF DrainState
  <2>3. drain[d].inTime \in BOOLEAN
    BY <2>1 DEF DrainState
  <2> QED BY <2>1, <2>2, <2>3, StayShape
<1> QED BY <1>1, <1>2 DEF CommitAnswered

LEMMA ExecuteBlockInv ==
    ASSUME RouteInv, NEW d \in Drain, ExecuteBlock(d)
    PROVE  RouteInv'
<1>1. drain' \in [Drain -> DrainState] /\ DrainShape'
  BY CommitShape DEF ExecuteBlock
<1> QED BY <1>1, CloseInv DEF ExecuteBlock

LEMMA ExecuteCompleteInv ==
    ASSUME RouteInv, NEW d \in Drain, ExecuteComplete(d)
    PROVE  RouteInv'
<1> DEFINE c == drain[d].at
           new == Closed(route[c], "completed")
           base == [NoAssignment EXCEPT !.version = 1]
           first == [sequence |-> 1, command |-> None, expected |-> 0,
                     from |-> None, to |-> "unassigned", owner |-> None]
<1>1. drain' \in [Drain -> DrainState] /\ DrainShape'
  BY CommitShape DEF ExecuteComplete
<1>2. /\ c \in Command /\ route[c].state = "running" /\ route[c] \in RouteRow
      /\ signal[c] = "absent" /\ audit[c] = 0
  BY HeldIsRunning DEF ExecuteComplete
<1>3. /\ new \in RouteRow /\ new.state = "completed"
      /\ new.token = None /\ new.lease = "none"
  BY <1>2, ClosedRow DEF TerminalRoute
<1>4. /\ route' = [route EXCEPT ![c] = new]
      /\ audit' = [audit EXCEPT ![c] = 1]
      /\ fact' = fact
  BY <1>2 DEF ExecuteComplete, RouteInv, TypeOK
<1>5. /\ signal' = [signal EXCEPT ![c] = "active"]
      /\ assignment' = [assignment EXCEPT ![c] = base]
      /\ history' = [history EXCEPT ![c] = <<first>>]
  BY <1>2 DEF ExecuteComplete, Materialize, RouteInv, TypeOK
<1>6. base \in Assignment
  BY FeedbackAssumption DEF NoAssignment, Assignment, OwnerState
<1>7. <<first>> \in Seq(Event)
  <2>1. first \in Event
    BY FeedbackAssumption DEF Event, OwnerState
  <2> QED BY <2>1
<1>8. fact[c] # None
  BY <1>2 DEF RouteInv, RowShape
<1> HIDE DEF new, base, first, c
<1>9. TypeOK'
  BY <1>1, <1>2, <1>3, <1>4, <1>5, <1>6, <1>7 DEF RouteInv, TypeOK
<1>10. OneOutcome'
  BY <1>2, <1>3, <1>4, <1>5 DEF RouteInv, TypeOK, OneOutcome, TerminalRoute
<1>11. RowShape'
  BY <1>2, <1>3, <1>4, <1>8 DEF RouteInv, TypeOK, RowShape
<1> QED BY <1>1, <1>9, <1>10, <1>11 DEF RouteInv

LEMMA RecordFailureInv ==
    ASSUME RouteInv, NEW d \in Drain, RecordFailure(d)
    PROVE  RouteInv'
<1> DEFINE c == drain[d].at
<1>1. drain' \in [Drain -> DrainState] /\ DrainShape'
  BY NextClaimShape DEF RecordFailure
<1>2. /\ c \in Command /\ route[c].state = "running" /\ route[c] \in RouteRow
      /\ signal[c] = "absent" /\ audit[c] = 0
  BY HeldIsRunning DEF RecordFailure
<1>3. CASE Exhausted(route[c])
  <2>1. /\ route' = [route EXCEPT ![c] = Closed(@, "failed")]
        /\ audit' = [audit EXCEPT ![c] = @ + 1]
    BY <1>2, <1>3 DEF RecordFailure, RouteInv, TypeOK
  <2> QED BY <1>1, <1>3, <2>1, CloseInv DEF RecordFailure
<1>4. CASE ~Exhausted(route[c])
  <2> DEFINE new == Requeued(route[c])
  <2>1. /\ route' = [route EXCEPT ![c] = new]
        /\ audit' = audit
    BY <1>2, <1>4 DEF RecordFailure, RouteInv, TypeOK
  <2>2. /\ new \in RouteRow /\ new.state = "queued"
        /\ new.token = None /\ new.lease = "none"
    BY <1>2, RequeuedRow
  <2>3. UNCHANGED <<fact, signal, assignment, history>>
    BY DEF RecordFailure
  <2>4. fact[c] # None
    BY <1>2 DEF RouteInv, RowShape
  <2> HIDE DEF new, c
  <2>5. TypeOK'
    BY <1>1, <1>2, <2>1, <2>2, <2>3 DEF RouteInv, TypeOK
  <2>6. OneOutcome'
    BY <1>2, <2>1, <2>2, <2>3 DEF RouteInv, TypeOK, OneOutcome, TerminalRoute
  <2>7. RowShape'
    BY <1>2, <2>1, <2>2, <2>3, <2>4 DEF RouteInv, TypeOK, RowShape
  <2> QED BY <1>1, <2>5, <2>6, <2>7 DEF RouteInv
<1> QED BY <1>3, <1>4

\* A step of a drain that writes no row.
LEMMA DrainOnly ==
    ASSUME RouteInv, drain' \in [Drain -> DrainState], DrainShape',
           UNCHANGED <<fact, route, audit, signal, assignment, history>>
    PROVE  RouteInv'
BY DEF RouteInv, TypeOK, OneOutcome, RowShape

LEMMA QuietStepsInv ==
    ASSUME RouteInv, NEW d \in Drain,
           \/ \E c \in Command : StartExecution(d, c)
           \/ ExecuteNothing(d) \/ ExecuteRaises(d) \/ StartRecording(d)
           \/ RecordNothing(d) \/ DrainCrash(d)
    PROVE  RouteInv'
<1>0. drain[d] \in DrainState
  BY DEF RouteInv, TypeOK
<1>1. ASSUME NEW c \in Command, StartExecution(d, c) PROVE RouteInv'
  <2> DEFINE b == route[c].lease = "live"
  <2>1. drain' = [drain EXCEPT ![d] = [drain[d] EXCEPT !.pc = "executing",
                                         !.at = c, !.inTime = b]]
    BY <1>1 DEF StartExecution
  <2>2. b \in BOOLEAN /\ c \in drain[d].batch
    BY <1>1 DEF StartExecution
  <2> HIDE DEF b
  <2>3. drain' \in [Drain -> DrainState] /\ DrainShape'
    BY <2>1, <2>2, StayShape
  <2> QED BY <1>1, <2>3, DrainOnly DEF StartExecution
<1>2. CASE ExecuteNothing(d) \/ RecordNothing(d)
  BY <1>2, NextClaimShape, DrainOnly DEF ExecuteNothing, RecordNothing
<1>3. CASE ExecuteRaises(d)
  <2>1. CommitAnswered(d) /\ drain[d].pc = "executing"
    BY <1>3 DEF ExecuteRaises, CommitAnswered
  <2> QED BY <1>3, <2>1, CommitShape, DrainOnly DEF ExecuteRaises
<1>4. CASE StartRecording(d)
  <2> DEFINE b == route[drain[d].at].lease = "live"
  <2>1. drain[d].at \in drain[d].batch
    BY <1>4 DEF StartRecording, RouteInv, DrainShape
  <2>2. drain' = [drain EXCEPT ![d] = [drain[d] EXCEPT !.pc = "recording",
                                         !.at = drain[d].at, !.inTime = b]]
    BY <1>0, <1>4 DEF StartRecording, DrainState
  <2>3. b \in BOOLEAN
    OBVIOUS
  <2> HIDE DEF b
  <2>4. drain' \in [Drain -> DrainState] /\ DrainShape'
    BY <2>1, <2>2, <2>3, StayShape
  <2> QED BY <1>4, <2>4, DrainOnly DEF StartRecording
<1>5. CASE DrainCrash(d)
  <2>1. drain' = [drain EXCEPT ![d] = Idle]
    BY <1>5 DEF DrainCrash
  <2>2. Idle \in DrainState /\ Idle.pc = "idle" /\ Idle.batch = {}
    BY DEF Idle, DrainState
  <2>3. drain' \in [Drain -> DrainState] /\ DrainShape'
    BY <2>1, <2>2 DEF RouteInv, TypeOK, DrainShape
  <2> QED BY <1>5, <2>3, DrainOnly DEF DrainCrash
<1> QED BY <1>1, <1>2, <1>3, <1>4, <1>5

LEMMA TimeInv ==
    ASSUME RouteInv, NEW c \in Command, LeaseExpires(c) \/ RetryDelayEnds(c)
    PROVE  RouteInv'
<1> DEFINE late == [route[c] EXCEPT !.lease = "expired"]
           ready == [route[c] EXCEPT !.due = TRUE]
<1>0. route[c] \in RouteRow
  BY DEF RouteInv, TypeOK
<1>1. CASE LeaseExpires(c)
  <2>1. /\ late \in RouteRow /\ late.state = route[c].state
        /\ late.token = route[c].token /\ late.attempts = route[c].attempts
    BY <1>0 DEF RouteRow, Lease
  <2>2. /\ route' = [route EXCEPT ![c] = late] /\ route[c].state = "running"
        /\ UNCHANGED <<fact, audit, signal, assignment, history, drain>>
    BY <1>1 DEF LeaseExpires, RouteInv, RowShape
  <2> HIDE DEF late
  <2>3. TypeOK'
    BY <2>1, <2>2 DEF RouteInv, TypeOK
  <2>4. OneOutcome' /\ RowShape' /\ DrainShape'
    BY <2>1, <2>2 DEF RouteInv, TypeOK, OneOutcome, RowShape, DrainShape
  <2> QED BY <2>3, <2>4 DEF RouteInv
<1>2. CASE RetryDelayEnds(c)
  <2>1. /\ ready \in RouteRow /\ ready.state = route[c].state
        /\ ready.token = route[c].token /\ ready.attempts = route[c].attempts
        /\ ready.lease = route[c].lease
    BY <1>0 DEF RouteRow
  <2>2. /\ route' = [route EXCEPT ![c] = ready]
        /\ UNCHANGED <<fact, audit, signal, assignment, history, drain>>
    BY <1>2 DEF RetryDelayEnds
  <2> HIDE DEF ready
  <2>3. TypeOK'
    BY <2>1, <2>2 DEF RouteInv, TypeOK
  <2>4. OneOutcome' /\ RowShape' /\ DrainShape'
    BY <2>1, <2>2 DEF RouteInv, TypeOK, OneOutcome, RowShape, DrainShape
  <2> QED BY <2>3, <2>4 DEF RouteInv
<1> QED BY <1>1, <1>2

LEMMA ResolveSignalInv ==
    ASSUME RouteInv, NEW c \in Command, ResolveSignal(c)
    PROVE  RouteInv'
<1>1. TypeOK'
  BY DEF RouteInv, TypeOK, ResolveSignal
<1>2. OneOutcome'
  BY DEF RouteInv, TypeOK, OneOutcome, ResolveSignal
<1>3. RowShape' /\ DrainShape'
  BY DEF RouteInv, RowShape, DrainShape, ResolveSignal
<1> QED BY <1>1, <1>2, <1>3 DEF RouteInv

\* What a command writes: the next version and its event.
LEMMA ApplyWrites ==
    ASSUME RouteInv, NEW k \in AssignCommand, NEW c \in Command,
           NEW to \in OwnerState, NEW o \in Owner \cup {None},
           NEW v \in 1..MaxVersion, ApplyAssignment(k, c, to, o, v)
    PROVE  LET e == [sequence |-> v + 1, command |-> k, expected |-> v,
                     from |-> assignment[c].state, to |-> to, owner |-> o]
               a == [state |-> to, owner |-> o, version |-> v + 1]
           IN  /\ e \in Event /\ a \in Assignment
               /\ assignment' = [assignment EXCEPT ![c] = a]
               /\ history' = [history EXCEPT ![c] = Append(history[c], e)]
               /\ assignment[c].version = v
<1>1. assignment[c] \in Assignment
  BY DEF RouteInv, TypeOK
<1>2. assignment[c].version = v /\ v < MaxVersion
  BY DEF ApplyAssignment
<1>3. v + 1 \in 1..MaxVersion /\ v + 1 \in 0..MaxVersion /\ v \in 0..MaxVersion
  BY <1>2, FeedbackAssumption
<1>4. [sequence |-> v + 1, command |-> k, expected |-> v,
       from |-> assignment[c].state, to |-> to, owner |-> o] \in Event
  BY <1>1, <1>3 DEF Event, Assignment
<1>5. [state |-> to, owner |-> o, version |-> v + 1] \in Assignment
  BY <1>3 DEF Assignment
<1>6. assignment' = [assignment EXCEPT ![c] = [state |-> to, owner |-> o,
                                               version |-> v + 1]]
  BY <1>2 DEF ApplyAssignment
<1>7. history' = [history EXCEPT ![c] = Append(history[c],
        [sequence |-> v + 1, command |-> k, expected |-> v,
         from |-> assignment[c].state, to |-> to, owner |-> o])]
  BY <1>2 DEF ApplyAssignment
<1> QED BY <1>2, <1>4, <1>5, <1>6, <1>7

LEMMA ApplyAssignmentInv ==
    ASSUME RouteInv, NEW k \in AssignCommand, NEW c \in Command,
           NEW to \in OwnerState, NEW o \in Owner \cup {None},
           NEW v \in 1..MaxVersion, ApplyAssignment(k, c, to, o, v)
    PROVE  RouteInv'
<1> DEFINE e == [sequence |-> v + 1, command |-> k, expected |-> v,
                 from |-> assignment[c].state, to |-> to, owner |-> o]
           a == [state |-> to, owner |-> o, version |-> v + 1]
<1>1. /\ e \in Event /\ a \in Assignment
      /\ assignment' = [assignment EXCEPT ![c] = a]
      /\ history' = [history EXCEPT ![c] = Append(history[c], e)]
  BY ApplyWrites
<1>2. UNCHANGED <<fact, route, audit, signal, drain>>
  BY DEF ApplyAssignment
<1> HIDE DEF e, a
<1>3. Append(history[c], e) \in Seq(Event)
  BY <1>1 DEF RouteInv, TypeOK
<1>4. TypeOK'
  BY <1>1, <1>2, <1>3 DEF RouteInv, TypeOK
<1>5. OneOutcome' /\ RowShape' /\ DrainShape'
  BY <1>2 DEF RouteInv, OneOutcome, RowShape, DrainShape
<1> QED BY <1>4, <1>5 DEF RouteInv

LEMMA NextInv == RouteInv /\ [Next]_vars => RouteInv'
<1> SUFFICES ASSUME RouteInv, [Next]_vars PROVE RouteInv'
  OBVIOUS
<1>1. ASSUME NEW c \in Command, NEW k \in Kind, RecordFeedback(c, k)
      PROVE  RouteInv'
  BY <1>1, RecordFeedbackInv
<1>2. ASSUME NEW d \in Drain, ClaimRoutes(d) \/ DrainStep(d) \/ DrainCrash(d)
      PROVE  RouteInv'
  BY <1>2, ClaimRoutesInv, ExecuteCompleteInv, ExecuteBlockInv,
     RecordFailureInv, QuietStepsInv DEF DrainStep
<1>3. ASSUME NEW c \in Command,
             LeaseExpires(c) \/ RetryDelayEnds(c) \/ ResolveSignal(c)
      PROVE  RouteInv'
  BY <1>3, TimeInv, ResolveSignalInv
<1>4. ASSUME NEW k \in AssignCommand, NEW c \in Command, NEW to \in OwnerState,
             NEW o \in Owner \cup {None}, NEW v \in 1..MaxVersion,
             ApplyAssignment(k, c, to, o, v)
      PROVE  RouteInv'
  BY <1>4, ApplyAssignmentInv
<1>5. CASE UNCHANGED vars
  BY <1>5 DEF vars, RouteInv, TypeOK, OneOutcome, RowShape, DrainShape
<1> QED BY <1>1, <1>2, <1>3, <1>4, <1>5 DEF Next

-----------------------------------------------------------------------------
(* Theorems *)

\* The inductive invariant holds in every reachable state.
THEOREM RouteInvariant == Spec => []RouteInv
BY InitInv, NextInv, PTL DEF Spec

\* Every variable keeps its type, and no route exceeds its attempts, however
\* many drains overlap.
THEOREM FeedbackTypes == Spec => []TypeOK
<1>1. RouteInv => TypeOK
  BY DEF RouteInv
<1> QED BY <1>1, RouteInvariant, PTL

\* execute_feedback_route and the recovery sweep give a route exactly one
\* outcome: one signal if completed, one audit row if terminal.
THEOREM OutcomeOnce == Spec => []OneOutcome
<1>1. RouteInv => OneOutcome
  BY DEF RouteInv
<1> QED BY <1>1, RouteInvariant, PTL

\* No step of claim_feedback_routes, execute_feedback_route or
\* record_feedback_route_failure changes a closed route.
THEOREM ClosedRoutesFinal == Spec => TerminalRouteIsFinal
<1> DEFINE A == \A c \in Command :
                  route[c].state \in TerminalRoute => route'[c] = route[c]
<1>1. RouteInv /\ [Next]_vars => A
  <2> SUFFICES ASSUME RouteInv, [Next]_vars, NEW c \in Command,
                      route[c].state \in TerminalRoute
               PROVE  route'[c] = route[c]
    OBVIOUS
  <2>0. /\ route \in [Command -> RouteRow]
        /\ route[c].state \notin {"absent", "queued", "running"}
        /\ route[c].lease = "none" /\ fact[c] # None
    BY DEF RouteInv, TypeOK, RowShape, TerminalRoute
  <2>1. ASSUME NEW b \in Command, NEW k \in Kind, RecordFeedback(b, k)
        PROVE  route'[c] = route[c]
    BY <2>0, <2>1 DEF RecordFeedback
  <2>2. ASSUME NEW d \in Drain, ClaimRoutes(d)
        PROVE  route'[c] = route[c]
    BY <2>0, <2>2 DEF ClaimRoutes, Due
  <2>3. ASSUME NEW d \in Drain, ExecuteComplete(d) \/ ExecuteBlock(d) \/ RecordFailure(d)
        PROVE  route'[c] = route[c]
    <3>1. route[drain[d].at].state = "running"
      BY <2>3 DEF ExecuteComplete, ExecuteBlock, RecordFailure, Holds
    <3>2. drain[d].at # c
      BY <2>0, <3>1
    <3> QED BY <2>0, <2>3, <3>2 DEF ExecuteComplete, ExecuteBlock, RecordFailure
  <2>4. ASSUME NEW b \in Command, LeaseExpires(b) \/ RetryDelayEnds(b)
        PROVE  route'[c] = route[c]
    BY <2>0, <2>4 DEF LeaseExpires, RetryDelayEnds
  <2>5. CASE UNCHANGED route
    BY <2>5
  <2> QED BY <2>1, <2>2, <2>3, <2>4, <2>5
          DEF Next, vars, DrainStep, DrainCrash, StartExecution, ExecuteNothing,
              ExecuteRaises, StartRecording, RecordNothing, ResolveSignal,
              ApplyAssignment
<1>2. RouteInv /\ [Next]_vars => [A]_vars
  BY <1>1
<1> QED BY <1>2, RouteInvariant, PTL DEF Spec, TerminalRouteIsFinal

\* The route of a drain that is alive and in time is changed by nobody else:
\* the random token and the lease fence every other transaction.
THEOREM LeasesHonoured == Spec => LiveLeaseHonoured
<1> DEFINE A == \A d \in Drain, c \in Command :
                  /\ c \in drain[d].batch
                  /\ route[c].token = d /\ route[c].lease = "live"
                  /\ route'[c] # route[c]
                  => \/ drain'[d] # drain[d]
                     \/ route'[c] = [route[c] EXCEPT !.lease = "expired"]
<1>1. RouteInv /\ [Next]_vars => A
  <2> SUFFICES ASSUME RouteInv, [Next]_vars, NEW d \in Drain, NEW c \in Command,
                      c \in drain[d].batch, route[c].token = d,
                      route[c].lease = "live", route'[c] # route[c]
               PROVE  \/ drain'[d] # drain[d]
                      \/ route'[c] = [route[c] EXCEPT !.lease = "expired"]
    OBVIOUS
  <2>0. /\ route \in [Command -> RouteRow] /\ drain \in [Drain -> DrainState]
        /\ route[c].state = "running" /\ fact[c] # None
    BY DEF RouteInv, TypeOK, RowShape
  <2>1. ASSUME NEW b \in Command, NEW k \in Kind, RecordFeedback(b, k)
        PROVE  FALSE
    BY <2>0, <2>1 DEF RecordFeedback
  <2>2. ASSUME NEW e \in Drain, ClaimRoutes(e) PROVE FALSE
    BY <2>0, <2>2 DEF ClaimRoutes, Due
  <2>3. ASSUME NEW e \in Drain, ExecuteComplete(e) \/ ExecuteBlock(e) \/ RecordFailure(e)
        PROVE  drain'[d] # drain[d]
    <3>1. /\ route[drain[e].at].token = e
          /\ drain[e].pc \in {"executing", "recording"}
      BY <2>3 DEF ExecuteComplete, ExecuteBlock, RecordFailure, Holds
    <3>2. drain[e].at = c
      BY <2>0, <2>3 DEF ExecuteComplete, ExecuteBlock, RecordFailure
    <3>3. e = d
      BY <3>1, <3>2
    <3>4. NextClaim(d) \/ drain' = [drain EXCEPT ![d].pc = "failing"]
      BY <2>3, <3>3 DEF ExecuteComplete, ExecuteBlock, RecordFailure, CommitAnswered
    <3>5. drain'[d].pc \in {"idle", "draining", "failing"}
      <4>1. CASE NextClaim(d)
        <5> DEFINE rest == drain[d].batch \ {drain[d].at}
                   new  == IF rest = {} THEN Idle
                           ELSE [Idle EXCEPT !.pc = "draining", !.batch = rest]
        <5>1. drain' = [drain EXCEPT ![d] = new]
          BY <4>1 DEF NextClaim
        <5>2. new.pc \in {"idle", "draining"}
          BY DEF Idle
        <5> HIDE DEF new
        <5> QED BY <2>0, <5>1, <5>2
      <4>2. CASE drain' = [drain EXCEPT ![d].pc = "failing"]
        <5>1. drain'[d] = [drain[d] EXCEPT !.pc = "failing"]
          BY <2>0, <4>2
        <5> QED BY <2>0, <5>1 DEF DrainState
      <4> QED BY <3>4, <4>1, <4>2
    <3> QED BY <3>1, <3>3, <3>5
  <2>4. ASSUME NEW b \in Command, LeaseExpires(b)
        PROVE  route'[c] = [route[c] EXCEPT !.lease = "expired"]
    BY <2>0, <2>4 DEF LeaseExpires
  <2>5. ASSUME NEW b \in Command, RetryDelayEnds(b) PROVE FALSE
    BY <2>0, <2>5 DEF RetryDelayEnds
  <2>6. ~UNCHANGED route
    OBVIOUS
  <2> QED BY <2>1, <2>2, <2>3, <2>4, <2>5, <2>6
          DEF Next, vars, DrainStep, DrainCrash, StartExecution, ExecuteNothing,
              ExecuteRaises, StartRecording, RecordNothing, ResolveSignal,
              ApplyAssignment
<1>2. RouteInv /\ [Next]_vars => [A]_vars
  BY <1>1
<1> QED BY <1>2, RouteInvariant, PTL DEF Spec, LiveLeaseHonoured

-----------------------------------------------------------------------------
(* The history of an assignment *)

\* One history explains one assignment.
Explains(h, a) ==
    /\ Len(h) = a.version
    /\ \A i \in 1..Len(h) :
          /\ h[i].sequence = i
          /\ i > 1 => h[i].expected = i - 1 /\ h[i].from = h[i-1].to
    /\ h # << >> => a.state = h[Len(h)].to /\ a.owner = h[Len(h)].owner

CommandsOnce ==
    \A c1, c2 \in Command :
       \A i \in DOMAIN history[c1], j \in DOMAIN history[c2] :
          /\ history[c1][i].command = history[c2][j].command
          /\ history[c1][i].command # None
          => c1 = c2 /\ i = j

LEMMA ExplainedParts ==
    HistoryExplainsAssignment
      <=> (\A c \in Command : Explains(history[c], assignment[c])) /\ CommandsOnce
BY DEF HistoryExplainsAssignment, Explains, CommandsOnce

\* Appending the event of a command extends the explanation.
LEMMA AppendExplains ==
    ASSUME NEW h \in Seq(Event), NEW a \in Assignment, Explains(h, a),
           NEW e \in Event, NEW b \in Assignment, a.version \in Nat \ {0},
           e.sequence = a.version + 1, e.expected = a.version,
           e.from = a.state, e.to = b.state, e.owner = b.owner,
           b.version = a.version + 1
    PROVE  Explains(Append(h, e), b)
<1> DEFINE g == Append(h, e)
           n == Len(h)
<1>1. /\ n = a.version /\ n \in Nat \ {0} /\ Len(g) = n + 1
      /\ \A i \in 1..n : g[i] = h[i]
      /\ g[n + 1] = e
  BY DEF Explains
<1>2. h # << >>
  BY <1>1
<1>3. a.state = h[n].to
  BY <1>2 DEF Explains
<1>4. ASSUME NEW i \in 1..Len(g)
      PROVE  /\ g[i].sequence = i
             /\ i > 1 => g[i].expected = i - 1 /\ g[i].from = g[i-1].to
  <2>1. CASE i \in 1..n
    <3>1. i > 1 => i - 1 \in 1..n
      BY <1>1, <2>1
    <3> QED BY <1>1, <2>1, <3>1 DEF Explains
  <2>2. CASE i = n + 1
    <3>1. n \in 1..n /\ i - 1 = n
      BY <1>1, <2>2
    <3> QED BY <1>1, <1>3, <2>2, <3>1
  <2> QED BY <1>1, <2>1, <2>2
<1>5. g # << >> /\ g[Len(g)] = e
  BY <1>1
<1> QED BY <1>1, <1>4, <1>5 DEF Explains

LEMMA MaterializeExplains ==
    ASSUME RouteInv, HistoryExplainsAssignment, NEW b \in Command,
           Materialize(b)
    PROVE  HistoryExplainsAssignment'
<1> DEFINE base == [NoAssignment EXCEPT !.version = 1]
           first == [sequence |-> 1, command |-> None, expected |-> 0,
                     from |-> None, to |-> "unassigned", owner |-> None]
<1>0. /\ history \in [Command -> Seq(Event)]
      /\ assignment \in [Command -> Assignment]
  BY DEF RouteInv, TypeOK
<1>1. CASE signal[b] = "absent"
  <2>1. /\ assignment' = [assignment EXCEPT ![b] = base]
        /\ history' = [history EXCEPT ![b] = <<first>>]
    BY <1>0, <1>1 DEF Materialize
  <2>2. Explains(<<first>>, base)
    BY DEF Explains, NoAssignment
  <2>3. Len(<<first>>) = 1 /\ <<first>>[1].command = None
        /\ DOMAIN <<first>> = {1}
    OBVIOUS
  <2> HIDE DEF first, base
  <2>4. ASSUME NEW c \in Command PROVE Explains(history'[c], assignment'[c])
    <3>1. CASE c = b
      BY <1>0, <2>1, <2>2, <3>1
    <3>2. CASE c # b
      <4>1. history'[c] = history[c] /\ assignment'[c] = assignment[c]
        BY <1>0, <2>1, <3>2
      <4> QED BY <4>1, ExplainedParts
    <3> QED BY <3>1, <3>2
  <2>5. ASSUME NEW c1 \in Command, NEW c2 \in Command,
               NEW i \in DOMAIN history'[c1], NEW j \in DOMAIN history'[c2],
               history'[c1][i].command = history'[c2][j].command,
               history'[c1][i].command # None
        PROVE  c1 = c2 /\ i = j
    <3>1. c1 # b /\ c2 # b
      BY <1>0, <2>1, <2>3, <2>5
    <3>2. history'[c1] = history[c1] /\ history'[c2] = history[c2]
      BY <1>0, <2>1, <3>1
    <3> QED BY <2>5, <3>2, ExplainedParts DEF CommandsOnce
  <2>6. CommandsOnce'
    BY <2>5 DEF CommandsOnce
  <2> QED BY <2>4, <2>6 DEF HistoryExplainsAssignment, Explains, CommandsOnce
<1>2. CASE signal[b] # "absent"
  <2>1. assignment' = assignment /\ history' = history
    BY <1>0, <1>2 DEF Materialize
  <2> QED BY <2>1 DEF HistoryExplainsAssignment
<1> QED BY <1>1, <1>2

LEMMA ApplyExplains ==
    ASSUME RouteInv, HistoryExplainsAssignment,
           NEW k \in AssignCommand, NEW b \in Command,
           NEW to \in OwnerState, NEW o \in Owner \cup {None},
           NEW v \in 1..MaxVersion, ApplyAssignment(k, b, to, o, v)
    PROVE  HistoryExplainsAssignment'
<1> DEFINE e == [sequence |-> v + 1, command |-> k, expected |-> v,
                 from |-> assignment[b].state, to |-> to, owner |-> o]
           a == [state |-> to, owner |-> o, version |-> v + 1]
<1>0. /\ history \in [Command -> Seq(Event)]
      /\ assignment \in [Command -> Assignment]
  BY DEF RouteInv, TypeOK
<1>1. /\ e \in Event /\ a \in Assignment
      /\ assignment' = [assignment EXCEPT ![b] = a]
      /\ history' = [history EXCEPT ![b] = Append(history[b], e)]
      /\ assignment[b].version = v
  BY ApplyWrites
<1>2. /\ e.sequence = v + 1 /\ e.expected = v /\ e.from = assignment[b].state
      /\ e.to = a.state /\ e.owner = a.owner /\ a.version = v + 1
      /\ e.command = k
  OBVIOUS
<1>3. v \in Nat \ {0}
  BY FeedbackAssumption
<1>4. k # None
  BY FeedbackAssumption
<1>5. ASSUME NEW c \in Command, NEW i \in DOMAIN history[c]
      PROVE  history[c][i].command # k
  BY <1>5 DEF ApplyAssignment, Bound
<1> HIDE DEF e, a
<1>6. Explains(Append(history[b], e), a)
  <2>1. Explains(history[b], assignment[b])
    BY ExplainedParts
  <2> QED BY <1>0, <1>1, <1>2, <1>3, <2>1, AppendExplains
<1>7. ASSUME NEW c \in Command PROVE Explains(history'[c], assignment'[c])
  <2>1. CASE c = b
    BY <1>0, <1>1, <1>6, <2>1
  <2>2. CASE c # b
    <3>1. history'[c] = history[c] /\ assignment'[c] = assignment[c]
      BY <1>0, <1>1, <2>2
    <3> QED BY <3>1, ExplainedParts
  <2> QED BY <2>1, <2>2
<1>8. ASSUME NEW c \in Command, NEW i \in DOMAIN history'[c]
      PROVE  \/ c = b /\ i = Len(history[b]) + 1 /\ history'[c][i].command = k
             \/ i \in DOMAIN history[c] /\ history'[c][i] = history[c][i]
  <2>1. CASE c = b
    <3>1. history'[b] = Append(history[b], e) /\ history[b] \in Seq(Event)
      BY <1>0, <1>1
    <3>2. i \in 1..(Len(history[b]) + 1)
      BY <1>1, <1>8, <2>1, <3>1
    <3> QED BY <1>1, <1>2, <2>1, <3>1, <3>2
  <2>2. CASE c # b
    BY <1>0, <1>1, <1>8, <2>2
  <2> QED BY <2>1, <2>2
<1>9. CommandsOnce'
  <2> SUFFICES ASSUME NEW c1 \in Command, NEW c2 \in Command,
                      NEW i \in DOMAIN history'[c1], NEW j \in DOMAIN history'[c2],
                      history'[c1][i].command = history'[c2][j].command,
                      history'[c1][i].command # None
               PROVE  c1 = c2 /\ i = j
    BY DEF CommandsOnce
  <2>1. \/ c1 = b /\ i = Len(history[b]) + 1 /\ history'[c1][i].command = k
        \/ i \in DOMAIN history[c1] /\ history'[c1][i] = history[c1][i]
    BY <1>8
  <2>2. \/ c2 = b /\ j = Len(history[b]) + 1 /\ history'[c2][j].command = k
        \/ j \in DOMAIN history[c2] /\ history'[c2][j] = history[c2][j]
    BY <1>8
  <2>3. CommandsOnce
    BY ExplainedParts
  <2> QED BY <1>5, <2>1, <2>2, <2>3 DEF CommandsOnce
<1> QED BY <1>7, <1>9 DEF HistoryExplainsAssignment, Explains, CommandsOnce

\* The events of apply_review_assignment_command are a gapless history of the
\* assignment, each decided on the version before it and each command once.
THEOREM HistoriesExplain == Spec => []HistoryExplainsAssignment
<1>1. Init => HistoryExplainsAssignment
  BY DEF Init, HistoryExplainsAssignment, NoAssignment
<1>2. RouteInv /\ HistoryExplainsAssignment /\ [Next]_vars
        => HistoryExplainsAssignment'
  <2> SUFFICES ASSUME RouteInv, HistoryExplainsAssignment, [Next]_vars
               PROVE  HistoryExplainsAssignment'
    OBVIOUS
  <2>1. ASSUME NEW d \in Drain, ExecuteComplete(d)
        PROVE  HistoryExplainsAssignment'
    BY <2>1, HeldIsRunning, MaterializeExplains DEF ExecuteComplete
  <2>2. ASSUME NEW k \in AssignCommand, NEW c \in Command, NEW to \in OwnerState,
               NEW o \in Owner \cup {None}, NEW v \in 1..MaxVersion,
               ApplyAssignment(k, c, to, o, v)
        PROVE  HistoryExplainsAssignment'
    BY <2>2, ApplyExplains
  <2>3. CASE UNCHANGED <<assignment, history>>
    BY <2>3 DEF HistoryExplainsAssignment
  <2> QED BY <2>1, <2>2, <2>3
          DEF Next, vars, DrainStep, DrainCrash, StartExecution, ExecuteNothing,
              ExecuteBlock, ExecuteRaises, StartRecording, RecordNothing,
              RecordFailure, RecordFeedback, ClaimRoutes, LeaseExpires,
              RetryDelayEnds, ResolveSignal
<1> QED BY <1>1, <1>2, RouteInvariant, PTL DEF Spec

-----------------------------------------------------------------------------
(* The routes implement FeedbackContract *)

LEMMA OutcomeOfRow ==
    ASSUME NEW r \in RouteRow
    PROVE  /\ Outcome(r) = "none" <=> r.state = "absent"
           /\ Outcome(r) = "pending" <=> r.state \in {"queued", "running"}
           /\ r.state \in TerminalRoute => Outcome(r) = r.state
BY DEF Outcome, RouteRow, RouteState, TerminalRoute

ContractStep == Contract!Next \/ UNCHANGED Contract!vars

\* A step that leaves facts, signals and assignments alone, and the outcomes too
\* but for the pending ones it ends with one verdict, is a GiveUp.
LEMMA EndsAreGiveUps ==
    ASSUME RouteInv, NEW S \in SUBSET Command, NEW verdict \in {"blocked", "failed"},
           \A c \in S : /\ route[c].state \in {"queued", "running"}
                        /\ Outcome(route'[c]) = verdict,
           \A c \in Command \ S : Outcome(route'[c]) = Outcome(route[c]),
           UNCHANGED <<fact, signal, assignment>>
    PROVE  Contract!Next
<1> DEFINE old == [c \in Command |-> Outcome(route[c])]
           new == [c \in Command |-> Outcome(route'[c])]
<1>1. \A c \in S : old[c] = "pending" /\ signal[c] = "absent"
  <2> SUFFICES ASSUME NEW c \in S
               PROVE  Outcome(route[c]) = "pending" /\ signal[c] = "absent"
    OBVIOUS
  <2>1. route[c] \in RouteRow
    BY DEF RouteInv, TypeOK
  <2>2. signal[c] # "absent" <=> route[c].state = "completed"
    BY DEF RouteInv, OneOutcome
  <2> QED BY <2>1, <2>2, OutcomeOfRow
<1>2. new = [c \in Command |-> IF c \in S THEN verdict ELSE old[c]]
  OBVIOUS
<1> HIDE DEF old, new
<1>3. Contract!GiveUp(S, verdict)
  BY <1>1, <1>2 DEF Contract!GiveUp, old, new
<1> QED BY <1>3 DEF Contract!Next

\* record_feedback_signal records the fact and its route in one transaction.
LEMMA RecordingRecords ==
    ASSUME RouteInv, NEW c \in Command, NEW k \in Kind, RecordFeedback(c, k)
    PROVE  Contract!Next
<1> DEFINE old == [b \in Command |-> Outcome(route[b])]
           new == [b \in Command |-> Outcome(route'[b])]
<1>1. /\ fact[c] = None /\ fact' = [fact EXCEPT ![c] = k]
      /\ route' = IF k \in Routed THEN [route EXCEPT ![c] = NewRoute] ELSE route
      /\ UNCHANGED <<signal, assignment>>
  BY DEF RecordFeedback
<1>2. old[c] = "none"
  BY <1>1 DEF RouteInv, RowShape, Outcome
<1>3. Outcome(NewRoute) = "pending"
  BY DEF Outcome, NewRoute, TerminalRoute
<1>4. new = IF k \in Routed THEN [old EXCEPT ![c] = "pending"] ELSE old
  BY <1>1, <1>3 DEF RouteInv, TypeOK
<1> HIDE DEF old, new
<1>5. Contract!Record(c, k)
  BY <1>1, <1>2, <1>4 DEF Contract!Record, old, new
<1> QED BY <1>5 DEF Contract!Next

\* claim_feedback_routes ends the routes whose last attempt expired; the others
\* it claims stay pending.
LEMMA ClaimsEndTheSpent ==
    ASSUME RouteInv, NEW d \in Drain, ClaimRoutes(d)
    PROVE  Contract!Next
<1>1. PICK S \in SUBSET {c \in Command : Due(c)} :
        LET spent == {c \in S : Exhausted(route[c])} IN
        /\ route' = [c \in Command |->
                       IF c \in spent THEN Closed(route[c], "failed")
                       ELSE IF c \in S THEN Claimed(route[c], d)
                       ELSE route[c]]
        /\ UNCHANGED <<fact, signal, assignment, history>>
  BY DEF ClaimRoutes
<1> DEFINE spent == {c \in S : Exhausted(route[c])}
<1>2. ASSUME NEW c \in spent
      PROVE  route[c].state \in {"queued", "running"} /\ Outcome(route'[c]) = "failed"
  <2>1. c \in Command /\ route[c] \in RouteRow /\ Due(c)
    BY DEF RouteInv, TypeOK
  <2>2. route'[c] = Closed(route[c], "failed")
    BY <1>1, <2>1
  <2>3. Closed(route[c], "failed") \in RouteRow /\ Closed(route[c], "failed").state = "failed"
    BY <2>1, ClosedRow DEF TerminalRoute
  <2> QED BY <2>1, <2>2, <2>3, OutcomeOfRow DEF Due, TerminalRoute
<1>3. ASSUME NEW c \in Command \ spent
      PROVE  Outcome(route'[c]) = Outcome(route[c])
  <2>1. route[c] \in RouteRow
    BY DEF RouteInv, TypeOK
  <2>2. CASE c \notin S
    BY <1>1, <2>2
  <2>3. CASE c \in S
    <3>1. ~Exhausted(route[c]) /\ Due(c) /\ route'[c] = Claimed(route[c], d)
      BY <1>1, <2>3
    <3>2. Claimed(route[c], d) \in RouteRow /\ Claimed(route[c], d).state = "running"
      BY <2>1, <3>1, ClaimedRow
    <3> QED BY <2>1, <3>1, <3>2, OutcomeOfRow DEF Due
  <2> QED BY <2>2, <2>3
<1>4. spent \in SUBSET Command /\ UNCHANGED <<fact, signal, assignment>>
  BY <1>1
<1> HIDE DEF spent
<1> QED BY <1>2, <1>3, <1>4, EndsAreGiveUps

\* A transaction of d that closes or requeues the route in hand, without a signal.
LEMMA ExecutionsEndOrWait ==
    ASSUME RouteInv, NEW d \in Drain, ExecuteBlock(d) \/ RecordFailure(d)
    PROVE  ContractStep
<1> DEFINE c == drain[d].at
<1>1. Holds(d) /\ drain[d].pc \in {"executing", "recording"}
  BY DEF ExecuteBlock, RecordFailure
<1>2. c \in Command /\ route[c].state = "running" /\ route[c] \in RouteRow
  BY <1>1, HeldIsRunning
<1>3. /\ UNCHANGED <<fact, signal, assignment>>
      /\ \/ route' = [route EXCEPT ![c] = Closed(route[c], "blocked")]
         \/ route' = [route EXCEPT ![c] = Closed(route[c], "failed")]
         \/ route' = [route EXCEPT ![c] = Requeued(route[c])]
  BY DEF ExecuteBlock, RecordFailure
<1>4. route \in [Command -> RouteRow]
  BY DEF RouteInv, TypeOK
<1> HIDE DEF c
<1>5. ASSUME NEW s \in {"blocked", "failed"},
             route' = [route EXCEPT ![c] = Closed(route[c], s)]
      PROVE  Contract!Next
  <2>1. Closed(route[c], s) \in RouteRow /\ Closed(route[c], s).state = s
    BY <1>2, ClosedRow DEF TerminalRoute
  <2>2. Outcome(route'[c]) = s
    BY <1>2, <1>4, <1>5, <2>1, OutcomeOfRow DEF TerminalRoute
  <2>3. \A b \in Command \ {c} : Outcome(route'[b]) = Outcome(route[b])
    BY <1>4, <1>5
  <2>4. {c} \in SUBSET Command
    BY <1>2
  <2> QED BY <1>2, <1>3, <2>2, <2>3, <2>4, EndsAreGiveUps
<1>6. ASSUME route' = [route EXCEPT ![c] = Requeued(route[c])]
      PROVE  UNCHANGED Contract!vars
  <2>1. Outcome(Requeued(route[c])) = Outcome(route[c])
    BY <1>2, RequeuedRow, OutcomeOfRow
  <2>2. \A b \in Command : Outcome(route'[b]) = Outcome(route[b])
    BY <1>4, <1>6, <2>1
  <2> QED BY <1>3, <2>2 DEF Contract!vars
<1> QED BY <1>3, <1>5, <1>6 DEF ContractStep

\* execute_feedback_route commits the outcome and its review work together.
LEMMA CompletionDelivers ==
    ASSUME RouteInv, NEW d \in Drain, ExecuteComplete(d)
    PROVE  Contract!Next
<1> DEFINE c == drain[d].at
           old == [b \in Command |-> Outcome(route[b])]
           new == [b \in Command |-> Outcome(route'[b])]
<1>1. c \in Command /\ route[c].state = "running" /\ route[c] \in RouteRow
  BY HeldIsRunning DEF ExecuteComplete
<1>2. signal[c] = "absent"
  BY <1>1 DEF RouteInv, OneOutcome
<1>3. /\ route' = [route EXCEPT ![c] = Closed(route[c], "completed")]
      /\ signal' = [signal EXCEPT ![c] = "active"]
      /\ assignment' = [assignment EXCEPT ![c] = [NoAssignment EXCEPT !.version = 1]]
      /\ UNCHANGED fact
  BY <1>2 DEF ExecuteComplete, Materialize
<1>4. Outcome(Closed(route[c], "completed")) = "completed"
  BY <1>1, ClosedRow, OutcomeOfRow DEF TerminalRoute
<1>5. old[c] = "pending" /\ new = [old EXCEPT ![c] = "completed"]
  BY <1>1, <1>3, <1>4, OutcomeOfRow DEF RouteInv, TypeOK
<1> HIDE DEF c, old, new
<1>6. Contract!Deliver(c)
  BY <1>2, <1>3, <1>5 DEF Contract!Deliver, Contract!Nobody, NoAssignment, old, new
<1> QED BY <1>1, <1>6 DEF Contract!Next

\* apply_review_assignment_command is a decision on active work.
LEMMA CommandsDecide ==
    ASSUME RouteInv, NEW k \in AssignCommand, NEW c \in Command,
           NEW to \in OwnerState, NEW o \in Owner \cup {None},
           NEW v \in 1..MaxVersion, ApplyAssignment(k, c, to, o, v)
    PROVE  Contract!Next
<1>1. /\ signal[c] = "active" /\ UNCHANGED <<fact, route, signal>>
      /\ Allowed(assignment[c], to, o)
      /\ assignment' = [assignment EXCEPT ![c] =
                          [state |-> to, owner |-> o, version |-> @.version + 1]]
  BY DEF ApplyAssignment
<1>2. /\ to = "unassigned" <=> o = None
      /\ to # assignment[c].state \/ o # assignment[c].owner
  BY <1>1, FeedbackAssumption DEF Allowed
<1>3. Contract!Decide(c, to, o)
  BY <1>1, <1>2 DEF Contract!Decide
<1> QED BY <1>3 DEF Contract!Next, OwnerState

LEMMA StepsOfContract == RouteInv /\ [Next]_vars => ContractStep
<1> SUFFICES ASSUME RouteInv, [Next]_vars PROVE ContractStep
  OBVIOUS
<1>1. ASSUME NEW c \in Command, NEW k \in Kind, RecordFeedback(c, k)
      PROVE  ContractStep
  BY <1>1, RecordingRecords DEF ContractStep
<1>2. ASSUME NEW d \in Drain, ClaimRoutes(d)
      PROVE  ContractStep
  BY <1>2, ClaimsEndTheSpent DEF ContractStep
<1>3. ASSUME NEW d \in Drain, ExecuteComplete(d)
      PROVE  ContractStep
  BY <1>3, CompletionDelivers DEF ContractStep
<1>4. ASSUME NEW d \in Drain, ExecuteBlock(d) \/ RecordFailure(d)
      PROVE  ContractStep
  BY <1>4, ExecutionsEndOrWait
<1>5. ASSUME UNCHANGED <<fact, route, signal, assignment>>
      PROVE  ContractStep
  BY <1>5 DEF ContractStep, Contract!vars
<1>6. ASSUME NEW c \in Command, LeaseExpires(c) \/ RetryDelayEnds(c)
      PROVE  ContractStep
  <2>1. route \in [Command -> RouteRow]
    BY DEF RouteInv, TypeOK
  <2>2. \A b \in Command : route'[b].state = route[b].state
    BY <1>6, <2>1 DEF LeaseExpires, RetryDelayEnds, RouteRow
  <2>3. \A b \in Command : Outcome(route'[b]) = Outcome(route[b])
    BY <2>2 DEF Outcome
  <2> QED BY <1>6, <2>3 DEF ContractStep, Contract!vars, LeaseExpires, RetryDelayEnds
<1>7. ASSUME NEW c \in Command, ResolveSignal(c)
      PROVE  ContractStep
  <2>1. Contract!Resolve(c)
    BY <1>7 DEF ResolveSignal, Contract!Resolve
  <2> QED BY <2>1 DEF ContractStep, Contract!Next
<1>8. ASSUME NEW k \in AssignCommand, NEW c \in Command, NEW to \in OwnerState,
             NEW o \in Owner \cup {None}, NEW v \in 1..MaxVersion,
             ApplyAssignment(k, c, to, o, v)
      PROVE  ContractStep
  BY <1>8, CommandsDecide DEF ContractStep
<1>9. ASSUME NEW d \in Drain, DrainStep(d) \/ DrainCrash(d)
      PROVE  ContractStep
  BY <1>3, <1>4, <1>5, <1>9
     DEF DrainStep, DrainCrash, StartExecution, ExecuteNothing, ExecuteRaises,
         StartRecording, RecordNothing
<1>10. CASE UNCHANGED vars
  BY <1>5, <1>10 DEF vars
<1> QED BY <1>1, <1>2, <1>6, <1>7, <1>8, <1>9, <1>10 DEF Next

\* Whatever drains overlap, die, raise or lose an answer, feedback, routes,
\* signals and assignments do only what FeedbackContract describes: a routed
\* fact gets one outcome, and review work with it or none at all.
THEOREM RoutesImplementContract == Spec => FeedbackContractHolds
<1>1. Init => Contract!Init
  BY DEF Init, Contract!Init, Contract!Nobody, NoAssignment, NoRoute, Outcome
<1>2. RouteInv /\ [Next]_vars => [Contract!Next]_(Contract!vars)
  BY StepsOfContract DEF ContractStep
<1> QED BY <1>1, <1>2, RouteInvariant, PTL
        DEF Spec, FeedbackContractHolds, Contract!Spec
=============================================================================
