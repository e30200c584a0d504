-------------------------- MODULE FeedbackContract --------------------------
(***************************************************************************)
(* What feedback routing promises, without drains, leases, attempts or     *)
(* retries: a recorded fact of a routed kind is owed an outcome; it gets   *)
(* one, once: review work, or the end of the route without any.  Review    *)
(* work is there from the step that gives the outcome, and is decided on   *)
(* until it is resolved (src/cygnus/governance/feedback_execution.py,      *)
(* review_assignments.py).                                                 *)
(***************************************************************************)
EXTENDS Naturals

CONSTANTS Command, Kind, Routed, Owner, None

VARIABLES
    fact,     \* the kind of feedback a command recorded
    outcome,  \* "none", "pending", or how the route ended
    signal,   \* "absent", "active" or "resolved"
    work      \* the assignment: state, owner and version

vars == <<fact, outcome, signal, work>>

Nobody == [state |-> "unassigned", owner |-> None, version |-> 0]

Init ==
    /\ fact = [c \in Command |-> None]
    /\ outcome = [c \in Command |-> "none"]
    /\ signal = [c \in Command |-> "absent"]
    /\ work = [c \in Command |-> Nobody]

\* A fact is recorded together with the outcome it is owed, if any.
Record(c, k) ==
    /\ fact[c] = None
    /\ outcome[c] = "none"
    /\ fact' = [fact EXCEPT ![c] = k]
    /\ outcome' = IF k \in Routed
                    THEN [outcome EXCEPT ![c] = "pending"] ELSE outcome
    /\ UNCHANGED <<signal, work>>

\* The outcome is review work, which nobody has yet.
Deliver(c) ==
    /\ outcome[c] = "pending"
    /\ signal[c] = "absent"
    /\ outcome' = [outcome EXCEPT ![c] = "completed"]
    /\ signal' = [signal EXCEPT ![c] = "active"]
    /\ work' = [work EXCEPT ![c] = [Nobody EXCEPT !.version = 1]]
    /\ UNCHANGED fact

\* Some routes end without review work.
GiveUp(S, verdict) ==
    /\ \A c \in S : outcome[c] = "pending" /\ signal[c] = "absent"
    /\ outcome' = [c \in Command |-> IF c \in S THEN verdict ELSE outcome[c]]
    /\ UNCHANGED <<fact, signal, work>>

\* Active work changes hands: it has an owner unless it is unassigned, and a
\* decision that changes nothing is none.
Decide(c, state, owner) ==
    /\ signal[c] = "active"
    /\ state = "unassigned" <=> owner = None
    /\ state # work[c].state \/ owner # work[c].owner
    /\ work' = [work EXCEPT ![c] = [state |-> state, owner |-> owner,
                                    version |-> @.version + 1]]
    /\ UNCHANGED <<fact, outcome, signal>>

Resolve(c) ==
    /\ signal[c] = "active"
    /\ signal' = [signal EXCEPT ![c] = "resolved"]
    /\ UNCHANGED <<fact, outcome, work>>

Next ==
    \/ \E c \in Command, k \in Kind : Record(c, k)
    \/ \E c \in Command : Deliver(c) \/ Resolve(c)
    \/ \E S \in SUBSET Command, verdict \in {"blocked", "failed"} :
          GiveUp(S, verdict)
    \/ \E c \in Command, state \in {"unassigned", "assigned", "escalated"},
          owner \in Owner \cup {None} : Decide(c, state, owner)

Spec == Init /\ [][Next]_vars
=============================================================================
