-------------------------- MODULE DispatchContract --------------------------
(***************************************************************************)
(* What the dispatch outbox promises, without leases, jobs, sweeps or       *)
(* retries (docstring of src/cygnus/runtime/source_dispatch.py): a source   *)
(* goes through cycles; in a cycle the stages take turns, and a stage is    *)
(* over when it is handed off, finished or given up.  Nothing reopens it,   *)
(* and its verdict stands for as long as the source stays in its cycle.     *)
(***************************************************************************)
EXTENDS Naturals

CONSTANTS Stage, Continuation, NoStage, MaxGeneration

VARIABLES
    gen,      \* the cycle the source is in, 0 before the first
    deleted,  \* the source is being deleted
    state     \* each execution: not there yet, open, or its verdict

vars == <<gen, deleted, state>>

Execution == (1..MaxGeneration) \X Stage
Verdict == {"completed", "failed", "stale"}

Init ==
    /\ gen = 0
    /\ deleted = FALSE
    /\ state = [e \in Execution |-> "none"]

After(e) == <<e[1], Continuation[e[2]]>>

\* A new cycle enters at some stage; v is "failed" if its first and only
\* attempt to reach a worker failed.
Begin(s, v) ==
    /\ gen < MaxGeneration
    /\ state[<<gen + 1, s>>] = "none"
    /\ gen' = gen + 1
    /\ state' = [state EXCEPT ![<<gen + 1, s>>] = v]
    /\ UNCHANGED deleted

\* The source has moved past e: it is being deleted, or in a later cycle.
Past(e) == deleted \/ gen > e[1]

\* A stage hands off: its continuation opens in the step that completes it, if
\* it is not over already, and no other stage of its cycle is open.  The late
\* handoff of a stage the source has moved past may rewrite its verdict.
HandOff(e, v) ==
    /\ Continuation[e[2]] # NoStage
    /\ state[e] # "none" /\ state[After(e)] = "none"
    /\ \A f \in Execution : f[1] = e[1] /\ f # e => state[f] # "open"
    /\ \E w \in {"completed", state[e]} :
          /\ state[e] = "open" => w = "completed"
          /\ w # state[e] => state[e] = "open" \/ Past(e)
          /\ state' = [state EXCEPT ![e] = w, ![After(e)] = v]
    /\ UNCHANGED <<gen, deleted>>

\* The verdict that execution e may be given outside a handoff, if it is open or
\* the source has moved past it: stale only in the second case, completed only
\* if nothing is left to hand off.
Closable(e, verdict) ==
    /\ state[e] = "open" \/ (state[e] # "none" /\ Past(e))
    /\ verdict = "stale" => Past(e)
    /\ verdict = "completed" =>
          Continuation[e[2]] = NoStage \/ state[After(e)] # "none"

\* Any number of executions are closed, or closed anew.
Close ==
    /\ state' \in [Execution -> {"none", "open"} \cup Verdict]
    /\ \A e \in Execution :
          state'[e] # state[e] => state'[e] \in Verdict /\ Closable(e, state'[e])
    /\ UNCHANGED <<gen, deleted>>

\* A deletion closes whatever is open, in the step that marks the source.
Delete ==
    /\ deleted' = TRUE
    /\ state' = [e \in Execution |-> IF state[e] = "open" THEN "stale" ELSE state[e]]
    /\ UNCHANGED gen

Next ==
    \/ \E s \in Stage, v \in {"open", "failed"} : Begin(s, v)
    \/ \E e \in Execution, v \in {"open", "failed"} : HandOff(e, v)
    \/ Close
    \/ Delete

Spec == Init /\ [][Next]_vars
=============================================================================
