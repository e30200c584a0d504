--------------------------- MODULE DeletionContract ---------------------------
(***************************************************************************)
(* What source deletion promises, without sweeps, retries or workers: a     *)
(* source is hidden by one step, the objects it had at that step are        *)
(* removed in any order and any number at a time, and its row goes only     *)
(* when none of them is left (docstring of                                  *)
(* src/cygnus/runtime/source_deletion.py).                                  *)
(***************************************************************************)
CONSTANTS Source, Object

VARIABLES
    source,  \* "live", "tombstoned" (hidden from readers) or "gone"
    held     \* the objects of the source at its tombstone that still exist

vars == <<source, held>>

Init ==
    /\ source = [s \in Source |-> "live"]
    /\ held = [s \in Source |-> {}]

\* the deletion is accepted: the row is hidden, its objects are now owed
Hide(s) ==
    /\ source[s] = "live"
    /\ source' = [source EXCEPT ![s] = "tombstoned"]
    /\ \E left \in SUBSET Object : held' = [held EXCEPT ![s] = left]

\* some of the objects are removed from storage
Clean(s) ==
    /\ source[s] = "tombstoned"
    /\ \E left \in SUBSET held[s] :
          left # held[s] /\ held' = [held EXCEPT ![s] = left]
    /\ UNCHANGED source

\* the row is removed, only once the storage is clean
Remove(s) ==
    /\ source[s] = "tombstoned"
    /\ held[s] = {}
    /\ source' = [source EXCEPT ![s] = "gone"]
    /\ UNCHANGED held

Next == \E s \in Source : Hide(s) \/ Clean(s) \/ Remove(s)

Safety == Init /\ [][Next]_vars

Spec == Safety /\ \A s \in Source : WF_vars(Clean(s) \/ Remove(s))
===============================================================================
