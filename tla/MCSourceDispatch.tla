-------------------------- MODULE MCSourceDispatch --------------------------
(***************************************************************************)
(* SourceDispatch on small instances: a pipeline of two stages, the first  *)
(* of which hands off to the second, or of the last stage alone.  A third  *)
(* stage, other, is there for the tasks that claim under it.               *)
(***************************************************************************)
EXTENDS SourceDispatchInv, TLC

CONSTANTS entry, final, other

MCContinuation == [s \in Stage |-> IF s = entry THEN final ELSE NoStage]

MCOwnClaim == [s \in Stage |-> s]

\* A source without images: the job of the stage post_extraction runs
\* ingest_map_reduce_task, which claims as the stage map_reduce.
MCNoImages == [s \in Stage |-> IF s = final THEN other ELSE s]

Workers == Permutations(Worker)
=============================================================================
