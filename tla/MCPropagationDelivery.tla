----------------------- MODULE MCPropagationDelivery -----------------------
(***************************************************************************)
(* PropagationDelivery on small instances.  Sweeping processes are         *)
(* interchangeable.                                                        *)
(***************************************************************************)
EXTENDS PropagationDelivery, TLC

Sweepers == Permutations(Sweep)
=============================================================================
