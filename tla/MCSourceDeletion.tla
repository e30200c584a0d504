--------------------------- MODULE MCSourceDeletion ---------------------------
(* Instances of SourceDeletion for TLC. *)
EXTENDS SourceDeletion

CONSTANTS s1, w1, w2

===============================================================================
