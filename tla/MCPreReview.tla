---------------------------- MODULE MCPreReview ----------------------------
(***************************************************************************)
(* PreReview on small instances.                                           *)
(***************************************************************************)
EXTENDS PreReview
=============================================================================
