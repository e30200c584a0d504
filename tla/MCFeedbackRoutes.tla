-------------------------- MODULE MCFeedbackRoutes --------------------------
(***************************************************************************)
(* FeedbackRoutes on a small instance; the constants are in the cfg.       *)
(***************************************************************************)
EXTENDS FeedbackRoutes
=============================================================================
