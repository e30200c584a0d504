--------------------------- MODULE MCDraftReview ---------------------------
(***************************************************************************)
(* DraftReview on small instances.                                         *)
(***************************************************************************)
EXTENDS DraftReview, TLC

\* Requests are alike, and so are texts.
Symmetric == Permutations(Request) \cup Permutations(Content)

\* A source that no draft has been made from yet may as well be in its first
\* generation: these states are not explored further.
DraftsMeetGenerations == generation > 1 => \E d \in Draft : draft[d].gen = 1
=============================================================================
