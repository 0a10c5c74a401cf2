-------------------------- MODULE MCReviewLifecycle --------------------------
(* Model values for ReviewLifecycle are numbers and strings; nothing else  *)
(* is needed for its runs.                                                 *)
EXTENDS ReviewLifecycle
=============================================================================
