---------------------------- MODULE MCScheduler ----------------------------
(* Scheduler with ids, targets and callers as model values.                *)
EXTENDS Scheduler, TLC

Symmetry ==
    Permutations(JobIds) \cup Permutations(Clients) \cup Permutations(Targets)

=============================================================================
