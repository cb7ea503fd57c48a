----------------------------- MODULE MCJobStore -----------------------------
(***************************************************************************)
(* An instance of JobStore and of its refinement for TLC.                  *)
(***************************************************************************)
EXTENDS JobStoreRefinement, TLC

Symmetry == Permutations(Jobs) \cup Permutations(Tokens) \cup Permutations(Documents)

\* Bound: a single job lives through all its attempts, two jobs share the queue for
\* as long as it takes until both leases have run out and one batch reaps them.
TwoJobsAreShort == (\A j \in Jobs : jobs[j].status # Absent) => now <= 3
=============================================================================
