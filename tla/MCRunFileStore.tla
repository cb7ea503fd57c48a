---------------------------- MODULE MCRunFileStore ----------------------------
(* RunFileStore on small instances. *)
EXTENDS RunFileStore, TLC

CONSTANTS s1, s2, s3, c1, c2

Interchangeable == Permutations(Savers) \cup Permutations(Contents)
=============================================================================
