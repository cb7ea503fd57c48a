------------------------------ MODULE MCHistory ------------------------------
(* History on small instances. *)
EXTENDS History

CONSTANTS l1, l2

TwoLabels == [r \in Rows |-> IF r = 1 THEN l1 ELSE l2]
TwoGroups == [r \in Rows |-> IF r = 2 THEN 1 ELSE r]
=============================================================================
