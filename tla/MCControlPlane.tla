---------------------------- MODULE MCControlPlane ----------------------------
\* ControlPlane on a small instance.
EXTENDS ControlPlane, TLC

CONSTANTS d1, u1, c1, c2, c3, q1, q2

\* Two suite documents, for two contents of one dataset revision.
Pins == [c \in Contents |-> [dataset |-> d1, content |-> IF c = c1 THEN c1 ELSE c2]]

OneSuite == [digest \in Digests |-> u1]

Symmetry ==
    Permutations(Processes) \cup Permutations(Keys)
        \cup Permutations(Digests) \cup Permutations(JobIds)
=============================================================================
