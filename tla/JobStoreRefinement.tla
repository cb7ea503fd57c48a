------------------------- MODULE JobStoreRefinement -------------------------
(***************************************************************************)
(* JobStore implements LeaseQueue.  The queue's view of a job is computed  *)
(* from its row, its latest attempt and the database clock.                *)
(***************************************************************************)
EXTENDS JobStore

LatestToken(j) ==
    IF jobs[j].attempt_count = 0 THEN NoToken
    ELSE attempts[j][jobs[j].attempt_count].token

LeaseIsLive(j) ==
    /\ Active(j)
    /\ attempts[j][jobs[j].attempt_count].lease_expires_at > now

Queue == INSTANCE LeaseQueue WITH
    status <- [j \in Jobs |-> jobs[j].status],
    tries <- [j \in Jobs |-> jobs[j].attempt_count],
    holder <- [j \in Jobs |-> LatestToken(j)],
    live <- [j \in Jobs |-> LeaseIsLive(j)],
    ready <- [j \in Jobs |-> Claimable(j)],
    issued <- Issued,
    document <- [j \in Jobs |-> evidence[j].document],
    author <- [j \in Jobs |-> evidence[j].author]

\* The tables keep the queue's promise: every transaction of the repository and
\* every tick of its clock is a step of LeaseQueue, or no step of it.
ImplementsLeaseQueue == Queue!QueueSpec
=============================================================================
