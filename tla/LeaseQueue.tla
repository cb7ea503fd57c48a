----------------------------- MODULE LeaseQueue -----------------------------
(***************************************************************************)
(* What the job repository promises to the API and to workers, without its *)
(* tables and without numbers on its clock: a bounded queue of jobs, each  *)
(* owned by at most one lease token at a time, whose owner alone may       *)
(* settle it and only while its lease is live.                             *)
(*                                                                         *)
(* JobStore implements this specification (JobStoreRefinement).  Worker    *)
(* processes are modelled over it (WorkerFleet), where a lease that runs   *)
(* out and a retry delay that elapses are events of their own.             *)
(***************************************************************************)
EXTENDS Integers, FiniteSets

CONSTANTS Jobs, Tokens, Documents, NoToken, NoDocument, MaxAttempts, ReapLimit

ASSUME LeaseQueueAssumption ==
    /\ NoToken \notin Tokens
    /\ NoDocument \notin Documents
    /\ MaxAttempts \in Nat \ {0}
    /\ ReapLimit \in Nat \ {0}

VARIABLES
    status,     \* the job's status, "absent" before it is submitted
    tries,      \* attempt_count
    holder,     \* the lease token of the job's latest attempt
    live,       \* the latest attempt runs and its lease has not run out
    ready,      \* the job is queued and its available_at has come
    issued,     \* every lease token ever given out
    document,   \* the published evidence
    author      \* the token it was published under

queueVars == <<status, tries, holder, live, ready, issued, document, author>>

QueueTypeOK ==
    /\ status \in [Jobs -> {"absent", "queued", "running", "cancel_requested",
                            "succeeded", "failed", "canceled"}]
    /\ tries \in [Jobs -> 0 .. MaxAttempts]
    /\ holder \in [Jobs -> Tokens \cup {NoToken}]
    /\ live \in [Jobs -> BOOLEAN]
    /\ ready \in [Jobs -> BOOLEAN]
    /\ issued \subseteq Tokens
    /\ document \in [Jobs -> Documents \cup {NoDocument}]
    /\ author \in [Jobs -> Tokens \cup {NoToken}]

Ended == {"succeeded", "failed", "canceled"}

Owned(j) == status[j] \in {"running", "cancel_requested"}

Owns(j, token) == Owned(j) /\ holder[j] = token /\ live[j]

\* The attempt of j ends and j takes a new status.
End(j, new) ==
    /\ status' = [status EXCEPT ![j] = new]
    /\ live' = [live EXCEPT ![j] = FALSE]
    /\ UNCHANGED <<tries, holder, ready, issued>>

CancelOwned(j) ==
    /\ status[j] = "cancel_requested"
    /\ End(j, "canceled")
    /\ UNCHANGED <<document, author>>

\* A job created by an API clock that runs ahead is not ready at once.
Submit(j) ==
    /\ status[j] = "absent"
    /\ status' = [status EXCEPT ![j] = "queued"]
    /\ \E available \in BOOLEAN : ready' = [ready EXCEPT ![j] = available]
    /\ UNCHANGED <<tries, holder, live, issued, document, author>>

Cancel(j) ==
    /\ \/ /\ status[j] = "queued"
          /\ status' = [status EXCEPT ![j] = "canceled"]
          /\ ready' = [ready EXCEPT ![j] = FALSE]
       \/ /\ status[j] = "running"
          /\ status' = [status EXCEPT ![j] = "cancel_requested"]
          /\ UNCHANGED ready
    /\ UNCHANGED <<tries, holder, live, issued, document, author>>

Claim(j, token) ==
    /\ status[j] = "queued" /\ ready[j]
    /\ tries[j] < MaxAttempts
    /\ token \in Tokens \ issued
    /\ status' = [status EXCEPT ![j] = "running"]
    /\ tries' = [tries EXCEPT ![j] = @ + 1]
    /\ holder' = [holder EXCEPT ![j] = token]
    /\ live' = [live EXCEPT ![j] = TRUE]
    /\ ready' = [ready EXCEPT ![j] = FALSE]
    /\ issued' = issued \cup {token}
    /\ UNCHANGED <<document, author>>

\* A heartbeat keeps a live lease live.
Heartbeat(j, token) == Owns(j, token) /\ UNCHANGED queueVars

Retry(j, token) ==
    /\ Owns(j, token)
    /\ \/ CancelOwned(j)
       \/ /\ status[j] = "running" /\ tries[j] < MaxAttempts
          /\ End(j, "queued")
          /\ UNCHANGED <<document, author>>

Fail(j, token) ==
    /\ Owns(j, token)
    /\ \/ CancelOwned(j)
       \/ /\ status[j] = "running"
          /\ End(j, "failed")
          /\ UNCHANGED <<document, author>>

Acknowledge(j, token) == Owns(j, token) /\ CancelOwned(j)

Complete(j, token, d) ==
    /\ Owns(j, token)
    /\ \/ CancelOwned(j)
       \/ /\ status[j] = "running"
          /\ End(j, "succeeded")
          /\ document' = [document EXCEPT ![j] = d]
          /\ author' = [author EXCEPT ![j] = token]

\* Mutant: jobs that were asked to stop are left out of the reaper's scan.
ExpiredRunning(j) == status[j] = "running" /\ ~live[j]

Expired(j) == Owned(j) /\ ~live[j]

\* Mutant: there is no verdict when no attempt is left.
VerdictWithoutLimit(j) ==
    IF status[j] = "cancel_requested" THEN "canceled"
    ELSE IF tries[j] < MaxAttempts THEN "queued" ELSE status[j]

\* The reaper's verdict on an expired attempt.
Verdict(j) ==
    IF status[j] = "cancel_requested" THEN "canceled"
    ELSE IF tries[j] < MaxAttempts THEN "queued" ELSE "failed"

Reap(batch) ==
    /\ batch # {} /\ batch \subseteq {j \in Jobs : Expired(j)}
    /\ Cardinality(batch) <= ReapLimit
    /\ status' = [j \in Jobs |-> IF j \in batch THEN Verdict(j) ELSE status[j]]
    /\ UNCHANGED <<tries, holder, live, ready, issued, document, author>>

\* Time passes: leases run out and delayed jobs become ready, together or not.
Elapse(out, due) ==
    /\ out \subseteq {j \in Jobs : live[j]}
    /\ due \subseteq {j \in Jobs : status[j] = "queued"}
    /\ live' = [j \in Jobs |-> live[j] /\ j \notin out]
    /\ ready' = [j \in Jobs |-> ready[j] \/ j \in due]
    /\ UNCHANGED <<status, tries, holder, issued, document, author>>

QueueInit ==
    /\ status = [j \in Jobs |-> "absent"]
    /\ tries = [j \in Jobs |-> 0]
    /\ holder = [j \in Jobs |-> NoToken]
    /\ live = [j \in Jobs |-> FALSE]
    /\ ready = [j \in Jobs |-> FALSE]
    /\ issued = {}
    /\ document = [j \in Jobs |-> NoDocument]
    /\ author = [j \in Jobs |-> NoToken]

QueueNext ==
    \/ \E j \in Jobs : Submit(j) \/ Cancel(j)
    \/ \E j \in Jobs, token \in Tokens :
          \/ Claim(j, token)
          \/ Retry(j, token)
          \/ Fail(j, token)
          \/ Acknowledge(j, token)
          \/ \E d \in Documents : Complete(j, token, d)
    \/ \E batch \in SUBSET Jobs : Reap(batch)
    \/ \E out, due \in SUBSET Jobs : Elapse(out, due)

QueueSpec == QueueInit /\ [][QueueNext]_queueVars
=============================================================================
