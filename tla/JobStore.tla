------------------------------ MODULE JobStore ------------------------------
(***************************************************************************)
(* The durable job tables of SqlAlchemyControlPlaneRepository              *)
(* (adapters/control_plane_db.py): control_plane_jobs,                     *)
(* control_plane_job_attempts and the evidence tables, under the clock of  *)
(* the database.  There is one action per repository method.               *)
(*                                                                         *)
(* Every method runs in one transaction that locks the job row first, so a *)
(* method is one atomic step of its job.  A method reads                   *)
(* statement_timestamp() several times; the lease is tested again by the   *)
(* UPDATE that ends the attempt.  A later reading can only turn an action  *)
(* into LeaseLostError with a rollback, which is a clock tick followed by  *)
(* the refusal of the same call, so one reading per action loses nothing.  *)
(*                                                                         *)
(* The callers are arbitrary: whoever was issued a lease token may present *)
(* it, with any attempt number and any document, at any later time.  A     *)
(* call the code refuses changes no row and is a disabled action here.     *)
(*                                                                         *)
(* Not modelled here: error codes and worker identities (labels), the      *)
(* payload row (written once, with the job) and the version column (its    *)
(* compare-and-set cannot fail while the row is locked).                   *)
(***************************************************************************)
EXTENDS Integers, FiniteSets

CONSTANTS
    Jobs,           \* job_id values; a job owns the evidence of its resource_id
    Tokens,         \* lease tokens of _lease_token()
    Documents,      \* canonical evidence documents an execution may produce
    NoToken,        \* the lease_token of an attempt row that does not exist
    NoDocument,     \* the document of a run or decision row that does not exist
    MaxAttempts,    \* control_plane_jobs.max_attempts
    LeaseSeconds,   \* the lease duration workers are configured with
    RetryBase,      \* backoff_base_seconds
    RetryMax,       \* backoff_max_seconds
    RetryDelays,    \* delays a caller of retry_job may ask for
    ReapLimit,      \* reaper_batch
    ClockSkew,      \* how far the API clock may be from the database clock
    MaxTime         \* bound of the database clock

ASSUME JobStoreAssumption ==
    /\ NoToken \notin Tokens
    /\ NoDocument \notin Documents
    /\ MaxAttempts \in Nat \ {0}
    /\ LeaseSeconds \in Nat \ {0}
    /\ RetryBase \in Nat \ {0}
    /\ RetryMax \in Nat \ {0}
    /\ RetryDelays \subseteq Nat \ {0}
    /\ ReapLimit \in Nat \ {0}
    /\ ClockSkew \in Nat
    /\ MaxTime \in Nat

VARIABLES
    now,        \* statement_timestamp() of the database
    jobs,       \* control_plane_jobs
    attempts,   \* control_plane_job_attempts, by job and attempt_number
    evidence    \* control_plane_runs and control_plane_release_decisions

vars == <<now, jobs, attempts, evidence>>

Numbers == 1 .. MaxAttempts

JobStatus ==
    {"queued", "running", "cancel_requested", "succeeded", "failed", "canceled"}

AttemptStatus ==
    {"running", "succeeded", "retry_scheduled", "failed", "canceled",
     "lease_expired"}

Terminal == {"succeeded", "failed", "canceled"}

\* A job or attempt number without a row.
Absent == "absent"

\* The finished_at of an attempt that is running.
Never == -1

Times == Nat \cup {Never}

JobRow ==
    [status : JobStatus \cup {Absent}, attempt_count : 0 .. MaxAttempts,
     available_at : Nat, created_at : Nat, updated_at : Nat]

AttemptRow ==
    [status : AttemptStatus \cup {Absent}, token : Tokens \cup {NoToken},
     started_at : Nat, heartbeat_at : Nat, lease_expires_at : Nat,
     finished_at : Times]

\* The document of a job and, as history, the token it was published under.
EvidenceRow == [author : Tokens \cup {NoToken}, document : Documents \cup {NoDocument}]

NoEvidence == [author |-> NoToken, document |-> NoDocument]

NoJob == [status |-> Absent, attempt_count |-> 0,
          available_at |-> 0, created_at |-> 0, updated_at |-> 0]

NoAttempt == [status |-> Absent, token |-> NoToken, started_at |-> 0,
              heartbeat_at |-> 0, lease_expires_at |-> 0, finished_at |-> Never]

TypeOK ==
    /\ now \in Nat
    /\ jobs \in [Jobs -> JobRow]
    /\ attempts \in [Jobs -> [Numbers -> AttemptRow]]
    /\ evidence \in [Jobs -> EvidenceRow]

(***************************************************************************)
(* Helpers of the repository                                               *)
(***************************************************************************)

Later(a, b) == IF a >= b THEN a ELSE b

\* Mutant: the database clock alone, which may be behind the API's.
TransitionAtNow(j) == now

\* transition_at of every method: never before the last update of the job.
TransitionAt(j) == Later(now, jobs[j].updated_at)

\* Mutant: every attempt waits as long as the first.
BackoffFlat(n) == IF RetryBase <= RetryMax THEN RetryBase ELSE RetryMax

\* min(base * 2 ** (attempt_count - 1), maximum), which is at least 1.
Backoff(n) ==
    LET delay == RetryBase * 2 ^ (n - 1)
    IN  IF delay \in 1 .. RetryMax THEN delay ELSE RetryMax

Issued == {attempts[j][n].token : j \in Jobs, n \in Numbers} \ {NoToken}

\* Mutants of the fence: it forgets the expiry, or the token.
ActiveLeaseForEver(j, n, token) ==
    /\ jobs[j].status \in {"running", "cancel_requested"}
    /\ jobs[j].attempt_count = n
    /\ attempts[j][n].status = "running"
    /\ attempts[j][n].token = token

ActiveLeaseOfAnyone(j, n, token) ==
    /\ jobs[j].status \in {"running", "cancel_requested"}
    /\ jobs[j].attempt_count = n
    /\ attempts[j][n].status = "running"
    /\ attempts[j][n].lease_expires_at > now

\* _lock_active_lease: the test every fenced method makes under the row locks.
ActiveLease(j, n, token) ==
    /\ jobs[j].status \in {"running", "cancel_requested"}
    /\ jobs[j].attempt_count = n
    /\ attempts[j][n].status = "running"
    /\ attempts[j][n].token = token
    /\ attempts[j][n].lease_expires_at > now

\* transition_to and the columns _update_job writes; created_at stays.
TransitionTo(j, status, count, available, at) ==
    [status |-> status, attempt_count |-> count, available_at |-> available,
     created_at |-> jobs[j].created_at, updated_at |-> at]

\* A transition that neither claims the job nor reschedules it.
Moved(j, status, at) ==
    TransitionTo(j, status, jobs[j].attempt_count, jobs[j].available_at, at)

\* A transition back to the queue, to be claimed again after a delay.
Requeued(j, at, delay) ==
    TransitionTo(j, "queued", jobs[j].attempt_count, at + delay, at)

\* _finish_attempt
Finished(a, status, at) ==
    [status |-> status, token |-> a.token, started_at |-> a.started_at,
     heartbeat_at |-> a.heartbeat_at, lease_expires_at |-> a.lease_expires_at,
     finished_at |-> at]

\* The attempt row a claim inserts and, with an earlier start, a heartbeat leaves.
Leased(token, started) ==
    [status |-> "running", token |-> token, started_at |-> started,
     heartbeat_at |-> now, lease_expires_at |-> now + LeaseSeconds,
     finished_at |-> Never]

\* One method's writes to the job row and its attempt row.
Settle(j, n, job, status) ==
    /\ jobs' = [jobs EXCEPT ![j] = job]
    /\ attempts' = [attempts EXCEPT
                        ![j][n] = Finished(attempts[j][n], status, TransitionAt(j))]

\* _cancel_active_attempt
CancelActiveAttempt(j, n) ==
    /\ Settle(j, n, Moved(j, "canceled", TransitionAt(j)), "canceled")
    /\ UNCHANGED evidence

(***************************************************************************)
(* The API's methods                                                       *)
(***************************************************************************)

\* begin_job: the API process stamps the row with its own clock.
BeginJob(j) ==
    /\ jobs[j].status = Absent
    /\ \E at \in Nat \cap ((now - ClockSkew) .. (now + ClockSkew)) :
          jobs' = [jobs EXCEPT ![j] =
                      [status |-> "queued", attempt_count |-> 0,
                       available_at |-> at, created_at |-> at, updated_at |-> at]]
    /\ UNCHANGED <<now, attempts, evidence>>

\* cancel_job: queued work ends at once, running work is asked to stop.
CancelJob(j) ==
    /\ \/ /\ jobs[j].status = "queued"
          /\ jobs' = [jobs EXCEPT ![j] = Moved(j, "canceled", TransitionAt(j))]
       \/ /\ jobs[j].status = "running"
          /\ attempts[j][jobs[j].attempt_count].status = "running"
          /\ jobs' = [jobs EXCEPT
                         ![j] = Moved(j, "cancel_requested", TransitionAt(j))]
    /\ UNCHANGED <<now, attempts, evidence>>

(***************************************************************************)
(* The worker's methods                                                    *)
(***************************************************************************)

Claimable(j) == jobs[j].status = "queued" /\ jobs[j].available_at <= now

\* ORDER BY available_at, created_at; ties go to the job_id, here to any.
NoLater(i, j) ==
    \/ jobs[i].available_at < jobs[j].available_at
    \/ /\ jobs[i].available_at = jobs[j].available_at
       /\ jobs[i].created_at <= jobs[j].created_at

\* claim_next_job: the oldest available row that no other transaction holds
\* (SKIP LOCKED passes over the rows in "locked"), with a fresh token.
ClaimNextJob(token) ==
    /\ token \in Tokens \ Issued
    /\ \E locked \in SUBSET Jobs : \E j \in Jobs \ locked :
          /\ Claimable(j)
          /\ \A i \in Jobs \ locked : Claimable(i) => NoLater(j, i)
          /\ jobs[j].attempt_count < MaxAttempts
          /\ LET n == jobs[j].attempt_count + 1
             IN  /\ jobs' = [jobs EXCEPT ![j] =
                        TransitionTo(j, "running", n, jobs[j].available_at,
                                     TransitionAt(j))]
                 /\ attempts' = [attempts EXCEPT ![j][n] = Leased(token, now)]
    /\ UNCHANGED <<now, evidence>>

\* heartbeat_job: the attempt row only; the job row is read for its status.
HeartbeatJob(j, n, token) ==
    /\ ActiveLease(j, n, token)
    /\ attempts' = [attempts EXCEPT
                        ![j][n] = Leased(token, attempts[j][n].started_at)]
    /\ UNCHANGED <<now, jobs, evidence>>

\* What retry_job, fail_job and the completions do once a cancellation is
\* requested: they end the attempt as canceled.
CancelInstead(j, n) ==
    /\ jobs[j].status = "cancel_requested"
    /\ CancelActiveAttempt(j, n)

RetryJob(j, n, token, delay) ==
    /\ ActiveLease(j, n, token)
    /\ \/ CancelInstead(j, n)
       \/ /\ jobs[j].status = "running"
          /\ jobs[j].attempt_count < MaxAttempts
          /\ Settle(j, n, Requeued(j, TransitionAt(j), delay), "retry_scheduled")
          /\ UNCHANGED evidence
    /\ UNCHANGED now

FailJob(j, n, token) ==
    /\ ActiveLease(j, n, token)
    /\ \/ CancelInstead(j, n)
       \/ /\ jobs[j].status = "running"
          /\ Settle(j, n, Moved(j, "failed", TransitionAt(j)), "failed")
          /\ UNCHANGED evidence
    /\ UNCHANGED now

\* acknowledge_cancellation
AcknowledgeCancellation(j, n, token) ==
    /\ ActiveLease(j, n, token)
    /\ jobs[j].status = "cancel_requested"
    /\ CancelActiveAttempt(j, n)
    /\ UNCHANGED now

\* complete_run and complete_release_decision: the document, the attempt and
\* the job in one transaction.  A call repeated after success changes nothing.
CompleteJob(j, n, token, document) ==
    /\ ActiveLease(j, n, token)
    /\ \/ CancelInstead(j, n)
       \/ /\ jobs[j].status = "running"
          /\ evidence[j].document \in {NoDocument, document}
          /\ evidence' = [evidence EXCEPT ![j] =
                            [author |-> token, document |-> document]]
          /\ Settle(j, n, Moved(j, "succeeded", TransitionAt(j)), "succeeded")
    /\ UNCHANGED now

(***************************************************************************)
(* The reaper                                                              *)
(***************************************************************************)

ExpiredLease(j) ==
    LET n == jobs[j].attempt_count
    IN  /\ jobs[j].status \in {"running", "cancel_requested"}
        /\ attempts[j][n].status = "running"
        /\ attempts[j][n].lease_expires_at <= now

\* Mutants: the attempt limit is off by one; cancellation requests are
\* forgotten.
ReapedJobOnceMore(j) ==
    LET n == jobs[j].attempt_count
        at == TransitionAt(j)
    IN  IF jobs[j].status = "cancel_requested" THEN Moved(j, "canceled", at)
        ELSE IF n > MaxAttempts THEN Moved(j, "failed", at)
        ELSE Requeued(j, at, Backoff(n))

ReapedJobUncanceled(j) ==
    LET n == jobs[j].attempt_count
        at == TransitionAt(j)
    IN  IF n >= MaxAttempts THEN Moved(j, "failed", at)
        ELSE Requeued(j, at, Backoff(n))

\* The job row the reaper leaves: canceled, failed or queued again.
ReapedJob(j) ==
    LET n == jobs[j].attempt_count
        at == TransitionAt(j)
    IN  IF jobs[j].status = "cancel_requested" THEN Moved(j, "canceled", at)
        ELSE IF n >= MaxAttempts THEN Moved(j, "failed", at)
        ELSE Requeued(j, at, Backoff(n))

ReapedAttempt(j) ==
    IF jobs[j].status = "cancel_requested" THEN "canceled" ELSE "lease_expired"

\* Mutant: the job update has lost its WHERE clause.
ReapEveryJob ==
    /\ \E batch \in SUBSET {j \in Jobs : ExpiredLease(j)} :
          /\ batch # {}
          /\ Cardinality(batch) <= ReapLimit
          /\ jobs' = [j \in Jobs |->
                IF jobs[j].attempt_count # 0 THEN ReapedJob(j) ELSE jobs[j]]
          /\ UNCHANGED attempts
    /\ UNCHANGED <<now, evidence>>

\* reap_expired_jobs: one transaction for a batch; SKIP LOCKED can leave out
\* any expired attempt, so the batch is any set of them up to the limit.
ReapExpiredJobs ==
    /\ \E batch \in SUBSET {j \in Jobs : ExpiredLease(j)} :
          /\ batch # {}
          /\ Cardinality(batch) <= ReapLimit
          /\ jobs' = [j \in Jobs |-> IF j \in batch THEN ReapedJob(j) ELSE jobs[j]]
          /\ attempts' = [j \in Jobs |->
                IF j \in batch
                THEN LET n == jobs[j].attempt_count
                     IN  [attempts[j] EXCEPT ![n] =
                             Finished(@, ReapedAttempt(j), TransitionAt(j))]
                ELSE attempts[j]]
    /\ UNCHANGED <<now, evidence>>

\* The database clock; MaxTime bounds it.
Tick ==
    /\ now < MaxTime
    /\ now' = now + 1
    /\ UNCHANGED <<jobs, attempts, evidence>>

Init ==
    /\ now = 0
    /\ jobs = [j \in Jobs |-> NoJob]
    /\ attempts = [j \in Jobs |-> [n \in Numbers |-> NoAttempt]]
    /\ evidence = [j \in Jobs |-> NoEvidence]

\* A fenced call: the holder of an issued token, about any attempt number.
FencedCall ==
    \E j \in Jobs, n \in Numbers : \E token \in Issued :
        \/ HeartbeatJob(j, n, token)
        \/ \E delay \in RetryDelays : RetryJob(j, n, token, delay)
        \/ FailJob(j, n, token)
        \/ AcknowledgeCancellation(j, n, token)
        \/ \E document \in Documents : CompleteJob(j, n, token, document)

Next ==
    \/ \E j \in Jobs : BeginJob(j) \/ CancelJob(j)
    \/ \E token \in Tokens : ClaimNextJob(token)
    \/ FencedCall
    \/ ReapExpiredJobs
    \/ Tick

Spec == Init /\ [][Next]_vars

(***************************************************************************)
(* Safety                                                                  *)
(***************************************************************************)

Active(j) == jobs[j].status \in {"running", "cancel_requested"}

RunsCurrentAttempt(j) ==
    \A n \in Numbers :
        attempts[j][n].status = "running" <=>
            Active(j) /\ n = jobs[j].attempt_count

\* An attempt is running exactly when its job is active and it is the job's
\* latest attempt: the partial unique index on running attempts, which would
\* turn a claim into an IntegrityError, never has anything to refuse.
RunningAttemptIsCurrent == \A j \in Jobs : RunsCurrentAttempt(j)

History(j) ==
    LET count == jobs[j].attempt_count
        last == attempts[j][count].status
    IN  /\ \A n \in Numbers :
             /\ attempts[j][n].status = Absent <=> n > count
             /\ n < count =>
                  attempts[j][n].status \in {"retry_scheduled", "lease_expired"}
        /\ count = 0 => jobs[j].status \in {Absent, "queued", "canceled"}
        /\ count > 0 =>
             /\ jobs[j].status # Absent
             /\ jobs[j].status = "succeeded" <=> last = "succeeded"
             /\ jobs[j].status = "failed" =>
                  \/ last = "failed"
                  \/ last = "lease_expired" /\ count = MaxAttempts
             /\ last = "failed" => jobs[j].status = "failed"
             /\ last = "canceled" => jobs[j].status = "canceled"
             /\ jobs[j].status = "queued" =>
                  /\ count < MaxAttempts
                  /\ last \in {"retry_scheduled", "lease_expired"}

\* The attempts of a job are numbered 1 .. attempt_count without a gap, as
\* list_job_attempts requires; every attempt but the last ended in a way that
\* allows another; and the last one explains the status of the job.
HistoryExplainsJob == \A j \in Jobs : History(j)

Timeline(j) ==
    \A n \in Numbers :
        LET a == attempts[j][n]
        IN  /\ a.status # Absent =>
                 /\ a.started_at <= a.heartbeat_at
                 /\ a.heartbeat_at < a.lease_expires_at
            /\ a.status \in {"succeeded", "failed", "retry_scheduled"} =>
                 /\ a.heartbeat_at <= a.finished_at
                 /\ a.finished_at < a.lease_expires_at
            /\ a.status = "lease_expired" => a.lease_expires_at <= a.finished_at
            /\ (n > 1 /\ a.status # Absent) =>
                 /\ attempts[j][n - 1].finished_at # Never
                 /\ attempts[j][n - 1].finished_at < a.started_at

\* Two attempts of a job never overlap in time, an attempt settled by its
\* worker was settled before its lease ran out, and one taken by the reaper
\* was not: on the database clock there is one owner at a time.
LeasesDoNotOverlap == \A j \in Jobs : Timeline(j)

Backoffs(j) ==
    \A n \in Numbers :
        (n > 1 /\ attempts[j][n].status # Absent
            /\ attempts[j][n - 1].status = "lease_expired") =>
          \E wait \in {RetryMax, RetryBase * 2 ^ (n - 2)} :
             attempts[j][n - 1].finished_at + wait <= attempts[j][n].started_at

\* A job the reaper returned to the queue is left alone for retry_base seconds before
\* its second attempt, for twice as long before each further one, or for retry_max
\* seconds ("bounded backoff", docs/adr/0007-leased-workers-and-fenced-publication.md).
BackoffIsServed == \A j \in Jobs : Backoffs(j)

Published(j) ==
    /\ jobs[j].status = "succeeded" <=> evidence[j] # NoEvidence
    /\ jobs[j].status = "succeeded" =>
         /\ evidence[j].document # NoDocument
         /\ evidence[j].author = attempts[j][jobs[j].attempt_count].token

\* Evidence exists exactly for succeeded jobs, and it is what the owner of the
\* attempt that succeeded published, never what a stale owner sent.
EvidenceIsTheOwners == \A j \in Jobs : Published(j)

Clock(j) ==
    LET count == jobs[j].attempt_count
    IN  /\ count > 0 => jobs[j].updated_at <= now
        /\ (jobs[j].status = "queued" /\ count = 0) =>
             jobs[j].updated_at = jobs[j].available_at
        /\ \A n \in Numbers :
             LET a == attempts[j][n]
             IN  /\ a.heartbeat_at <= now /\ a.finished_at <= now
                 /\ a.finished_at = Never <=> a.status \in {Absent, "running"}
        /\ (jobs[j].status = "queued" /\ count > 0) =>
             LET a == attempts[j][count]
             IN  /\ a.finished_at < jobs[j].available_at
                 /\ a.status = "lease_expired" =>
                      a.finished_at + Backoff(count) <= jobs[j].available_at

\* Once a job has been claimed its row is never stamped ahead of the database
\* clock, although the API process stamped it with its own; and a job back in
\* the queue is due after the end of its last attempt.
ClockIsTheDatabases == \A j \in Jobs : Clock(j)

\* JobRecord.validate_state and the CHECK constraints of control_plane_jobs.
ValidateState(job) ==
    /\ job.updated_at >= job.created_at
    /\ job.available_at >= job.created_at
    /\ job.attempt_count <= MaxAttempts
    /\ job.status = "queued" => job.attempt_count < MaxAttempts
    /\ job.status \in {"running", "cancel_requested", "succeeded", "failed"} =>
         job.attempt_count > 0

\* JobAttemptRecord.validate_attempt and the constraints of its table.
ValidateAttempt(a) ==
    /\ a.heartbeat_at >= a.started_at
    /\ a.lease_expires_at > a.heartbeat_at
    /\ a.status = "running" <=> a.finished_at = Never
    /\ a.finished_at # Never => a.finished_at >= a.heartbeat_at

\* ux_control_plane_job_attempts_active_job and the unique lease tokens of a job.
UniqueAttempts(j) ==
    \A m, n \in Numbers :
        (m # n /\ Absent \notin {attempts[j][m].status, attempts[j][n].status}) =>
            /\ attempts[j][m].token # attempts[j][n].token
            /\ ~ (attempts[j][m].status = "running" /\ attempts[j][n].status = "running")

\* Every row a method leaves, whatever mixture of API clock, database clock,
\* delays and late calls its columns come from, is one the constraints of the
\* tables and the domain records accept: no write ends in an IntegrityError and
\* no job becomes unreadable to the API and the workers.
RowsAreAccepted ==
    \A j \in Jobs :
        /\ jobs[j].status # Absent => ValidateState(jobs[j])
        /\ \A n \in Numbers :
             attempts[j][n].status # Absent => ValidateAttempt(attempts[j][n])
        /\ UniqueAttempts(j)

JobInvariant(j) ==
    RunsCurrentAttempt(j) /\ History(j) /\ Timeline(j) /\ Backoffs(j)
        /\ Published(j) /\ Clock(j)

\* The inductive invariant: what one job's rows satisfy between transactions.
IInv == TypeOK /\ \A j \in Jobs : JobInvariant(j)

\* What the constraints ask of the columns beyond IInv: no row is stamped before it was
\* created, no attempt ends before its last heartbeat, and no token is issued twice.
Accepted(j) ==
    /\ jobs[j].status # Absent =>
         /\ jobs[j].created_at <= jobs[j].updated_at
         /\ jobs[j].created_at <= jobs[j].available_at
    /\ \A n \in Numbers :
         LET a == attempts[j][n]
         IN  /\ a.finished_at # Never => a.heartbeat_at <= a.finished_at
             /\ a.status # Absent => a.token # NoToken
    /\ \A m, n \in Numbers :
         (m # n /\ Absent \notin {attempts[j][m].status, attempts[j][n].status}) =>
            attempts[j][m].token # attempts[j][n].token

AcceptedIInv == IInv /\ \A j \in Jobs : Accepted(j)

(***************************************************************************)
(* What a step may never do                                                *)
(***************************************************************************)

\* A job that ended keeps its row, its history and its evidence for ever.
TerminalIsFinal ==
    [][\A j \in Jobs : jobs[j].status \in Terminal =>
          /\ jobs'[j] = jobs[j]
          /\ attempts'[j] = attempts[j]
          /\ evidence'[j] = evidence[j]]_vars

\* Cancellation wins: from cancel_requested a job can only become canceled,
\* whatever its worker reports, and no evidence is inserted.
CancellationWins ==
    [][\A j \in Jobs : jobs[j].status = "cancel_requested" =>
          /\ jobs'[j].status \in {"cancel_requested", "canceled"}
          /\ evidence'[j] = evidence[j]]_vars

\* When its lease has run out an attempt can be neither extended nor settled by
\* its worker: only the reaper's verdict is left.
ExpiredOwnerIsPowerless ==
    [][\A j \in Jobs, n \in Numbers :
          (attempts[j][n].status = "running"
              /\ attempts[j][n].lease_expires_at <= now) =>
            \/ attempts'[j][n] = attempts[j][n]
            \/ attempts'[j][n].status =
                 (IF jobs[j].status = "cancel_requested" THEN "canceled"
                  ELSE "lease_expired")]_vars
=============================================================================
