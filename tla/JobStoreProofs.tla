--------------------------- MODULE JobStoreProofs ---------------------------
(***************************************************************************)
(* Machine-checked theorems about JobStore, for every value of its         *)
(* constants: its types, its inductive invariant, the safety properties    *)
(* that follow, and that it implements LeaseQueue.                         *)
(*                                                                         *)
(* Every action changes the rows of one job, the reaper those of a batch,  *)
(* so the invariant is a conjunction over the jobs and the proof is about  *)
(* one job: its rows stay as they are while the clock may advance          *)
(* (Untouched), are submitted (Begun), claimed (Claimed), extended         *)
(* (Extended), asked to stop (CancelAsked) or settled (Settled).           *)
(*                                                                         *)
(* The invariants then follow from IInv, and the action properties from    *)
(* IInv and one fact for each kind of transaction, which rows it can       *)
(* write.                                                                  *)
(***************************************************************************)
EXTENDS JobStoreRefinement, TLAPS

(***************************************************************************)
(* Lemmas about the helpers                                                *)
(***************************************************************************)

\* The retry delay is a positive number whatever the attempt number.
LEMMA BackoffPositive ==
    ASSUME NEW n
    PROVE  Backoff(n) \in Nat /\ Backoff(n) >= 1
  <1>1. Backoff(n) \in 1 .. RetryMax \/ Backoff(n) = RetryMax
    BY DEF Backoff
  <1> QED
    BY <1>1, JobStoreAssumption

\* The retry delay doubles with each attempt up to the maximum.
LEMMA BackoffDoubles ==
    ASSUME NEW n \in Numbers, n > 1
    PROVE  Backoff(n - 1) \in {RetryMax, RetryBase * 2 ^ (n - 2)}
  <1>1. (n - 1) - 1 = n - 2
    BY JobStoreAssumption DEF Numbers
  <1> QED
    BY <1>1 DEF Backoff

\* A transition is stamped at the present or later, never before the last update.
LEMMA TransitionAtIsNat ==
    ASSUME TypeOK, NEW j \in Jobs
    PROVE  /\ TransitionAt(j) \in Nat
           /\ TransitionAt(j) >= now
           /\ TransitionAt(j) >= jobs[j].updated_at
  BY DEF TypeOK, JobRow, TransitionAt, Later

\* The columns of a job row have their types.
LEMMA JobColumns ==
    ASSUME TypeOK, NEW j \in Jobs
    PROVE  /\ jobs[j] \in JobRow
           /\ jobs[j].attempt_count \in 0 .. MaxAttempts
           /\ jobs[j].attempt_count \in Nat
           /\ jobs[j].available_at \in Nat
           /\ jobs[j].created_at \in Nat
           /\ jobs[j].updated_at \in Nat
  BY JobStoreAssumption DEF TypeOK, JobRow

\* transition_to keeps the type of the row.
LEMMA TransitionToType ==
    ASSUME TypeOK, NEW j \in Jobs, NEW s \in JobStatus,
           NEW count \in 0 .. MaxAttempts, NEW available \in Nat, NEW at \in Nat
    PROVE  TransitionTo(j, s, count, available, at) \in JobRow
  BY JobColumns DEF JobRow, TransitionTo

\* A job row keeps its type when its status and update time change.
LEMMA MovedType ==
    ASSUME TypeOK, NEW j \in Jobs, NEW s \in JobStatus, NEW at \in Nat
    PROVE  Moved(j, s, at) \in JobRow
  BY TransitionToType, JobColumns DEF Moved

\* A job row keeps its type when the job returns to the queue.
LEMMA RequeuedType ==
    ASSUME TypeOK, NEW j \in Jobs, NEW at \in Nat, NEW delay \in Nat
    PROVE  Requeued(j, at, delay) \in JobRow
  <1>1. "queued" \in JobStatus /\ at + delay \in Nat
    BY DEF JobStatus
  <1> QED
    BY <1>1, TransitionToType, JobColumns DEF Requeued

\* An attempt row keeps its type when the attempt ends.
LEMMA FinishedType ==
    ASSUME NEW a \in AttemptRow, NEW s \in AttemptStatus, NEW at \in Nat
    PROVE  Finished(a, s, at) \in AttemptRow
  BY DEF AttemptRow, Finished, Times

\* The row of a claim or of a heartbeat has the type of an attempt row.
LEMMA LeasedType ==
    ASSUME TypeOK, NEW token \in Tokens, NEW started \in Nat
    PROVE  Leased(token, started) \in AttemptRow
  <1>1. now \in Nat /\ now + LeaseSeconds \in Nat /\ Never \in Times
    BY JobStoreAssumption DEF TypeOK, Times
  <1>2. "running" \in AttemptStatus
    BY DEF AttemptStatus
  <1> QED
    BY <1>1, <1>2 DEF AttemptRow, Leased

\* Settling an attempt keeps the types of both tables.
LEMMA SettleType ==
    ASSUME TypeOK, NEW j \in Jobs, NEW n \in Numbers, NEW s \in AttemptStatus,
           NEW row \in JobRow, Settle(j, n, row, s)
    PROVE  /\ jobs' \in [Jobs -> JobRow]
           /\ attempts' \in [Jobs -> [Numbers -> AttemptRow]]
  <1>1. Finished(attempts[j][n], s, TransitionAt(j)) \in AttemptRow
    BY FinishedType, TransitionAtIsNat DEF TypeOK
  <1> QED
    BY <1>1 DEF TypeOK, Settle

\* The reaper's row for a job and its attempt have their types.
LEMMA ReapedType ==
    ASSUME TypeOK, NEW j \in Jobs
    PROVE  /\ ReapedJob(j) \in JobRow
           /\ ReapedAttempt(j) \in AttemptStatus
  <1>1. ReapedAttempt(j) \in AttemptStatus
    BY DEF ReapedAttempt, AttemptStatus
  <1>2. /\ Moved(j, "canceled", TransitionAt(j)) \in JobRow
        /\ Moved(j, "failed", TransitionAt(j)) \in JobRow
    BY MovedType, TransitionAtIsNat DEF JobStatus
  <1>3. Requeued(j, TransitionAt(j), Backoff(jobs[j].attempt_count)) \in JobRow
    BY BackoffPositive, RequeuedType, TransitionAtIsNat
  <1> QED
    BY <1>1, <1>2, <1>3 DEF ReapedJob

\* A caller's token is a token: issued tokens are those of attempt rows.
LEMMA IssuedAreTokens ==
    ASSUME TypeOK PROVE Issued \subseteq Tokens
  BY DEF TypeOK, AttemptRow, Issued

(***************************************************************************)
(* Type correctness                                                        *)
(***************************************************************************)

\* Ending an attempt and canceling its job, as several methods do.
LEMMA CancelActiveAttemptType ==
    ASSUME TypeOK, NEW j \in Jobs, NEW n \in Numbers, CancelActiveAttempt(j, n),
           UNCHANGED now
    PROVE  TypeOK'
  <1>1. Moved(j, "canceled", TransitionAt(j)) \in JobRow /\ "canceled" \in AttemptStatus
    BY MovedType, TransitionAtIsNat DEF JobStatus, AttemptStatus
  <1> QED
    BY <1>1, SettleType DEF CancelActiveAttempt, TypeOK

\* Every fenced method keeps the types of the tables.
LEMMA FencedCallType ==
    ASSUME TypeOK, FencedCall
    PROVE  TypeOK'
  <1>1. PICK j \in Jobs, n \in Numbers, token \in Tokens :
            \/ HeartbeatJob(j, n, token)
            \/ \E delay \in RetryDelays : RetryJob(j, n, token, delay)
            \/ FailJob(j, n, token)
            \/ AcknowledgeCancellation(j, n, token)
            \/ \E document \in Documents : CompleteJob(j, n, token, document)
    BY IssuedAreTokens DEF FencedCall
  <1>2. CASE HeartbeatJob(j, n, token)
    <2>1. attempts[j][n].started_at \in Nat
      BY DEF TypeOK, AttemptRow
    <2>2. Leased(token, attempts[j][n].started_at) \in AttemptRow
      BY <2>1, LeasedType
    <2> QED
      BY <1>2, <2>2 DEF HeartbeatJob, TypeOK
  <1>3. ASSUME CancelInstead(j, n), UNCHANGED now
        PROVE  TypeOK'
    BY <1>3, CancelActiveAttemptType DEF CancelInstead
  <1>4. ASSUME NEW delay \in RetryDelays, RetryJob(j, n, token, delay)
        PROVE  TypeOK'
    <2>1. delay \in Nat
      BY JobStoreAssumption
    <2>2. Requeued(j, TransitionAt(j), delay) \in JobRow
      BY <2>1, RequeuedType, TransitionAtIsNat
    <2>3. "retry_scheduled" \in AttemptStatus
      BY DEF AttemptStatus
    <2>4. CASE CancelInstead(j, n)
      BY <1>3, <1>4, <2>4 DEF RetryJob
    <2>5. CASE ~CancelInstead(j, n)
      BY <1>4, <2>2, <2>3, <2>5, SettleType DEF RetryJob, TypeOK
    <2> QED
      BY <2>4, <2>5
  <1>5. CASE FailJob(j, n, token)
    <2>1. Moved(j, "failed", TransitionAt(j)) \in JobRow /\ "failed" \in AttemptStatus
      BY MovedType, TransitionAtIsNat DEF JobStatus, AttemptStatus
    <2>2. CASE CancelInstead(j, n)
      BY <1>3, <1>5, <2>2 DEF FailJob
    <2>3. CASE ~CancelInstead(j, n)
      BY <1>5, <2>1, <2>3, SettleType DEF FailJob, TypeOK
    <2> QED
      BY <2>2, <2>3
  <1>6. CASE AcknowledgeCancellation(j, n, token)
    BY <1>6, CancelActiveAttemptType DEF AcknowledgeCancellation
  <1>7. ASSUME NEW document \in Documents, CompleteJob(j, n, token, document)
        PROVE  TypeOK'
    <2>1. /\ Moved(j, "succeeded", TransitionAt(j)) \in JobRow
          /\ "succeeded" \in AttemptStatus
      BY MovedType, TransitionAtIsNat DEF JobStatus, AttemptStatus
    <2>2. [author |-> token, document |-> document] \in EvidenceRow
      BY DEF EvidenceRow
    <2>3. CASE CancelInstead(j, n)
      BY <1>3, <1>7, <2>3 DEF CompleteJob
    <2>4. CASE ~CancelInstead(j, n)
      BY <1>7, <2>1, <2>2, <2>4, SettleType DEF CompleteJob, TypeOK
    <2> QED
      BY <2>3, <2>4
  <1> QED
    BY <1>1, <1>2, <1>4, <1>5, <1>6, <1>7

\* Migrated tables, without rows, have their types.
LEMMA InitType == Init => TypeOK
  <1>1. NoJob \in JobRow
    BY JobStoreAssumption DEF NoJob, JobRow
  <1>2. NoAttempt \in AttemptRow
    BY DEF NoAttempt, AttemptRow, Times
  <1>3. NoEvidence \in EvidenceRow
    BY DEF NoEvidence, EvidenceRow
  <1> QED
    BY <1>1, <1>2, <1>3 DEF Init, TypeOK

\* No transaction breaks the type of a row.
LEMMA NextType == TypeOK /\ [Next]_vars => TypeOK'
  <1> SUFFICES ASSUME TypeOK, [Next]_vars
               PROVE  TypeOK'
    OBVIOUS
  <1>1. ASSUME NEW j \in Jobs, BeginJob(j)
        PROVE  TypeOK'
    <2>1. PICK at \in Nat :
              jobs' = [jobs EXCEPT ![j] =
                         [status |-> "queued", attempt_count |-> 0,
                          available_at |-> at, created_at |-> at,
                          updated_at |-> at]]
      BY <1>1 DEF BeginJob
    <2>2. [status |-> "queued", attempt_count |-> 0, available_at |-> at,
           created_at |-> at, updated_at |-> at] \in JobRow
      BY JobStoreAssumption DEF JobRow, JobStatus
    <2> QED
      BY <1>1, <2>1, <2>2 DEF BeginJob, TypeOK
  <1>2. ASSUME NEW j \in Jobs, CancelJob(j)
        PROVE  TypeOK'
    <2>1. /\ Moved(j, "canceled", TransitionAt(j)) \in JobRow
          /\ Moved(j, "cancel_requested", TransitionAt(j)) \in JobRow
      BY MovedType, TransitionAtIsNat DEF JobStatus
    <2> QED
      BY <1>2, <2>1 DEF CancelJob, TypeOK
  <1>3. ASSUME NEW token \in Tokens, ClaimNextJob(token)
        PROVE  TypeOK'
    <2> DEFINE N(j) == jobs[j].attempt_count + 1
               Row(j) == TransitionTo(j, "running", N(j), jobs[j].available_at,
                                      TransitionAt(j))
    <2>1. PICK j \in Jobs :
              /\ jobs[j].attempt_count < MaxAttempts
              /\ jobs' = [jobs EXCEPT ![j] = Row(j)]
              /\ attempts' = [attempts EXCEPT ![j][N(j)] = Leased(token, now)]
      BY <1>3 DEF ClaimNextJob
    <2>2. N(j) \in Numbers /\ N(j) \in 0 .. MaxAttempts
      BY <2>1, JobColumns, JobStoreAssumption DEF Numbers
    <2>3. Row(j) \in JobRow
      BY <2>2, TransitionToType, TransitionAtIsNat, JobColumns DEF JobStatus
    <2>4. Leased(token, now) \in AttemptRow
      BY LeasedType DEF TypeOK
    <2>5. UNCHANGED <<now, evidence>>
      BY <1>3 DEF ClaimNextJob
    <2> HIDE DEF N, Row
    <2> QED
      BY <2>1, <2>2, <2>3, <2>4, <2>5 DEF TypeOK
  <1>4. CASE FencedCall
    BY <1>4, FencedCallType
  <1>5. CASE ReapExpiredJobs
    <2>1. PICK batch \in SUBSET {j \in Jobs : ExpiredLease(j)} :
            /\ jobs' = [j \in Jobs |->
                          IF j \in batch THEN ReapedJob(j) ELSE jobs[j]]
            /\ attempts' = [j \in Jobs |->
                  IF j \in batch
                  THEN [attempts[j] EXCEPT ![jobs[j].attempt_count] =
                           Finished(@, ReapedAttempt(j), TransitionAt(j))]
                  ELSE attempts[j]]
      BY <1>5 DEF ReapExpiredJobs
    <2>2. jobs' \in [Jobs -> JobRow]
      BY <2>1, ReapedType DEF TypeOK
    <2>3. ASSUME NEW j \in Jobs
          PROVE  [attempts[j] EXCEPT ![jobs[j].attempt_count] =
                     Finished(@, ReapedAttempt(j), TransitionAt(j))]
                       \in [Numbers -> AttemptRow]
      <3>1. ASSUME NEW n \in Numbers
            PROVE  Finished(attempts[j][n], ReapedAttempt(j), TransitionAt(j))
                      \in AttemptRow
        BY FinishedType, ReapedType, TransitionAtIsNat DEF TypeOK
      <3> QED
        BY <3>1 DEF TypeOK
    <2>4. attempts' \in [Jobs -> [Numbers -> AttemptRow]]
      BY <2>1, <2>3 DEF TypeOK
    <2> QED
      BY <1>5, <2>2, <2>4 DEF ReapExpiredJobs, TypeOK
  <1>6. CASE Tick
    BY <1>6 DEF Tick, TypeOK
  <1>7. CASE UNCHANGED vars
    BY <1>7 DEF vars, TypeOK
  <1> QED
    BY <1>1, <1>2, <1>3, <1>4, <1>5, <1>6, <1>7 DEF Next

\* The tables hold rows of their types in every reachable state.
THEOREM TypeCorrect == Spec => []TypeOK
  BY InitType, NextType, PTL DEF Spec

(***************************************************************************)
(* What can happen to the rows of one job                                  *)
(***************************************************************************)

\* The number before an attempt number that is not above n.
LEMMA Predecessor ==
    ASSUME NEW m \in Numbers, NEW n \in Numbers
    PROVE  /\ m > 1 /\ ~(m > n) => m - 1 \in Numbers /\ m - 1 # n
           /\ m > n - 1 <=> m >= n
           /\ m < n <=> m < n - 1 \/ m = n - 1
  BY JobStoreAssumption, SMTT(30) DEF Numbers

\* The attempt rows of a job have their types.
LEMMA AttemptColumns ==
    ASSUME TypeOK, NEW j \in Jobs, NEW n \in Numbers
    PROVE  /\ attempts[j][n] \in AttemptRow
           /\ attempts[j][n].started_at \in Nat
           /\ attempts[j][n].heartbeat_at \in Nat
           /\ attempts[j][n].lease_expires_at \in Nat
           /\ attempts[j][n].finished_at \in Int
           /\ attempts[j][n].finished_at # Never => attempts[j][n].finished_at \in Nat
  BY DEF TypeOK, AttemptRow, Times, Never

\* Time alone never breaks the invariant of a job.
LEMMA Untouched ==
    ASSUME TypeOK, NEW j \in Jobs, JobInvariant(j),
           jobs'[j] = jobs[j], attempts'[j] = attempts[j], evidence'[j] = evidence[j],
           now' \in Nat, now' >= now
    PROVE  JobInvariant(j)'
  <1>1. RunsCurrentAttempt(j)'
    BY DEF JobInvariant, RunsCurrentAttempt, Active
  <1>2. History(j)'
    BY DEF JobInvariant, History
  <1>3. Timeline(j)'
    BY DEF JobInvariant, Timeline
  <1>4. Backoffs(j)'
    BY DEF JobInvariant, Backoffs
  <1>5. Published(j)'
    BY DEF JobInvariant, Published
  <1>6. Clock(j)'
    <2>1. now \in Nat /\ jobs[j].updated_at \in Nat
      BY JobColumns DEF TypeOK
    <2>2. ASSUME NEW n \in Numbers
          PROVE  /\ attempts[j][n].heartbeat_at \in Nat
                 /\ attempts[j][n].finished_at \in Int
      BY AttemptColumns
    <2> QED
      BY <2>1, <2>2 DEF JobInvariant, Clock
  <1> QED
    BY <1>1, <1>2, <1>3, <1>4, <1>5, <1>6 DEF JobInvariant

\* An active job is stamped by the database clock alone.
LEMMA ActiveClock ==
    ASSUME TypeOK, NEW j \in Jobs, JobInvariant(j), Active(j)
    PROVE  /\ jobs[j].attempt_count \in Numbers
           /\ TransitionAt(j) = now
           /\ attempts[j][jobs[j].attempt_count].status = "running"
           /\ jobs[j].status # "succeeded"
           /\ evidence[j] = NoEvidence
  <1>1. jobs[j].attempt_count \in Numbers
    BY JobColumns DEF JobInvariant, History, Active, Numbers, Absent
  <1>2. TransitionAt(j) = now
    BY <1>1, JobColumns, JobStoreAssumption
       DEF JobInvariant, Clock, TransitionAt, Later, TypeOK, Numbers
  <1> QED
    BY <1>1, <1>2 DEF JobInvariant, RunsCurrentAttempt, Published, Active

\* How an attempt and its job may end together: the job's new status, the
\* attempt's, and the time the job is next available.
EndsAs(j, n, st, outcome, available) ==
    /\ outcome \in {"succeeded", "failed", "retry_scheduled"} =>
         attempts[j][n].lease_expires_at > now
    /\ outcome = "lease_expired" => attempts[j][n].lease_expires_at <= now
    /\ \/ st = outcome /\ st \in {"succeeded", "failed", "canceled"}
       \/ st = "failed" /\ outcome = "lease_expired" /\ n = MaxAttempts
       \/ /\ st = "queued" /\ n < MaxAttempts /\ now < available
          /\ \/ outcome = "retry_scheduled"
             \/ outcome = "lease_expired" /\ now + Backoff(n) <= available

\* The columns of the job row after a transition, created_at apart.
JobBecomes(j, st, count, available) ==
    /\ jobs'[j].status = st
    /\ jobs'[j].attempt_count = count
    /\ jobs'[j].available_at = available
    /\ jobs'[j].updated_at = now

\* The columns of the attempt row after it ended; the other attempts stay.
AttemptEnds(j, n, outcome) ==
    /\ \A m \in Numbers : m # n => attempts'[j][m] = attempts[j][m]
    /\ attempts'[j][n].status = outcome
    /\ attempts'[j][n].finished_at = now
    /\ attempts'[j][n].token = attempts[j][n].token
    /\ attempts'[j][n].started_at = attempts[j][n].started_at
    /\ attempts'[j][n].heartbeat_at = attempts[j][n].heartbeat_at
    /\ attempts'[j][n].lease_expires_at = attempts[j][n].lease_expires_at

\* Evidence appears exactly with success, under the owner's token.
EvidenceFollows(j, n, st) ==
    /\ st # "succeeded" => evidence'[j] = evidence[j]
    /\ st = "succeeded" =>
         \E d \in Documents :
            evidence'[j] = [author |-> attempts[j][n].token, document |-> d]

\* Ending the running attempt of an active job keeps the job's invariant.
LEMMA Settled ==
    ASSUME TypeOK, NEW j \in Jobs, JobInvariant(j), Active(j),
           NEW st, NEW outcome, NEW available \in Nat,
           NEW n \in Numbers, n = jobs[j].attempt_count,
           EndsAs(j, n, st, outcome, available), now' = now,
           JobBecomes(j, st, n, available), AttemptEnds(j, n, outcome),
           EvidenceFollows(j, n, st)
    PROVE  JobInvariant(j)'
  <1>1. /\ jobs'[j].status = st /\ jobs'[j].attempt_count = n
        /\ jobs'[j].available_at = available /\ jobs'[j].updated_at = now
    BY DEF JobBecomes
  <1>2. ASSUME NEW m \in Numbers
        PROVE  /\ attempts'[j][m].status =
                     (IF m = n THEN outcome ELSE attempts[j][m].status)
               /\ attempts'[j][m].finished_at =
                     (IF m = n THEN now ELSE attempts[j][m].finished_at)
               /\ attempts'[j][m].token = attempts[j][m].token
               /\ attempts'[j][m].started_at = attempts[j][m].started_at
               /\ attempts'[j][m].heartbeat_at = attempts[j][m].heartbeat_at
               /\ attempts'[j][m].lease_expires_at = attempts[j][m].lease_expires_at
    BY DEF AttemptEnds
  <1>3. /\ st \in {"succeeded", "failed", "canceled", "queued"}
        /\ outcome \in {"succeeded", "failed", "canceled", "retry_scheduled",
                   "lease_expired"}
    BY DEF EndsAs
  <1>4. /\ now \in Nat /\ n \in Nat /\ n > 0
        /\ attempts[j][n].status = "running"
    BY ActiveClock, JobStoreAssumption DEF TypeOK, Numbers
  <1>0. ASSUME NEW m \in Numbers
        PROVE  m \in Nat /\ m > 0 /\ (m > 1 => m - 1 \in Numbers)
    BY JobStoreAssumption DEF Numbers
  <1>5. RunsCurrentAttempt(j)'
    BY <1>1, <1>2, <1>3 DEF JobInvariant, RunsCurrentAttempt, Active
  <1>6. History(j)'
    <2>1. ASSUME NEW m \in Numbers
          PROVE  /\ attempts'[j][m].status = Absent <=> m > n
                 /\ m < n => attempts'[j][m].status
                               \in {"retry_scheduled", "lease_expired"}
      <3>1. /\ attempts[j][m].status = Absent <=> m > n
            /\ m < n => attempts[j][m].status \in {"retry_scheduled", "lease_expired"}
        BY DEF JobInvariant, History
      <3>2. outcome # Absent /\ ~(n > n) /\ ~(n < n)
        BY <1>3, <1>4 DEF Absent
      <3>3. CASE m = n
        <4>1. attempts'[j][m].status = outcome
          BY <1>2, <3>3
        <4> QED
          BY <3>2, <3>3, <4>1
      <3>4. CASE m # n
        <4>1. attempts'[j][m].status = attempts[j][m].status
          BY <1>2, <3>4
        <4> QED
          BY <3>1, <4>1
      <3> QED
        BY <3>3, <3>4
    <2>2. n > 0 /\ n # 0 /\ attempts'[j][n].status = outcome
      BY <1>2, <1>4
    <2>3. /\ st # Absent
          /\ st = "succeeded" <=> outcome = "succeeded"
          /\ st = "failed" => outcome = "failed" \/ (outcome = "lease_expired" /\ n = MaxAttempts)
          /\ outcome = "failed" => st = "failed"
          /\ outcome = "canceled" => st = "canceled"
          /\ st = "queued" => n < MaxAttempts /\ outcome \in {"retry_scheduled", "lease_expired"}
      BY DEF EndsAs, Absent
    <2> QED
      BY <1>1, <2>1, <2>2, <2>3 DEF History
  <1>7. Timeline(j)'
    <2> SUFFICES ASSUME NEW m \in Numbers
                 PROVE  LET a == attempts'[j][m]
                        IN /\ a.status # Absent =>
                                /\ a.started_at <= a.heartbeat_at
                                /\ a.heartbeat_at < a.lease_expires_at
                           /\ a.status \in {"succeeded", "failed", "retry_scheduled"} =>
                                /\ a.heartbeat_at <= a.finished_at
                                /\ a.finished_at < a.lease_expires_at
                           /\ a.status = "lease_expired" =>
                                a.lease_expires_at <= a.finished_at
                           /\ (m > 1 /\ a.status # Absent) =>
                                /\ attempts'[j][m - 1].finished_at # Never
                                /\ attempts'[j][m - 1].finished_at < a.started_at
      BY DEF Timeline
    <2>1. attempts[j][m].heartbeat_at <= now
      BY DEF JobInvariant, Clock
    <2>3. ASSUME m > 1, attempts'[j][m].status # Absent
          PROVE  /\ m - 1 \in Numbers /\ m - 1 # n
                 /\ attempts[j][m].status # Absent
      <3>1. attempts[j][m].status # Absent
        BY <1>2, <1>4, <2>3 DEF Absent
      <3>2. ~(m > n)
        BY <3>1 DEF JobInvariant, History
      <3> QED
        BY <2>3, <3>1, <3>2, Predecessor
    <2>4. (m > 1 /\ attempts'[j][m].status # Absent) =>
                /\ attempts'[j][m - 1].finished_at # Never
                /\ attempts'[j][m - 1].finished_at < attempts'[j][m].started_at
      BY <1>2, <2>3 DEF JobInvariant, Timeline
    <2>5. CASE m = n
      <3>1. /\ attempts[j][n].started_at <= attempts[j][n].heartbeat_at
            /\ attempts[j][n].heartbeat_at < attempts[j][n].lease_expires_at
        BY <1>4 DEF JobInvariant, Timeline, Absent
      <3> QED
        BY <1>2, <2>1, <2>4, <2>5, <3>1 DEF EndsAs
    <2>6. CASE m # n
      BY <1>2, <2>4, <2>6 DEF JobInvariant, Timeline
    <2> QED
      BY <2>5, <2>6
  <1>8. Backoffs(j)'
    <2> SUFFICES ASSUME NEW m \in Numbers, m > 1, attempts'[j][m].status # Absent,
                        attempts'[j][m - 1].status = "lease_expired"
                 PROVE  \E wait \in {RetryMax, RetryBase * 2 ^ (m - 2)} :
                           attempts'[j][m - 1].finished_at + wait
                              <= attempts'[j][m].started_at
      BY DEF Backoffs
    <2>1. attempts[j][m].status # Absent
      BY <1>2, <1>4 DEF Absent
    <2>2. ~(m > n)
      BY <2>1 DEF JobInvariant, History
    <2>3. m - 1 \in Numbers /\ m - 1 # n
      BY <2>2, Predecessor
    <2>4. /\ attempts'[j][m - 1].finished_at = attempts[j][m - 1].finished_at
          /\ attempts[j][m - 1].status = "lease_expired"
          /\ attempts'[j][m].started_at = attempts[j][m].started_at
      BY <1>2, <2>3
    <2> QED
      BY <2>1, <2>4 DEF JobInvariant, Backoffs
  <1>9. Published(j)'
    <2>1. CASE st # "succeeded"
      <3>1. evidence'[j] = NoEvidence
        BY <2>1, ActiveClock DEF EvidenceFollows
      <3> QED
        BY <1>1, <2>1, <3>1 DEF Published
    <2>2. CASE st = "succeeded"
      <3>1. PICK d \in Documents :
               evidence'[j] = [author |-> attempts[j][n].token, document |-> d]
        BY <2>2 DEF EvidenceFollows
      <3>2. evidence'[j].document = d /\ evidence'[j].author = attempts[j][n].token
        BY <3>1
      <3>3. d # NoDocument
        BY JobStoreAssumption
      <3>4. evidence'[j] # NoEvidence
        BY <3>2, <3>3 DEF NoEvidence
      <3>5. attempts'[j][n].token = attempts[j][n].token
        BY <1>2
      <3> QED
        BY <1>1, <2>2, <3>2, <3>3, <3>4, <3>5 DEF Published
    <2> QED
      BY <2>1, <2>2
  <1>10. Clock(j)'
    <2>1. ASSUME NEW m \in Numbers
          PROVE  /\ attempts'[j][m].heartbeat_at <= now
                 /\ attempts'[j][m].finished_at <= now
                 /\ attempts'[j][m].finished_at = Never <=>
                      attempts'[j][m].status \in {Absent, "running"}
      <3>1. /\ attempts[j][m].heartbeat_at <= now
            /\ attempts[j][m].finished_at <= now
            /\ attempts[j][m].finished_at = Never <=>
                 attempts[j][m].status \in {Absent, "running"}
        BY DEF JobInvariant, Clock
      <3>2. now <= now /\ now # Never /\ outcome \notin {Absent, "running"}
        BY <1>3, <1>4 DEF Never, Absent
      <3>3. attempts'[j][m].heartbeat_at = attempts[j][m].heartbeat_at
        BY <1>2
      <3>4. CASE m = n
        <4>1. attempts'[j][m].status = outcome /\ attempts'[j][m].finished_at = now
          BY <1>2, <3>4
        <4> QED
          BY <3>1, <3>2, <3>3, <4>1
      <3>5. CASE m # n
        <4>1. /\ attempts'[j][m].status = attempts[j][m].status
              /\ attempts'[j][m].finished_at = attempts[j][m].finished_at
          BY <1>2, <3>5
        <4> QED
          BY <3>1, <3>3, <4>1
      <3> QED
        BY <3>4, <3>5
    <2>2. st = "queued" =>
             /\ now < available
             /\ outcome = "lease_expired" => now + Backoff(n) <= available
      BY DEF EndsAs
    <2> QED
      BY <1>1, <1>2, <1>4, <2>1, <2>2 DEF Clock
  <1> QED
    BY <1>5, <1>6, <1>7, <1>8, <1>9, <1>10 DEF JobInvariant

\* A submitted job starts with an empty history.
LEMMA Begun ==
    ASSUME TypeOK, NEW j \in Jobs, JobInvariant(j), jobs[j].status = Absent,
           now' = now, NEW at \in Nat,
           jobs'[j].status = "queued", jobs'[j].attempt_count = 0,
           jobs'[j].available_at = at, jobs'[j].updated_at = at,
           attempts'[j] = attempts[j], evidence'[j] = evidence[j]
    PROVE  JobInvariant(j)'
  <1>1. jobs[j].attempt_count = 0
    BY JobColumns, JobStoreAssumption DEF JobInvariant, History
  <1>2. ASSUME NEW n \in Numbers
        PROVE  n > 0 /\ ~(n < 0) /\ n # 0 /\ attempts[j][n].status = Absent
    BY <1>1, JobStoreAssumption DEF JobInvariant, History, Numbers
  <1>3. RunsCurrentAttempt(j)'
    BY <1>2 DEF RunsCurrentAttempt, Active, Absent
  <1>4. History(j)'
    BY <1>2 DEF History, Absent
  <1>5. Timeline(j)' /\ Backoffs(j)'
    BY DEF JobInvariant, Timeline, Backoffs
  <1>6. Published(j)'
    BY DEF JobInvariant, Published, Absent
  <1>7. Clock(j)'
    BY DEF JobInvariant, Clock
  <1> QED
    BY <1>3, <1>4, <1>5, <1>6, <1>7 DEF JobInvariant

\* A cancellation changes the status of a queued or running job, nothing else
\* but the time of its update.
LEMMA CancelAsked ==
    ASSUME TypeOK, NEW j \in Jobs, JobInvariant(j), now' = now,
           \/ jobs[j].status = "queued" /\ jobs'[j].status = "canceled"
           \/ jobs[j].status = "running" /\ jobs'[j].status = "cancel_requested",
           jobs'[j].attempt_count = jobs[j].attempt_count,
           jobs'[j].updated_at = TransitionAt(j),
           attempts'[j] = attempts[j], evidence'[j] = evidence[j]
    PROVE  JobInvariant(j)'
  <1>1. jobs[j].attempt_count > 0 => TransitionAt(j) <= now
    BY JobColumns DEF JobInvariant, Clock, TransitionAt, Later, TypeOK
  <1>2. RunsCurrentAttempt(j)'
    BY DEF JobInvariant, RunsCurrentAttempt, Active
  <1>3. History(j)'
    <2>1. jobs[j].status = "running" =>
             /\ jobs[j].attempt_count \in Numbers
             /\ attempts[j][jobs[j].attempt_count].status = "running"
      BY ActiveClock DEF Active
    <2>2. \A n \in Numbers :
             /\ attempts[j][n].status = Absent <=> n > jobs[j].attempt_count
             /\ n < jobs[j].attempt_count =>
                  attempts[j][n].status \in {"retry_scheduled", "lease_expired"}
      BY DEF JobInvariant, History
    <2>3. jobs[j].status = "running" => jobs[j].attempt_count # 0
      BY <2>1, JobStoreAssumption DEF Numbers
    <2>4. (jobs[j].status = "queued" /\ jobs[j].attempt_count > 0) =>
             attempts[j][jobs[j].attempt_count].status
                 \in {"retry_scheduled", "lease_expired"}
      BY DEF JobInvariant, History
    <2> QED
      BY <2>1, <2>2, <2>3, <2>4 DEF History, Absent
  <1>4. Timeline(j)' /\ Backoffs(j)'
    BY DEF JobInvariant, Timeline, Backoffs
  <1>5. Published(j)'
    BY DEF JobInvariant, Published
  <1>6. Clock(j)'
    BY <1>1 DEF JobInvariant, Clock
  <1> QED
    BY <1>2, <1>3, <1>4, <1>5, <1>6 DEF JobInvariant

\* The columns of a row that Leased leaves.
LEMMA LeasedColumns ==
    ASSUME NEW token, NEW started
    PROVE  /\ Leased(token, started).status = "running"
           /\ Leased(token, started).token = token
           /\ Leased(token, started).started_at = started
           /\ Leased(token, started).heartbeat_at = now
           /\ Leased(token, started).lease_expires_at = now + LeaseSeconds
           /\ Leased(token, started).finished_at = Never
  BY DEF Leased

\* A claim starts the next attempt of a job that is due.
LEMMA Claimed ==
    ASSUME TypeOK, NEW j \in Jobs, JobInvariant(j), Claimable(j), now' = now,
           NEW token, NEW n \in Numbers, n = jobs[j].attempt_count + 1,
           jobs'[j].status = "running", jobs'[j].attempt_count = n,
           jobs'[j].updated_at = TransitionAt(j),
           \A m \in Numbers : m # n => attempts'[j][m] = attempts[j][m],
           attempts'[j][n] = Leased(token, now),
           evidence'[j] = evidence[j]
    PROVE  JobInvariant(j)'
  <1>1. /\ now \in Nat /\ n \in Nat /\ n > 0 /\ jobs[j].attempt_count = n - 1
        /\ jobs[j].attempt_count \in Nat
    <2>1. now \in Nat
      BY DEF TypeOK
    <2>2. jobs[j].attempt_count \in Nat
      BY JobColumns
    <2>3. n \in Nat /\ n > 0
      BY JobStoreAssumption DEF Numbers
    <2> QED
      BY <2>1, <2>2, <2>3
  <1>2. ASSUME NEW m \in Numbers
        PROVE  m \in Nat /\ m > 0 /\ (m > 1 => m - 1 \in Numbers /\ m - 1 # m)
    BY JobStoreAssumption DEF Numbers
  <1>3. /\ attempts'[j][n].status = "running"
        /\ attempts'[j][n].started_at = now
        /\ attempts'[j][n].heartbeat_at = now
        /\ now < attempts'[j][n].lease_expires_at
        /\ attempts'[j][n].finished_at = Never
    BY <1>1, LeasedColumns, JobStoreAssumption
  <1>4. TransitionAt(j) = now
    <2>1. jobs[j].updated_at \in Nat /\ jobs[j].updated_at <= now
      <3>1. CASE jobs[j].attempt_count = 0
        <4>1. jobs[j].updated_at = jobs[j].available_at
          BY <3>1 DEF JobInvariant, Clock, Claimable
        <4> QED
          BY <4>1, JobColumns DEF Claimable
      <3>2. CASE jobs[j].attempt_count > 0
        <4>1. jobs[j].updated_at <= now
          BY <3>2 DEF JobInvariant, Clock
        <4> QED
          BY <4>1, JobColumns
      <3>3. jobs[j].attempt_count = 0 \/ jobs[j].attempt_count > 0
        BY JobColumns
      <3> QED
        BY <3>1, <3>2, <3>3, Zenon
    <2> QED
      BY <1>1, <2>1 DEF TransitionAt, Later
  <1>5. ASSUME NEW m \in Numbers
        PROVE  attempts[j][m].status # "running"
    BY DEF JobInvariant, RunsCurrentAttempt, Active, Claimable
  <1>6. ASSUME NEW m \in Numbers
        PROVE  /\ m < n => attempts[j][m].status \in {"retry_scheduled", "lease_expired"}
               /\ attempts[j][m].status = Absent <=> m > n - 1
    <2>1. /\ m < n - 1 =>
               attempts[j][m].status \in {"retry_scheduled", "lease_expired"}
          /\ attempts[j][m].status = Absent <=> m > n - 1
      BY <1>1 DEF JobInvariant, History
    <2>2. m = n - 1 =>
             attempts[j][m].status \in {"retry_scheduled", "lease_expired"}
      BY <1>1, <1>2 DEF JobInvariant, History, Claimable
    <2>3. /\ m > n - 1 <=> m >= n
          /\ m < n <=> m < n - 1 \/ m = n - 1
      BY Predecessor
    <2> QED
      BY <2>1, <2>2, <2>3
  <1>7. RunsCurrentAttempt(j)'
    BY <1>3, <1>5 DEF RunsCurrentAttempt, Active
  <1>8. History(j)'
    <2>1. ASSUME NEW m \in Numbers
          PROVE  /\ attempts'[j][m].status = Absent <=> m > n
                 /\ m < n => attempts'[j][m].status
                                \in {"retry_scheduled", "lease_expired"}
      <3>1. CASE m = n
        <4>1. attempts'[j][m].status = "running"
          BY <1>3, <3>1
        <4>2. ~(n > n) /\ ~(n < n)
          BY <1>1
        <4>3. ~(m > n) /\ ~(m < n)
          BY <3>1, <4>2, Zenon
        <4> QED
          BY <4>1, <4>3 DEF Absent
      <3>2. CASE m # n
        BY <1>1, <1>2, <1>6, <3>2
      <3> QED
        BY <3>1, <3>2
    <2> QED
      BY <1>1, <1>3, <2>1 DEF History, Absent
  <1>9. n > 1 =>
          /\ attempts[j][n - 1].finished_at # Never
          /\ attempts[j][n - 1].finished_at < now
          /\ attempts[j][n - 1].status = "lease_expired" =>
               attempts[j][n - 1].finished_at + Backoff(n - 1) <= now
    <2> SUFFICES ASSUME n > 1
                 PROVE  /\ attempts[j][n - 1].finished_at # Never
                        /\ attempts[j][n - 1].finished_at < now
                        /\ attempts[j][n - 1].status = "lease_expired" =>
                             attempts[j][n - 1].finished_at + Backoff(n - 1) <= now
      OBVIOUS
    <2>1. n - 1 \in Numbers /\ n - 1 < n
      BY <1>1, <1>2
    <2>2. attempts[j][n - 1].status \in {"retry_scheduled", "lease_expired"}
      BY <1>6, <2>1
    <2>3. attempts[j][n - 1].finished_at # Never
      BY <2>1, <2>2 DEF JobInvariant, Clock, Absent
    <2>4. /\ attempts[j][n - 1].finished_at < jobs[j].available_at
          /\ attempts[j][n - 1].status = "lease_expired" =>
               attempts[j][n - 1].finished_at + Backoff(n - 1) <= jobs[j].available_at
      BY <1>1 DEF JobInvariant, Clock, Claimable
    <2>5. /\ attempts[j][n - 1].finished_at \in Int
          /\ Backoff(n - 1) \in Int /\ jobs[j].available_at \in Int
      BY <2>1, AttemptColumns, JobColumns, BackoffPositive
    <2> QED
      BY <1>1, <2>3, <2>4, <2>5 DEF Claimable
  <1>10. Timeline(j)'
    <2> SUFFICES ASSUME NEW m \in Numbers
                 PROVE  LET a == attempts'[j][m]
                        IN /\ a.status # Absent =>
                                /\ a.started_at <= a.heartbeat_at
                                /\ a.heartbeat_at < a.lease_expires_at
                           /\ a.status \in {"succeeded", "failed", "retry_scheduled"} =>
                                /\ a.heartbeat_at <= a.finished_at
                                /\ a.finished_at < a.lease_expires_at
                           /\ a.status = "lease_expired" =>
                                a.lease_expires_at <= a.finished_at
                           /\ (m > 1 /\ a.status # Absent) =>
                                /\ attempts'[j][m - 1].finished_at # Never
                                /\ attempts'[j][m - 1].finished_at < a.started_at
      BY DEF Timeline
    <2>1. CASE m = n
      <3>1. m > 1 => attempts'[j][m - 1] = attempts[j][m - 1]
        BY <1>2, <2>1
      <3>2. /\ attempts'[j][m].status = "running"
            /\ attempts'[j][m].started_at = now
            /\ attempts'[j][m].heartbeat_at = now
            /\ now < attempts'[j][m].lease_expires_at
        BY <1>3, <2>1
      <3>3. m > 1 => /\ attempts[j][m - 1].finished_at # Never
                     /\ attempts[j][m - 1].finished_at < now
        BY <1>9, <2>1
      <3> QED
        BY <1>1, <3>1, <3>2, <3>3
    <2>2. CASE m # n
      <3>1. attempts'[j][m] = attempts[j][m]
        BY <2>2
      <3>2. (m > 1 /\ attempts[j][m].status # Absent) =>
               attempts'[j][m - 1] = attempts[j][m - 1]
        BY <1>1, <1>2, <1>6
      <3> QED
        BY <3>1, <3>2 DEF JobInvariant, Timeline
    <2> QED
      BY <2>1, <2>2
  <1>11. Backoffs(j)'
    <2> SUFFICES ASSUME NEW m \in Numbers, m > 1, attempts'[j][m].status # Absent,
                        attempts'[j][m - 1].status = "lease_expired"
                 PROVE  \E wait \in {RetryMax, RetryBase * 2 ^ (m - 2)} :
                           attempts'[j][m - 1].finished_at + wait
                              <= attempts'[j][m].started_at
      BY DEF Backoffs
    <2>1. CASE m = n
      <3>1. attempts'[j][m - 1] = attempts[j][m - 1]
        BY <1>2, <2>1
      <3> QED
        BY <1>3, <1>9, <2>1, <3>1, BackoffDoubles
    <2>2. CASE m # n
      <3>1. attempts'[j][m] = attempts[j][m]
        BY <2>2
      <3>2. attempts'[j][m - 1] = attempts[j][m - 1]
        BY <1>1, <1>2, <1>6, <3>1
      <3> QED
        BY <3>1, <3>2 DEF JobInvariant, Backoffs
    <2> QED
      BY <2>1, <2>2
  <1>12. Published(j)'
    BY DEF JobInvariant, Published, Claimable
  <1>13. Clock(j)'
    <2>1. ASSUME NEW m \in Numbers
          PROVE  /\ attempts'[j][m].heartbeat_at <= now
                 /\ attempts'[j][m].finished_at <= now
                 /\ attempts'[j][m].finished_at = Never <=>
                      attempts'[j][m].status \in {Absent, "running"}
      <3>1. CASE m = n
        <4>1. /\ attempts'[j][m].status = "running"
              /\ attempts'[j][m].heartbeat_at = now
              /\ attempts'[j][m].finished_at = Never
          BY <1>3, <3>1
        <4> QED
          BY <1>1, <4>1 DEF Never
      <3>2. CASE m # n
        BY <3>2 DEF JobInvariant, Clock
      <3> QED
        BY <3>1, <3>2
    <2> QED
      BY <1>1, <1>4, <2>1 DEF Clock
  <1> QED
    BY <1>7, <1>8, <1>10, <1>11, <1>12, <1>13 DEF JobInvariant

\* A heartbeat moves the heartbeat and the expiry of the running attempt.
LEMMA Extended ==
    ASSUME TypeOK, NEW j \in Jobs, JobInvariant(j), now' = now,
           NEW token, NEW n \in Numbers, ActiveLease(j, n, token),
           jobs'[j] = jobs[j], evidence'[j] = evidence[j],
           \A m \in Numbers : m # n => attempts'[j][m] = attempts[j][m],
           attempts'[j][n] = Leased(token, attempts[j][n].started_at)
    PROVE  JobInvariant(j)'
  <1>1. /\ attempts'[j][n].status = "running"
        /\ attempts'[j][n].token = token
        /\ attempts'[j][n].started_at = attempts[j][n].started_at
        /\ attempts'[j][n].heartbeat_at = now
        /\ attempts'[j][n].lease_expires_at = now + LeaseSeconds
        /\ attempts'[j][n].finished_at = Never
    BY LeasedColumns
  <1>2. /\ attempts[j][n].status = "running" /\ attempts[j][n].token = token
        /\ n = jobs[j].attempt_count /\ Active(j)
    BY DEF ActiveLease, Active
  <1>3. ASSUME NEW m \in Numbers
        PROVE  /\ attempts'[j][m].status = attempts[j][m].status
               /\ attempts'[j][m].token = attempts[j][m].token
               /\ attempts'[j][m].started_at = attempts[j][m].started_at
               /\ attempts'[j][m].finished_at = attempts[j][m].finished_at
               /\ m > 1 => m - 1 \in Numbers
    <2>1. attempts[j][n].finished_at = Never
      BY <1>2 DEF JobInvariant, Clock
    <2>2. m > 1 => m - 1 \in Numbers
      BY JobStoreAssumption DEF Numbers
    <2>3. CASE m = n
      BY <1>1, <1>2, <2>1, <2>2, <2>3
    <2>4. CASE m # n
      BY <2>2, <2>4
    <2> QED
      BY <2>3, <2>4
  <1>4. RunsCurrentAttempt(j)'
    BY <1>3 DEF JobInvariant, RunsCurrentAttempt, Active
  <1>5. History(j)'
    <2>1. jobs[j].attempt_count \in Numbers
      BY <1>2
    <2> QED
      BY <1>3, <2>1 DEF JobInvariant, History
  <1>6. Timeline(j)'
    <2> SUFFICES ASSUME NEW m \in Numbers
                 PROVE  LET a == attempts'[j][m]
                        IN /\ a.status # Absent =>
                                /\ a.started_at <= a.heartbeat_at
                                /\ a.heartbeat_at < a.lease_expires_at
                           /\ a.status \in {"succeeded", "failed", "retry_scheduled"} =>
                                /\ a.heartbeat_at <= a.finished_at
                                /\ a.finished_at < a.lease_expires_at
                           /\ a.status = "lease_expired" =>
                                a.lease_expires_at <= a.finished_at
                           /\ (m > 1 /\ a.status # Absent) =>
                                /\ attempts'[j][m - 1].finished_at # Never
                                /\ attempts'[j][m - 1].finished_at < a.started_at
      BY DEF Timeline
    <2>1. (m > 1 /\ attempts'[j][m].status # Absent) =>
             /\ attempts'[j][m - 1].finished_at # Never
             /\ attempts'[j][m - 1].finished_at < attempts'[j][m].started_at
      BY <1>3 DEF JobInvariant, Timeline
    <2>2. CASE m = n
      <3>1. attempts[j][n].started_at <= now
        <4>1. attempts[j][n].started_at <= attempts[j][n].heartbeat_at
          BY <1>2 DEF JobInvariant, Timeline, Absent
        <4>2. attempts[j][n].heartbeat_at <= now
          BY DEF JobInvariant, Clock
        <4> QED
          BY <4>1, <4>2, AttemptColumns DEF TypeOK
      <3>2. now < now + LeaseSeconds
        BY JobStoreAssumption DEF TypeOK
      <3> QED
        BY <1>1, <2>1, <2>2, <3>1, <3>2
    <2>3. CASE m # n
      <3>1. attempts'[j][m] = attempts[j][m]
        BY <2>3
      <3> QED
        BY <2>1, <3>1 DEF JobInvariant, Timeline
    <2> QED
      BY <2>2, <2>3
  <1>7. Backoffs(j)'
    BY <1>3 DEF JobInvariant, Backoffs
  <1>8. Published(j)'
    BY <1>2, ActiveClock DEF JobInvariant, Published
  <1>9. Clock(j)'
    <2>1. ASSUME NEW m \in Numbers
          PROVE  attempts'[j][m].heartbeat_at <= now
      <3>1. CASE m = n
        BY <1>1, <3>1 DEF TypeOK
      <3>2. CASE m # n
        BY <3>2 DEF JobInvariant, Clock
      <3> QED
        BY <3>1, <3>2
    <2>2. jobs[j].status # "queued"
      BY <1>2 DEF Active
    <2> QED
      BY <1>3, <2>1, <2>2 DEF JobInvariant, Clock
  <1> QED
    BY <1>4, <1>5, <1>6, <1>7, <1>8, <1>9 DEF JobInvariant

(***************************************************************************)
(* The rows an action leaves                                               *)
(***************************************************************************)

\* A row that ends keeps every column but its status and finish time.
LEMMA FinishedColumns ==
    ASSUME NEW a, NEW outcome, NEW at
    PROVE  /\ Finished(a, outcome, at).status = outcome
           /\ Finished(a, outcome, at).finished_at = at
           /\ Finished(a, outcome, at).token = a.token
           /\ Finished(a, outcome, at).started_at = a.started_at
           /\ Finished(a, outcome, at).heartbeat_at = a.heartbeat_at
           /\ Finished(a, outcome, at).lease_expires_at = a.lease_expires_at
  BY DEF Finished

\* The columns of a transition.
LEMMA TransitionToColumns ==
    ASSUME NEW j, NEW st, NEW count, NEW available, NEW at
    PROVE  /\ TransitionTo(j, st, count, available, at).status = st
           /\ TransitionTo(j, st, count, available, at).attempt_count = count
           /\ TransitionTo(j, st, count, available, at).available_at = available
           /\ TransitionTo(j, st, count, available, at).updated_at = at
  BY DEF TransitionTo

\* Settling a job writes its row and its attempt and no other job's.
LEMMA SettleRows ==
    ASSUME TypeOK, NEW j \in Jobs, NEW n \in Numbers, NEW outcome, NEW st,
           NEW available, TransitionAt(j) = now,
           Settle(j, n, TransitionTo(j, st, n, available, now), outcome)
    PROVE  /\ JobBecomes(j, st, n, available)
           /\ AttemptEnds(j, n, outcome)
           /\ \A i \in Jobs : i # j =>
                 jobs'[i] = jobs[i] /\ attempts'[i] = attempts[i]
  <1>1. /\ jobs'[j] = TransitionTo(j, st, n, available, now)
        /\ attempts'[j][n] = Finished(attempts[j][n], outcome, now)
        /\ \A m \in Numbers : m # n => attempts'[j][m] = attempts[j][m]
        /\ \A i \in Jobs : i # j =>
              jobs'[i] = jobs[i] /\ attempts'[i] = attempts[i]
    BY DEF TypeOK, Settle
  <1>2. JobBecomes(j, st, n, available)
    BY <1>1, TransitionToColumns DEF JobBecomes
  <1>3. AttemptEnds(j, n, outcome)
    BY <1>1, FinishedColumns DEF AttemptEnds
  <1> QED
    BY <1>1, <1>2, <1>3

(***************************************************************************)
(* Every transaction keeps the invariant of every job                      *)
(***************************************************************************)

\* Without rows the invariant holds.
LEMMA InitInvariant == Init => IInv
  <1> SUFFICES ASSUME Init
               PROVE  IInv
    OBVIOUS
  <1>1. ASSUME NEW j \in Jobs
        PROVE  JobInvariant(j)
    <2>1. /\ jobs[j].status = Absent /\ jobs[j].attempt_count = 0
          /\ evidence[j] = NoEvidence /\ now = 0
      BY DEF Init, NoJob
    <2>2. ASSUME NEW n \in Numbers
          PROVE  /\ attempts[j][n].status = Absent /\ n > 0
                 /\ attempts[j][n].heartbeat_at = 0
                 /\ attempts[j][n].finished_at = Never
      BY JobStoreAssumption DEF Init, NoAttempt, Numbers
    <2>3. ASSUME NEW n \in Numbers
          PROVE  n > 0 /\ ~(n < 0)
      BY JobStoreAssumption DEF Numbers
    <2>4. RunsCurrentAttempt(j)
      BY <2>1, <2>2 DEF RunsCurrentAttempt, Active, Absent
    <2>5. History(j)
      BY <2>1, <2>2, <2>3 DEF History, Absent
    <2>6. Timeline(j)
      BY <2>2 DEF Timeline, Absent
    <2>7. Backoffs(j)
      BY <2>2 DEF Backoffs
    <2>8. Published(j)
      BY <2>1 DEF Published, Absent
    <2>9. Clock(j)
      BY <2>1, <2>2 DEF Clock, Absent, Never
    <2> QED
      BY <2>4, <2>5, <2>6, <2>7, <2>8, <2>9 DEF JobInvariant
  <1> QED
    BY <1>1, InitType DEF IInv

\* A job whose rows a transaction leaves alone keeps its invariant.
LEMMA OtherJob ==
    ASSUME IInv, NEW i \in Jobs, now' = now,
           jobs'[i] = jobs[i], attempts'[i] = attempts[i], evidence'[i] = evidence[i]
    PROVE  JobInvariant(i)'
  <1>1. now' \in Nat /\ now' >= now
    BY DEF IInv, TypeOK
  <1> QED
    BY <1>1, Untouched DEF IInv

\* Settling the attempt of one job keeps the invariant of all.
LEMMA SettleInvariant ==
    ASSUME IInv, NEW j \in Jobs, NEW n \in Numbers, NEW st, NEW outcome,
           NEW available \in Nat, Active(j), n = jobs[j].attempt_count,
           EndsAs(j, n, st, outcome, available), now' = now,
           Settle(j, n, TransitionTo(j, st, n, available, now), outcome),
           EvidenceFollows(j, n, st),
           \A i \in Jobs : i # j => evidence'[i] = evidence[i]
    PROVE  \A i \in Jobs : JobInvariant(i)'
  <1>1. TypeOK /\ JobInvariant(j)
    BY DEF IInv
  <1>2. TransitionAt(j) = now
    BY <1>1, ActiveClock
  <1>3. /\ JobBecomes(j, st, n, available)
        /\ AttemptEnds(j, n, outcome)
        /\ \A i \in Jobs : i # j => jobs'[i] = jobs[i] /\ attempts'[i] = attempts[i]
    BY <1>1, <1>2, SettleRows
  <1>4. JobInvariant(j)'
    BY <1>1, <1>3, Settled
  <1>5. ASSUME NEW i \in Jobs, i # j
        PROVE  JobInvariant(i)'
    BY <1>3, <1>5, OtherJob
  <1> QED
    BY <1>4, <1>5

\* A live lease is that of the running attempt of an active job.
LEMMA LeaseHolder ==
    ASSUME IInv, NEW j \in Jobs, NEW n \in Numbers, NEW token,
           ActiveLease(j, n, token)
    PROVE  /\ TypeOK /\ JobInvariant(j) /\ Active(j)
           /\ n = jobs[j].attempt_count
           /\ attempts[j][n].token = token
           /\ attempts[j][n].lease_expires_at > now
           /\ TransitionAt(j) = now
           /\ jobs[j].available_at \in Nat
           /\ now \in Nat
  <1>1. /\ TypeOK /\ JobInvariant(j) /\ Active(j)
        /\ n = jobs[j].attempt_count
        /\ attempts[j][n].token = token
        /\ attempts[j][n].lease_expires_at > now
    BY DEF IInv, ActiveLease, Active
  <1>2. TransitionAt(j) = now
    BY <1>1, ActiveClock
  <1> QED
    BY <1>1, <1>2, JobColumns DEF TypeOK

\* A fenced call that finds the cancellation first ends the job as canceled.
LEMMA CancelInvariant ==
    ASSUME IInv, NEW j \in Jobs, NEW n \in Numbers, NEW token,
           ActiveLease(j, n, token), CancelActiveAttempt(j, n), now' = now
    PROVE  \A i \in Jobs : JobInvariant(i)'
  <1> DEFINE available == jobs[j].available_at
  <1>1. /\ Active(j) /\ n = jobs[j].attempt_count
        /\ TransitionAt(j) = now /\ available \in Nat
    BY LeaseHolder
  <1>2. /\ Settle(j, n, TransitionTo(j, "canceled", n, available, now), "canceled")
        /\ evidence' = evidence
    BY <1>1 DEF CancelActiveAttempt, Moved
  <1>3. EndsAs(j, n, "canceled", "canceled", available)
    BY DEF EndsAs
  <1>4. EvidenceFollows(j, n, "canceled")
    BY <1>2 DEF EvidenceFollows
  <1> HIDE DEF available
  <1> QED
    BY <1>1, <1>2, <1>3, <1>4, SettleInvariant

\* Every fenced method keeps the invariant.
LEMMA FencedCallInvariant ==
    ASSUME IInv, FencedCall
    PROVE  \A i \in Jobs : JobInvariant(i)'
  <1> DEFINE Kept == \A i \in Jobs : JobInvariant(i)'
  <1>1. PICK j \in Jobs, n \in Numbers, token \in Tokens :
            \/ HeartbeatJob(j, n, token)
            \/ \E delay \in RetryDelays : RetryJob(j, n, token, delay)
            \/ FailJob(j, n, token)
            \/ AcknowledgeCancellation(j, n, token)
            \/ \E document \in Documents : CompleteJob(j, n, token, document)
    BY IssuedAreTokens DEF FencedCall, IInv
  <1>2. ASSUME ActiveLease(j, n, token), CancelInstead(j, n), now' = now
        PROVE  Kept
    BY <1>2, CancelInvariant DEF CancelInstead
  <1>3. CASE HeartbeatJob(j, n, token)
    <2>1. ActiveLease(j, n, token)
      BY <1>3 DEF HeartbeatJob
    <2>2. TypeOK /\ JobInvariant(j)
      BY DEF IInv
    <2>3. /\ attempts' = [attempts EXCEPT ![j][n] = Leased(token, attempts[j][n].started_at)]
          /\ now' = now /\ jobs' = jobs /\ evidence' = evidence
      BY <1>3 DEF HeartbeatJob
    <2>4. /\ attempts'[j][n] = Leased(token, attempts[j][n].started_at)
          /\ \A m \in Numbers : m # n => attempts'[j][m] = attempts[j][m]
          /\ \A i \in Jobs : i # j => attempts'[i] = attempts[i]
      BY <2>2, <2>3 DEF TypeOK
    <2>5. JobInvariant(j)'
      BY <2>1, <2>2, <2>3, <2>4, Extended
    <2>6. ASSUME NEW i \in Jobs, i # j
          PROVE  JobInvariant(i)'
      BY <2>3, <2>4, <2>6, OtherJob
    <2> QED
      BY <2>5, <2>6
  <1>4. ASSUME NEW delay \in RetryDelays, RetryJob(j, n, token, delay)
        PROVE  Kept
    <2>1. ActiveLease(j, n, token) /\ now' = now
      BY <1>4 DEF RetryJob
    <2>2. CASE CancelInstead(j, n)
      BY <1>2, <2>1, <2>2
    <2>3. CASE ~CancelInstead(j, n)
      <3>1. /\ jobs[j].attempt_count < MaxAttempts
            /\ Settle(j, n, Requeued(j, TransitionAt(j), delay), "retry_scheduled")
            /\ evidence' = evidence
        BY <1>4, <2>3 DEF RetryJob
      <3>2. /\ Active(j) /\ n = jobs[j].attempt_count /\ TransitionAt(j) = now
            /\ attempts[j][n].lease_expires_at > now /\ now \in Nat
        BY <2>1, LeaseHolder
      <3>3. now + delay \in Nat /\ now < now + delay
        BY <3>2, JobStoreAssumption
      <3>4. EndsAs(j, n, "queued", "retry_scheduled", now + delay)
        BY <3>1, <3>2, <3>3 DEF EndsAs
      <3>5. Settle(j, n, TransitionTo(j, "queued", n, now + delay, now), "retry_scheduled")
        BY <3>1, <3>2 DEF Requeued
      <3>6. EvidenceFollows(j, n, "queued")
        BY <3>1 DEF EvidenceFollows
      <3> QED
        BY <2>1, <3>1, <3>2, <3>3, <3>4, <3>5, <3>6, SettleInvariant
    <2> QED
      BY <2>2, <2>3
  <1>5. CASE FailJob(j, n, token)
    <2>1. ActiveLease(j, n, token) /\ now' = now
      BY <1>5 DEF FailJob
    <2>2. CASE CancelInstead(j, n)
      BY <1>2, <2>1, <2>2
    <2>3. CASE ~CancelInstead(j, n)
      <3> DEFINE available == jobs[j].available_at
      <3>1. /\ Settle(j, n, Moved(j, "failed", TransitionAt(j)), "failed")
            /\ evidence' = evidence
        BY <1>5, <2>3 DEF FailJob
      <3>2. /\ Active(j) /\ n = jobs[j].attempt_count /\ TransitionAt(j) = now
            /\ attempts[j][n].lease_expires_at > now /\ available \in Nat
        BY <2>1, LeaseHolder
      <3>3. EndsAs(j, n, "failed", "failed", available)
        BY <3>2 DEF EndsAs
      <3>4. Settle(j, n, TransitionTo(j, "failed", n, available, now), "failed")
        BY <3>1, <3>2 DEF Moved
      <3>5. EvidenceFollows(j, n, "failed")
        BY <3>1 DEF EvidenceFollows
      <3> HIDE DEF available
      <3> QED
        BY <2>1, <3>1, <3>2, <3>3, <3>4, <3>5, SettleInvariant
    <2> QED
      BY <2>2, <2>3
  <1>6. CASE AcknowledgeCancellation(j, n, token)
    BY <1>6, CancelInvariant DEF AcknowledgeCancellation
  <1>7. ASSUME NEW document \in Documents, CompleteJob(j, n, token, document)
        PROVE  Kept
    <2>1. ActiveLease(j, n, token) /\ now' = now
      BY <1>7 DEF CompleteJob
    <2>2. CASE CancelInstead(j, n)
      BY <1>2, <2>1, <2>2
    <2>3. CASE ~CancelInstead(j, n)
      <3> DEFINE available == jobs[j].available_at
                 row == [author |-> token, document |-> document]
      <3>1. /\ Settle(j, n, Moved(j, "succeeded", TransitionAt(j)), "succeeded")
            /\ evidence' = [evidence EXCEPT ![j] = row]
        BY <1>7, <2>3 DEF CompleteJob
      <3>2. /\ Active(j) /\ n = jobs[j].attempt_count /\ TransitionAt(j) = now
            /\ attempts[j][n].lease_expires_at > now /\ available \in Nat
            /\ attempts[j][n].token = token
        BY <2>1, LeaseHolder
      <3>3. EndsAs(j, n, "succeeded", "succeeded", available)
        BY <3>2 DEF EndsAs
      <3>4. Settle(j, n, TransitionTo(j, "succeeded", n, available, now), "succeeded")
        BY <3>1, <3>2 DEF Moved
      <3>5. /\ evidence'[j] = row
            /\ \A i \in Jobs : i # j => evidence'[i] = evidence[i]
        BY <3>1 DEF IInv, TypeOK
      <3>6. EvidenceFollows(j, n, "succeeded")
        BY <3>2, <3>5 DEF EvidenceFollows
      <3> HIDE DEF available, row
      <3> QED
        BY <2>1, <3>2, <3>3, <3>4, <3>5, <3>6, SettleInvariant
    <2> QED
      BY <2>2, <2>3
  <1> QED
    BY <1>1, <1>3, <1>4, <1>5, <1>6, <1>7

\* A claim keeps the invariant: of the claimed job and, untouched, of the others.
LEMMA ClaimInvariant ==
    ASSUME IInv, NEW token \in Tokens, ClaimNextJob(token)
    PROVE  \A i \in Jobs : JobInvariant(i)'
  <1> DEFINE N(j) == jobs[j].attempt_count + 1
             Row(j) == TransitionTo(j, "running", N(j), jobs[j].available_at,
                                    TransitionAt(j))
  <1>1. PICK j \in Jobs :
            /\ Claimable(j)
            /\ jobs[j].attempt_count < MaxAttempts
            /\ jobs' = [jobs EXCEPT ![j] = Row(j)]
            /\ attempts' = [attempts EXCEPT ![j][N(j)] = Leased(token, now)]
    BY DEF ClaimNextJob
  <1>2. TypeOK /\ JobInvariant(j) /\ now' = now /\ evidence' = evidence
    BY DEF IInv, ClaimNextJob
  <1>3. N(j) \in Numbers
    BY <1>1, <1>2, JobColumns, JobStoreAssumption DEF Numbers
  <1>4. /\ jobs'[j] = Row(j)
        /\ \A i \in Jobs : i # j => jobs'[i] = jobs[i]
    BY <1>1, <1>2 DEF TypeOK
  <1>5. /\ Row(j).status = "running" /\ Row(j).attempt_count = N(j)
        /\ Row(j).updated_at = TransitionAt(j)
    BY TransitionToColumns
  <1> DEFINE n == N(j)
  <1>6. n \in Numbers /\ n = jobs[j].attempt_count + 1
    BY <1>3
  <1>7. attempts' = [attempts EXCEPT ![j][n] = Leased(token, now)]
    BY <1>1
  <1>8. /\ jobs'[j].status = "running" /\ jobs'[j].attempt_count = n
        /\ jobs'[j].updated_at = TransitionAt(j)
    BY <1>4, <1>5
  <1> HIDE DEF n, N, Row
  <1>9. /\ attempts'[j][n] = Leased(token, now)
        /\ \A m \in Numbers : m # n => attempts'[j][m] = attempts[j][m]
        /\ \A i \in Jobs : i # j => attempts'[i] = attempts[i]
    BY <1>2, <1>6, <1>7 DEF TypeOK
  <1>10. JobInvariant(j)'
    BY <1>1, <1>2, <1>6, <1>8, <1>9, Claimed
  <1>11. ASSUME NEW i \in Jobs, i # j
         PROVE  JobInvariant(i)'
    BY <1>2, <1>4, <1>9, <1>11, OtherJob
  <1> QED
    BY <1>10, <1>11

\* What the reaper leaves of an expired job.
LEMMA ReapedRows ==
    ASSUME IInv, NEW j \in Jobs, ExpiredLease(j)
    PROVE  LET n == jobs[j].attempt_count
           IN  /\ Active(j) /\ n \in Numbers /\ TransitionAt(j) = now
               /\ \E st \in JobStatus, available \in Nat :
                     /\ ReapedJob(j) = TransitionTo(j, st, n, available, now)
                     /\ EndsAs(j, n, st, ReapedAttempt(j), available)
                     /\ st # "succeeded"
  <1> DEFINE n == jobs[j].attempt_count
  <1>1. TypeOK /\ JobInvariant(j) /\ Active(j)
    BY DEF IInv, ExpiredLease, Active
  <1>2. n \in Numbers /\ TransitionAt(j) = now /\ now \in Nat
    BY <1>1, ActiveClock DEF TypeOK
  <1>3. attempts[j][n].lease_expires_at <= now /\ jobs[j].available_at \in Nat
    BY <1>1, JobColumns DEF ExpiredLease
  <1>4. CASE jobs[j].status = "cancel_requested"
    <2>1. /\ ReapedJob(j) = TransitionTo(j, "canceled", n, jobs[j].available_at, now)
          /\ ReapedAttempt(j) = "canceled"
      BY <1>2, <1>4 DEF ReapedJob, ReapedAttempt, Moved
    <2>2. EndsAs(j, n, "canceled", "canceled", jobs[j].available_at)
      BY DEF EndsAs
    <2> QED
      BY <1>1, <1>2, <1>3, <2>1, <2>2 DEF JobStatus
  <1>5. CASE jobs[j].status # "cancel_requested" /\ n >= MaxAttempts
    <2>1. /\ ReapedJob(j) = TransitionTo(j, "failed", n, jobs[j].available_at, now)
          /\ ReapedAttempt(j) = "lease_expired"
      BY <1>2, <1>5 DEF ReapedJob, ReapedAttempt, Moved
    <2>2. n = MaxAttempts
      BY <1>2, <1>5, JobStoreAssumption DEF Numbers
    <2>3. EndsAs(j, n, "failed", "lease_expired", jobs[j].available_at)
      BY <1>3, <2>2 DEF EndsAs
    <2> QED
      BY <1>1, <1>2, <1>3, <2>1, <2>3 DEF JobStatus
  <1>6. CASE jobs[j].status # "cancel_requested" /\ ~(n >= MaxAttempts)
    <2> DEFINE available == now + Backoff(n)
    <2>1. /\ ReapedJob(j) = TransitionTo(j, "queued", n, available, now)
          /\ ReapedAttempt(j) = "lease_expired"
      BY <1>2, <1>6 DEF ReapedJob, ReapedAttempt, Requeued
    <2>2. n < MaxAttempts
      BY <1>2, <1>6, JobStoreAssumption DEF Numbers
    <2>3. available \in Nat /\ now < available /\ now + Backoff(n) <= available
      BY <1>2, BackoffPositive
    <2>4. EndsAs(j, n, "queued", "lease_expired", available)
      BY <1>3, <2>2, <2>3 DEF EndsAs
    <2> QED
      BY <1>1, <1>2, <2>1, <2>3, <2>4 DEF JobStatus
  <1> QED
    BY <1>4, <1>5, <1>6

\* The reaper settles each job of its batch and leaves the others alone.
LEMMA ReapInvariant ==
    ASSUME IInv, ReapExpiredJobs
    PROVE  \A i \in Jobs : JobInvariant(i)'
  <1>1. PICK batch \in SUBSET {j \in Jobs : ExpiredLease(j)} :
          /\ jobs' = [j \in Jobs |-> IF j \in batch THEN ReapedJob(j) ELSE jobs[j]]
          /\ attempts' = [j \in Jobs |->
                IF j \in batch
                THEN [attempts[j] EXCEPT ![jobs[j].attempt_count] =
                         Finished(@, ReapedAttempt(j), TransitionAt(j))]
                ELSE attempts[j]]
    BY DEF ReapExpiredJobs
  <1>2. TypeOK /\ now' = now /\ evidence' = evidence
    BY DEF IInv, ReapExpiredJobs
  <1>3. ASSUME NEW j \in Jobs, j \notin batch
        PROVE  JobInvariant(j)'
    <2>1. jobs'[j] = jobs[j] /\ attempts'[j] = attempts[j] /\ evidence'[j] = evidence[j]
      BY <1>1, <1>2, <1>3
    <2> QED
      BY <1>2, <2>1, OtherJob
  <1>4. ASSUME NEW j \in Jobs, j \in batch
        PROVE  JobInvariant(j)'
    <2>1. ExpiredLease(j) /\ JobInvariant(j)
      BY <1>4 DEF IInv
    <2>2. /\ Active(j) /\ jobs[j].attempt_count \in Numbers /\ TransitionAt(j) = now
          /\ \E st \in JobStatus, available \in Nat :
                /\ ReapedJob(j) =
                     TransitionTo(j, st, jobs[j].attempt_count, available, now)
                /\ EndsAs(j, jobs[j].attempt_count, st, ReapedAttempt(j), available)
                /\ st # "succeeded"
      BY <2>1, ReapedRows
    <2>3. PICK n \in Numbers : n = jobs[j].attempt_count
      BY <2>2
    <2>4. PICK st \in JobStatus, available \in Nat :
                /\ ReapedJob(j) = TransitionTo(j, st, n, available, now)
                /\ EndsAs(j, n, st, ReapedAttempt(j), available)
                /\ st # "succeeded"
      BY <2>2, <2>3
    <2>5. /\ jobs'[j] = TransitionTo(j, st, n, available, now)
          /\ attempts'[j] = [attempts[j] EXCEPT ![n] =
                                Finished(@, ReapedAttempt(j), now)]
      BY <1>1, <1>4, <2>2, <2>3, <2>4
    <2>6. /\ attempts'[j][n] = Finished(attempts[j][n], ReapedAttempt(j), now)
          /\ \A m \in Numbers : m # n => attempts'[j][m] = attempts[j][m]
      BY <1>2, <2>5 DEF TypeOK
    <2>7. JobBecomes(j, st, n, available)
      BY <2>5, TransitionToColumns DEF JobBecomes
    <2>8. AttemptEnds(j, n, ReapedAttempt(j))
      BY <2>6, FinishedColumns DEF AttemptEnds
    <2>9. EvidenceFollows(j, n, st)
      BY <1>2, <2>4 DEF EvidenceFollows
    <2> QED
      BY <1>2, <2>1, <2>2, <2>3, <2>4, <2>7, <2>8, <2>9, Settled
  <1> QED
    BY <1>3, <1>4

\* Submission and cancellation keep the invariant.
LEMMA RequestInvariant ==
    ASSUME IInv, NEW j \in Jobs, BeginJob(j) \/ CancelJob(j)
    PROVE  \A i \in Jobs : JobInvariant(i)'
  <1>1. /\ TypeOK /\ JobInvariant(j)
        /\ now' = now /\ attempts' = attempts /\ evidence' = evidence
    BY DEF IInv, BeginJob, CancelJob
  <1>2. /\ \A i \in Jobs : i # j => jobs'[i] = jobs[i]
        /\ JobInvariant(j)'
    <2>1. CASE BeginJob(j)
      <3>1. PICK at \in Nat :
                jobs' = [jobs EXCEPT ![j] =
                           [status |-> "queued", attempt_count |-> 0,
                            available_at |-> at, created_at |-> at,
                            updated_at |-> at]]
        BY <2>1 DEF BeginJob
      <3>2. /\ jobs'[j] = [status |-> "queued", attempt_count |-> 0,
                           available_at |-> at, created_at |-> at, updated_at |-> at]
            /\ \A i \in Jobs : i # j => jobs'[i] = jobs[i]
        BY <1>1, <3>1 DEF TypeOK
      <3>3. jobs[j].status = Absent
        BY <2>1 DEF BeginJob
      <3> QED
        BY <1>1, <3>2, <3>3, Begun
    <2>2. CASE CancelJob(j)
      <3>1. PICK st \in {"canceled", "cancel_requested"} :
              /\ \/ jobs[j].status = "queued" /\ st = "canceled"
                 \/ jobs[j].status = "running" /\ st = "cancel_requested"
              /\ jobs' = [jobs EXCEPT ![j] = Moved(j, st, TransitionAt(j))]
        BY <2>2 DEF CancelJob
      <3>2. /\ jobs'[j] = Moved(j, st, TransitionAt(j))
            /\ \A i \in Jobs : i # j => jobs'[i] = jobs[i]
        BY <1>1, <3>1 DEF TypeOK
      <3>3. /\ jobs'[j].status = st
            /\ jobs'[j].attempt_count = jobs[j].attempt_count
            /\ jobs'[j].updated_at = TransitionAt(j)
        BY <3>2, TransitionToColumns DEF Moved
      <3> QED
        BY <1>1, <3>1, <3>2, <3>3, CancelAsked
    <2> QED
      BY <2>1, <2>2
  <1>3. ASSUME NEW i \in Jobs, i # j
        PROVE  JobInvariant(i)'
    BY <1>1, <1>2, <1>3, OtherJob
  <1> QED
    BY <1>2, <1>3

\* Every step keeps the invariant.
LEMMA NextInvariant == IInv /\ [Next]_vars => IInv'
  <1> SUFFICES ASSUME IInv, [Next]_vars
               PROVE  IInv'
    OBVIOUS
  <1>1. TypeOK'
    BY NextType DEF IInv
  <1>2. \A i \in Jobs : JobInvariant(i)'
    <2>1. CASE \E j \in Jobs : BeginJob(j) \/ CancelJob(j)
      BY <2>1, RequestInvariant
    <2>2. CASE \E token \in Tokens : ClaimNextJob(token)
      BY <2>2, ClaimInvariant
    <2>3. CASE FencedCall
      BY <2>3, FencedCallInvariant
    <2>4. CASE ReapExpiredJobs
      BY <2>4, ReapInvariant
    <2>5. CASE Tick \/ UNCHANGED vars
      <3>1. /\ jobs' = jobs /\ attempts' = attempts /\ evidence' = evidence
            /\ now' \in Nat /\ now' >= now
        BY <2>5 DEF IInv, TypeOK, Tick, vars
      <3> QED
        BY <3>1, Untouched DEF IInv
    <2> QED
      BY <2>1, <2>2, <2>3, <2>4, <2>5 DEF Next
  <1> QED
    BY <1>1, <1>2 DEF IInv

\* The invariant of the tables: in every reachable state, for any number of
\* jobs, attempts, tokens and clock readings.
THEOREM InvariantHolds == Spec => []IInv
  BY InitInvariant, NextInvariant, PTL DEF Spec

(***************************************************************************)
(* The safety properties                                                   *)
(***************************************************************************)

\* The partial unique index on running attempts never refuses a claim.
THEOREM OneRunningAttempt == Spec => []RunningAttemptIsCurrent
  <1>1. IInv => RunningAttemptIsCurrent
    BY DEF IInv, JobInvariant, RunningAttemptIsCurrent
  <1> QED
    BY <1>1, InvariantHolds, PTL

\* The attempt history of a job is gapless and explains its status.
THEOREM HistoryIsSound == Spec => []HistoryExplainsJob
  <1>1. IInv => HistoryExplainsJob
    BY DEF IInv, JobInvariant, HistoryExplainsJob
  <1> QED
    BY <1>1, InvariantHolds, PTL

\* On the database clock a job has one owner at a time.
THEOREM OneOwnerAtATime == Spec => []LeasesDoNotOverlap
  <1>1. IInv => LeasesDoNotOverlap
    BY DEF IInv, JobInvariant, LeasesDoNotOverlap
  <1> QED
    BY <1>1, InvariantHolds, PTL

\* The reaper's backoff doubles up to its maximum and is served in full.
THEOREM BackoffHolds == Spec => []BackoffIsServed
  <1>1. IInv => BackoffIsServed
    BY DEF IInv, JobInvariant, BackoffIsServed
  <1> QED
    BY <1>1, InvariantHolds, PTL

\* Publication is fenced: evidence is the owner's and exists for success only.
THEOREM PublicationIsFenced == Spec => []EvidenceIsTheOwners
  <1>1. IInv => EvidenceIsTheOwners
    BY DEF IInv, JobInvariant, EvidenceIsTheOwners
  <1> QED
    BY <1>1, InvariantHolds, PTL

\* A skewed API clock never reaches a row that a worker has claimed.
THEOREM SkewIsAbsorbed == Spec => []ClockIsTheDatabases
  <1>1. IInv => ClockIsTheDatabases
    BY DEF IInv, JobInvariant, ClockIsTheDatabases
  <1> QED
    BY <1>1, InvariantHolds, PTL

(***************************************************************************)
(* Which rows a transaction can write                                      *)
(***************************************************************************)

\* Rows of j stay as they are.
RowsStay(j) ==
    jobs'[j] = jobs[j] /\ attempts'[j] = attempts[j] /\ evidence'[j] = evidence[j]

\* Submission and cancellation write one job row, of a job not yet asked to stop.
LEMMA RequestRows ==
    ASSUME IInv, NEW i \in Jobs, BeginJob(i) \/ CancelJob(i)
    PROVE  /\ jobs[i].status \in {Absent, "queued", "running"}
           /\ attempts' = attempts
           /\ \A j \in Jobs : j # i => RowsStay(j)
  <1>1. jobs \in [Jobs -> JobRow]
    BY DEF IInv, TypeOK
  <1>2. /\ jobs[i].status \in {Absent, "queued", "running"}
        /\ attempts' = attempts /\ evidence' = evidence
        /\ \E row : jobs' = [jobs EXCEPT ![i] = row]
    BY DEF BeginJob, CancelJob
  <1> QED
    BY <1>1, <1>2 DEF RowsStay

\* A claim writes the rows of one queued job.
LEMMA ClaimRows ==
    ASSUME IInv, NEW token \in Tokens, ClaimNextJob(token)
    PROVE  \E i \in Jobs : /\ jobs[i].status = "queued"
                           /\ \A j \in Jobs : j # i => RowsStay(j)
  <1>1. PICK i \in Jobs :
            /\ jobs[i].status = "queued"
            /\ jobs' = [jobs EXCEPT ![i] =
                  TransitionTo(i, "running", jobs[i].attempt_count + 1,
                               jobs[i].available_at, TransitionAt(i))]
            /\ attempts' = [attempts EXCEPT ![i][jobs[i].attempt_count + 1] =
                               Leased(token, now)]
            /\ evidence' = evidence
    BY DEF ClaimNextJob, Claimable
  <1> QED
    BY <1>1 DEF IInv, TypeOK, RowsStay

\* A fenced call writes the rows of the job whose live lease it presents, and
\* ends it as canceled when a cancellation was requested.
LEMMA FencedRows ==
    ASSUME IInv, FencedCall
    PROVE  \E i \in Jobs, n \in Numbers, token \in Tokens :
              /\ ActiveLease(i, n, token)
              /\ \A j \in Jobs : j # i => RowsStay(j)
              /\ jobs[i].status = "cancel_requested" =>
                   /\ jobs'[i].status \in {"cancel_requested", "canceled"}
                   /\ evidence'[i] = evidence[i]
  <1>1. PICK i \in Jobs, n \in Numbers, token \in Tokens :
            \/ HeartbeatJob(i, n, token)
            \/ \E delay \in RetryDelays : RetryJob(i, n, token, delay)
            \/ FailJob(i, n, token)
            \/ AcknowledgeCancellation(i, n, token)
            \/ \E document \in Documents : CompleteJob(i, n, token, document)
    BY IssuedAreTokens DEF FencedCall, IInv
  <1>2. ActiveLease(i, n, token)
    BY <1>1 DEF HeartbeatJob, RetryJob, FailJob, AcknowledgeCancellation, CompleteJob
  <1>3. TypeOK
    BY DEF IInv
  <1>4. ASSUME NEW job, NEW outcome, Settle(i, n, job, outcome)
        PROVE  \A j \in Jobs : j # i => jobs'[j] = jobs[j] /\ attempts'[j] = attempts[j]
    BY <1>3, <1>4 DEF Settle, TypeOK
  <1>5. ASSUME CancelActiveAttempt(i, n)
        PROVE  /\ \A j \in Jobs : j # i => RowsStay(j)
               /\ jobs'[i].status = "canceled"
               /\ evidence'[i] = evidence[i]
    <2>1. Settle(i, n, Moved(i, "canceled", TransitionAt(i)), "canceled")
      BY <1>5 DEF CancelActiveAttempt
    <2>2. jobs'[i] = Moved(i, "canceled", TransitionAt(i))
      BY <1>3, <2>1 DEF Settle, TypeOK
    <2>3. jobs'[i].status = "canceled"
      BY <2>2, TransitionToColumns DEF Moved
    <2> QED
      BY <1>4, <1>5, <2>1, <2>3 DEF CancelActiveAttempt, RowsStay
  <1>6. CASE CancelActiveAttempt(i, n)
    BY <1>2, <1>5, <1>6
  <1>7. CASE ~CancelActiveAttempt(i, n)
    <2>1. CASE HeartbeatJob(i, n, token)
      BY <1>2, <1>3, <2>1 DEF HeartbeatJob, RowsStay, TypeOK
    <2>2. CASE \E delay \in RetryDelays : RetryJob(i, n, token, delay)
      BY <1>2, <1>4, <1>7, <2>2 DEF RetryJob, CancelInstead, RowsStay
    <2>3. CASE FailJob(i, n, token)
      BY <1>2, <1>4, <1>7, <2>3 DEF FailJob, CancelInstead, RowsStay
    <2>4. CASE AcknowledgeCancellation(i, n, token)
      BY <1>7, <2>4 DEF AcknowledgeCancellation
    <2>5. ASSUME NEW document \in Documents, CompleteJob(i, n, token, document)
          PROVE  /\ \A j \in Jobs : j # i => RowsStay(j)
                 /\ jobs[i].status = "running"
      <3>1. /\ jobs[i].status = "running"
            /\ Settle(i, n, Moved(i, "succeeded", TransitionAt(i)), "succeeded")
            /\ evidence' = [evidence EXCEPT ![i] = [author |-> token,
                                                    document |-> document]]
        BY <1>7, <2>5 DEF CompleteJob, CancelInstead
      <3>2. \A j \in Jobs : j # i => evidence'[j] = evidence[j]
        BY <1>3, <3>1 DEF TypeOK
      <3> QED
        BY <1>4, <3>1, <3>2 DEF RowsStay
    <2> QED
      BY <1>1, <1>2, <2>1, <2>2, <2>3, <2>4, <2>5
  <1> QED
    BY <1>6, <1>7

\* The reaper writes the rows of jobs with an expired lease and no evidence.
LEMMA ReapRows ==
    ASSUME IInv, ReapExpiredJobs, NEW j \in Jobs
    PROVE  \/ RowsStay(j)
           \/ /\ ExpiredLease(j)
              /\ evidence'[j] = evidence[j]
              /\ jobs[j].status = "cancel_requested" => jobs'[j].status = "canceled"
              /\ \A n \in Numbers :
                    \/ attempts'[j][n] = attempts[j][n]
                    \/ attempts'[j][n].status = ReapedAttempt(j)
  <1>1. PICK batch \in SUBSET {i \in Jobs : ExpiredLease(i)} :
          /\ jobs' = [i \in Jobs |-> IF i \in batch THEN ReapedJob(i) ELSE jobs[i]]
          /\ attempts' = [i \in Jobs |->
                IF i \in batch
                THEN [attempts[i] EXCEPT ![jobs[i].attempt_count] =
                         Finished(@, ReapedAttempt(i), TransitionAt(i))]
                ELSE attempts[i]]
          /\ evidence' = evidence
    BY DEF ReapExpiredJobs
  <1>2. CASE j \notin batch
    BY <1>1, <1>2 DEF RowsStay
  <1>3. CASE j \in batch
    <2>1. jobs[j].status = "cancel_requested" => ReapedJob(j).status = "canceled"
      BY TransitionToColumns DEF ReapedJob, Moved
    <2>2. ASSUME NEW n \in Numbers
          PROVE  \/ attempts'[j][n] = attempts[j][n]
                 \/ attempts'[j][n].status = ReapedAttempt(j)
      <3>1. attempts'[j] = [attempts[j] EXCEPT ![jobs[j].attempt_count] =
                              Finished(@, ReapedAttempt(j), TransitionAt(j))]
        BY <1>1, <1>3
      <3>2. CASE n = jobs[j].attempt_count
        <4>1. attempts'[j][n] =
                 Finished(attempts[j][n], ReapedAttempt(j), TransitionAt(j))
          BY <3>1, <3>2 DEF IInv, TypeOK
        <4> QED
          BY <4>1, FinishedColumns
      <3>3. CASE n # jobs[j].attempt_count
        BY <3>1, <3>3 DEF IInv, TypeOK
      <3> QED
        BY <3>2, <3>3
    <2> QED
      BY <1>1, <1>3, <2>1, <2>2
  <1> QED
    BY <1>2, <1>3

(***************************************************************************)
(* What a step may never do                                                *)
(***************************************************************************)

\* No transaction writes the rows of a finished job.
THEOREM FinishedForGood == Spec => TerminalIsFinal
  <1> DEFINE A == \A j \in Jobs : jobs[j].status \in Terminal =>
                     /\ jobs'[j] = jobs[j]
                     /\ attempts'[j] = attempts[j]
                     /\ evidence'[j] = evidence[j]
  <1>1. IInv /\ [Next]_vars => [A]_vars
    <2> SUFFICES ASSUME IInv, Next, NEW j \in Jobs, jobs[j].status \in Terminal
                 PROVE  RowsStay(j)
      BY DEF RowsStay
    <2>1. jobs[j].status \notin {Absent, "queued", "running", "cancel_requested"}
      BY DEF Terminal, Absent
    <2>2. CASE \E i \in Jobs : BeginJob(i) \/ CancelJob(i)
      BY <2>1, <2>2, RequestRows
    <2>3. CASE \E token \in Tokens : ClaimNextJob(token)
      BY <2>1, <2>3, ClaimRows
    <2>4. CASE FencedCall
      BY <2>1, <2>4, FencedRows DEF ActiveLease
    <2>5. CASE ReapExpiredJobs
      BY <2>1, <2>5, ReapRows DEF ExpiredLease
    <2>6. CASE Tick
      BY <2>6 DEF Tick, RowsStay
    <2> QED
      BY <2>2, <2>3, <2>4, <2>5, <2>6 DEF Next
  <1>2. TerminalIsFinal <=> [][A]_vars
    BY DEF TerminalIsFinal
  <1> QED
    BY <1>1, <1>2, InvariantHolds, PTL DEF Spec

\* No completion, failure, retry or reaper verdict overrides a cancellation.
THEOREM CancellationPrevails == Spec => CancellationWins
  <1> DEFINE A == \A j \in Jobs : jobs[j].status = "cancel_requested" =>
                     /\ jobs'[j].status \in {"cancel_requested", "canceled"}
                     /\ evidence'[j] = evidence[j]
  <1>1. IInv /\ [Next]_vars => [A]_vars
    <2> SUFFICES ASSUME IInv, Next, NEW j \in Jobs,
                        jobs[j].status = "cancel_requested"
                 PROVE  /\ jobs'[j].status \in {"cancel_requested", "canceled"}
                        /\ evidence'[j] = evidence[j]
      OBVIOUS
    <2>1. RowsStay(j) => /\ jobs'[j].status \in {"cancel_requested", "canceled"}
                         /\ evidence'[j] = evidence[j]
      BY DEF RowsStay
    <2>2. CASE \E i \in Jobs : BeginJob(i) \/ CancelJob(i)
      BY <2>1, <2>2, RequestRows DEF Absent
    <2>3. CASE \E token \in Tokens : ClaimNextJob(token)
      BY <2>1, <2>3, ClaimRows
    <2>4. CASE FencedCall
      BY <2>1, <2>4, FencedRows
    <2>5. CASE ReapExpiredJobs
      BY <2>1, <2>5, ReapRows
    <2>6. CASE Tick
      BY <2>1, <2>6 DEF Tick, RowsStay
    <2> QED
      BY <2>2, <2>3, <2>4, <2>5, <2>6 DEF Next
  <1>2. CancellationWins <=> [][A]_vars
    BY DEF CancellationWins
  <1> QED
    BY <1>1, <1>2, InvariantHolds, PTL DEF Spec

\* A worker whose lease ran out changes nothing: only the reaper ends it.
THEOREM FencingHolds == Spec => ExpiredOwnerIsPowerless
  <1> DEFINE A == \A j \in Jobs, n \in Numbers :
                     (attempts[j][n].status = "running"
                         /\ attempts[j][n].lease_expires_at <= now) =>
                       \/ attempts'[j][n] = attempts[j][n]
                       \/ attempts'[j][n].status =
                            (IF jobs[j].status = "cancel_requested"
                             THEN "canceled" ELSE "lease_expired")
  <1>1. IInv /\ [Next]_vars => [A]_vars
    <2> SUFFICES ASSUME IInv, Next, NEW j \in Jobs, NEW n \in Numbers,
                        attempts[j][n].status = "running",
                        attempts[j][n].lease_expires_at <= now
                 PROVE  \/ attempts'[j][n] = attempts[j][n]
                        \/ attempts'[j][n].status = ReapedAttempt(j)
      BY DEF ReapedAttempt
    <2>1. Active(j) /\ n = jobs[j].attempt_count /\ TypeOK
      BY DEF IInv, JobInvariant, RunsCurrentAttempt
    <2>2. jobs[j].status # "queued"
      BY <2>1 DEF Active
    <2>3. CASE \E i \in Jobs : BeginJob(i) \/ CancelJob(i)
      BY <2>3, RequestRows
    <2>4. CASE \E token \in Tokens : ClaimNextJob(token)
      BY <2>2, <2>4, ClaimRows DEF RowsStay
    <2>5. CASE FencedCall
      <3>1. PICK i \in Jobs, m \in Numbers, token \in Tokens :
               ActiveLease(i, m, token) /\ \A k \in Jobs : k # i => RowsStay(k)
        BY <2>5, FencedRows
      <3>2. i # j
        <4> SUFFICES ASSUME i = j
                     PROVE  FALSE
          OBVIOUS
        <4>1. m = n /\ attempts[j][m].lease_expires_at > now
          BY <2>1, <3>1 DEF ActiveLease
        <4>2. attempts[j][n].lease_expires_at \in Nat /\ now \in Nat
          BY <2>1, AttemptColumns DEF TypeOK
        <4> QED
          BY <4>1, <4>2
      <3> QED
        BY <3>1, <3>2 DEF RowsStay
    <2>6. CASE ReapExpiredJobs
      BY <2>6, ReapRows DEF RowsStay
    <2>7. CASE Tick
      BY <2>7 DEF Tick
    <2> QED
      BY <2>3, <2>4, <2>5, <2>6, <2>7 DEF Next
  <1>2. ExpiredOwnerIsPowerless <=> [][A]_vars
    BY DEF ExpiredOwnerIsPowerless
  <1> QED
    BY <1>1, <1>2, InvariantHolds, PTL DEF Spec

(***************************************************************************)
(* The constraints of the tables                                           *)
(***************************************************************************)

\* The row of j stays or is one the job table accepts.
JobMoves(j) ==
    \/ jobs'[j] = jobs[j]
    \/ /\ jobs'[j].created_at <= jobs'[j].updated_at
       /\ jobs'[j].created_at <= jobs'[j].available_at

\* The row of an attempt stays, is extended, or is ended no earlier than its last
\* heartbeat.
AttemptMoves(j, n) ==
    \/ attempts'[j][n] = attempts[j][n]
    \/ /\ attempts[j][n].status # Absent
       /\ attempts'[j][n].token = attempts[j][n].token
       /\ attempts'[j][n].finished_at # Never =>
             attempts'[j][n].heartbeat_at <= attempts'[j][n].finished_at

\* Rows that move like this stay acceptable.
LEMMA MovedRowsAreAccepted ==
    ASSUME NEW j \in Jobs, Accepted(j), JobMoves(j),
           \A n \in Numbers : AttemptMoves(j, n)
    PROVE  Accepted(j)'
  <1>1. jobs'[j].status # Absent =>
           /\ jobs'[j].created_at <= jobs'[j].updated_at
           /\ jobs'[j].created_at <= jobs'[j].available_at
    BY DEF Accepted, JobMoves
  <1>2. ASSUME NEW n \in Numbers
        PROVE  /\ attempts'[j][n].finished_at # Never =>
                     attempts'[j][n].heartbeat_at <= attempts'[j][n].finished_at
               /\ attempts'[j][n].status # Absent => attempts[j][n].status # Absent
               /\ attempts'[j][n].token = attempts[j][n].token
    BY DEF Accepted, AttemptMoves
  <1>3. ASSUME NEW n \in Numbers, attempts'[j][n].status # Absent
        PROVE  attempts'[j][n].token # NoToken
    BY <1>2, <1>3 DEF Accepted
  <1>4. ASSUME NEW m \in Numbers, NEW n \in Numbers, m # n,
               attempts'[j][m].status # Absent, attempts'[j][n].status # Absent
        PROVE  attempts'[j][m].token # attempts'[j][n].token
    BY <1>2, <1>4 DEF Accepted
  <1> QED
    BY <1>1, <1>2, <1>3, <1>4 DEF Accepted

\* The rows transition_to makes: they are stamped no earlier than they were created.
LEMMA TransitionIsAccepted ==
    ASSUME TypeOK, NEW j \in Jobs, Accepted(j), jobs[j].status # Absent,
           NEW st, NEW delay \in Nat, NEW row,
           row = Moved(j, st, TransitionAt(j)) \/ row = Requeued(j, TransitionAt(j), delay)
    PROVE  row.created_at <= row.updated_at /\ row.created_at <= row.available_at
  <1>1. /\ jobs[j].created_at <= jobs[j].updated_at
        /\ jobs[j].created_at <= jobs[j].available_at
    BY DEF Accepted
  <1>2. jobs[j].created_at <= TransitionAt(j) /\ jobs[j].created_at <= TransitionAt(j) + delay
    BY <1>1, TransitionAtIsNat, JobColumns
  <1>3. /\ row.created_at = jobs[j].created_at /\ row.updated_at = TransitionAt(j)
        /\ row.available_at \in {jobs[j].available_at, TransitionAt(j) + delay}
    BY DEF Moved, Requeued, TransitionTo
  <1> QED
    BY <1>1, <1>2, <1>3

\* An attempt ends no earlier than its last heartbeat, which the database clock gave.
LEMMA EndIsAccepted ==
    ASSUME IInv, NEW j \in Jobs, NEW n \in Numbers, NEW outcome,
           attempts[j][n].status # Absent,
           attempts'[j][n] = Finished(attempts[j][n], outcome, TransitionAt(j))
    PROVE  AttemptMoves(j, n)
  <1>1. attempts[j][n].heartbeat_at <= now
    BY DEF IInv, JobInvariant, Clock
  <1>2. attempts[j][n].heartbeat_at <= TransitionAt(j)
    BY <1>1, TransitionAtIsNat, AttemptColumns DEF IInv, TypeOK
  <1> QED
    BY <1>2, FinishedColumns DEF AttemptMoves

\* Submission and cancellation.
LEMMA RequestIsAccepted ==
    ASSUME IInv, NEW j \in Jobs, Accepted(j), NEW i \in Jobs, BeginJob(i) \/ CancelJob(i)
    PROVE  Accepted(j)'
  <1>1. TypeOK /\ attempts' = attempts
    BY DEF IInv, BeginJob, CancelJob
  <1>2. CASE i # j
    BY <1>1, <1>2, RequestRows, MovedRowsAreAccepted DEF RowsStay, JobMoves, AttemptMoves
  <1>3. CASE i = j /\ BeginJob(j)
    <2>1. PICK at \in Nat :
            jobs' = [jobs EXCEPT ![j] =
                       [status |-> "queued", attempt_count |-> 0,
                        available_at |-> at, created_at |-> at, updated_at |-> at]]
      BY <1>3 DEF BeginJob
    <2>2. JobMoves(j)
      BY <1>1, <2>1 DEF TypeOK, JobMoves
    <2> QED
      BY <1>1, <2>2, MovedRowsAreAccepted DEF AttemptMoves
  <1>4. CASE i = j /\ CancelJob(j)
    <2>1. /\ jobs[j].status # Absent
          /\ \E st : jobs' = [jobs EXCEPT ![j] = Moved(j, st, TransitionAt(j))]
      BY <1>4 DEF CancelJob, Absent
    <2>2. PICK st : jobs'[j] = Moved(j, st, TransitionAt(j))
      BY <1>1, <2>1 DEF TypeOK
    <2>3. JobMoves(j)
      BY <1>1, <2>1, <2>2, TransitionIsAccepted DEF JobMoves
    <2> QED
      BY <1>1, <2>3, MovedRowsAreAccepted DEF AttemptMoves
  <1> QED
    BY <1>2, <1>3, <1>4

\* A claim inserts a row under a token no row has.
LEMMA ClaimIsAccepted ==
    ASSUME IInv, NEW j \in Jobs, Accepted(j), NEW token \in Tokens, ClaimNextJob(token)
    PROVE  Accepted(j)'
  <1>1. PICK i \in Jobs :
            /\ jobs[i].status = "queued" /\ jobs[i].attempt_count < MaxAttempts
            /\ jobs' = [jobs EXCEPT ![i] =
                  TransitionTo(i, "running", jobs[i].attempt_count + 1,
                               jobs[i].available_at, TransitionAt(i))]
            /\ attempts' = [attempts EXCEPT ![i][jobs[i].attempt_count + 1] =
                               Leased(token, now)]
    BY DEF ClaimNextJob, Claimable
  <1>2. TypeOK /\ token \notin Issued
    BY DEF IInv, ClaimNextJob
  <1>3. CASE i # j
    <2>1. jobs'[j] = jobs[j] /\ attempts'[j] = attempts[j]
      BY <1>1, <1>2, <1>3 DEF TypeOK
    <2> QED
      BY <2>1, MovedRowsAreAccepted DEF JobMoves, AttemptMoves
  <1>4. CASE i = j
    <2>1. PICK n \in Numbers : n = jobs[j].attempt_count + 1
      BY <1>1, <1>2, <1>4, JobColumns, JobStoreAssumption DEF Numbers
    <2>2. /\ jobs'[j] = TransitionTo(j, "running", n, jobs[j].available_at, TransitionAt(j))
          /\ attempts'[j][n] = Leased(token, now)
          /\ \A m \in Numbers : m # n => attempts'[j][m] = attempts[j][m]
      BY <1>1, <1>2, <1>4, <2>1 DEF TypeOK
    <2>3. /\ jobs'[j].created_at <= jobs'[j].updated_at
          /\ jobs'[j].created_at <= jobs'[j].available_at
      <3>1. /\ jobs[j].created_at <= jobs[j].updated_at
            /\ jobs[j].created_at <= jobs[j].available_at
        BY <1>1, <1>4 DEF Accepted, Absent
      <3>2. jobs[j].created_at <= TransitionAt(j)
        BY <1>2, <3>1, TransitionAtIsNat, JobColumns
      <3> QED
        BY <2>2, <3>1, <3>2 DEF TransitionTo
    <2>4. attempts'[j][n].finished_at = Never /\ attempts'[j][n].token = token
      BY <2>2, LeasedColumns
    <2>5. token # NoToken
      BY JobStoreAssumption
    <2>6. ASSUME NEW m \in Numbers, attempts[j][m].status # Absent
          PROVE  attempts[j][m].token # token
      <3>1. attempts[j][m].token # NoToken
        BY <2>6 DEF Accepted
      <3> QED
        BY <1>2, <3>1 DEF Issued
    <2>7. ASSUME NEW m \in Numbers
          PROVE  /\ attempts'[j][m].finished_at # Never =>
                       attempts'[j][m].heartbeat_at <= attempts'[j][m].finished_at
                 /\ attempts'[j][m].status # Absent => attempts'[j][m].token # NoToken
      BY <2>2, <2>4, <2>5 DEF Accepted
    <2>8. ASSUME NEW m \in Numbers, NEW k \in Numbers, m # k,
                 attempts'[j][m].status # Absent, attempts'[j][k].status # Absent
          PROVE  attempts'[j][m].token # attempts'[j][k].token
      <3>1. CASE m = n
        BY <2>2, <2>4, <2>6, <2>8, <3>1
      <3>2. CASE k = n
        BY <2>2, <2>4, <2>6, <2>8, <3>2
      <3>3. CASE m # n /\ k # n
        BY <2>2, <2>8, <3>3 DEF Accepted
      <3> QED
        BY <3>1, <3>2, <3>3
    <2> QED
      BY <2>3, <2>7, <2>8 DEF Accepted
  <1> QED
    BY <1>3, <1>4

\* Settling an attempt whose job goes where transition_to allows.
LEMMA SettleIsAccepted ==
    ASSUME IInv, NEW j \in Jobs, Accepted(j), NEW i \in Jobs, NEW n \in Numbers,
           Active(i), attempts[i][n].status = "running",
           NEW st, NEW delay \in Nat, NEW row, NEW outcome, Settle(i, n, row, outcome),
           row = Moved(i, st, TransitionAt(i)) \/ row = Requeued(i, TransitionAt(i), delay)
    PROVE  Accepted(j)'
  <1>1. TypeOK
    BY DEF IInv
  <1>2. CASE i # j
    <2>1. jobs'[j] = jobs[j] /\ attempts'[j] = attempts[j]
      BY <1>1, <1>2 DEF Settle, TypeOK
    <2> QED
      BY <2>1, MovedRowsAreAccepted DEF JobMoves, AttemptMoves
  <1>3. CASE i = j
    <2>1. /\ jobs'[j] = row
          /\ attempts'[j][n] = Finished(attempts[j][n], outcome, TransitionAt(j))
          /\ \A m \in Numbers : m # n => attempts'[j][m] = attempts[j][m]
      BY <1>1, <1>3 DEF Settle, TypeOK
    <2>2. jobs[j].status # Absent /\ attempts[j][n].status # Absent
      BY <1>3 DEF Active, Absent
    <2>3. JobMoves(j)
      BY <1>1, <1>3, <2>1, <2>2, TransitionIsAccepted DEF JobMoves
    <2>4. \A m \in Numbers : AttemptMoves(j, m)
      <3>1. AttemptMoves(j, n)
        BY <2>1, <2>2, EndIsAccepted
      <3> QED
        BY <2>1, <3>1 DEF AttemptMoves
    <2> QED
      BY <2>3, <2>4, MovedRowsAreAccepted
  <1> QED
    BY <1>2, <1>3

\* The fenced methods.
LEMMA FencedIsAccepted ==
    ASSUME IInv, NEW j \in Jobs, Accepted(j), FencedCall
    PROVE  Accepted(j)'
  <1>1. PICK i \in Jobs, n \in Numbers, token \in Tokens :
            \/ HeartbeatJob(i, n, token)
            \/ \E delay \in RetryDelays : RetryJob(i, n, token, delay)
            \/ FailJob(i, n, token)
            \/ AcknowledgeCancellation(i, n, token)
            \/ \E document \in Documents : CompleteJob(i, n, token, document)
    BY IssuedAreTokens DEF FencedCall, IInv
  <1>2. ActiveLease(i, n, token)
    BY <1>1 DEF HeartbeatJob, RetryJob, FailJob, AcknowledgeCancellation, CompleteJob
  <1>3. /\ TypeOK /\ Active(i)
        /\ attempts[i][n].status = "running" /\ attempts[i][n].token = token
    BY <1>2 DEF IInv, ActiveLease, Active
  <1>4. ASSUME NEW st, NEW outcome, Settle(i, n, Moved(i, st, TransitionAt(i)), outcome)
        PROVE  Accepted(j)'
    <2>1. 0 \in Nat
      OBVIOUS
    <2> QED
      BY <1>3, <1>4, <2>1, SettleIsAccepted
  <1>5. CASE CancelActiveAttempt(i, n)
    BY <1>4, <1>5 DEF CancelActiveAttempt
  <1>6. CASE HeartbeatJob(i, n, token)
    <2>1. /\ jobs' = jobs
          /\ attempts'[i][n] = Leased(token, attempts[i][n].started_at)
          /\ \A m \in Numbers : m # n => attempts'[i][m] = attempts[i][m]
          /\ \A k \in Jobs : k # i => attempts'[k] = attempts[k]
      BY <1>3, <1>6 DEF HeartbeatJob, TypeOK
    <2>2. AttemptMoves(i, n)
      BY <1>3, <2>1, LeasedColumns DEF AttemptMoves, Absent
    <2>3. \A m \in Numbers : AttemptMoves(j, m)
      BY <2>1, <2>2 DEF AttemptMoves
    <2> QED
      BY <2>1, <2>3, MovedRowsAreAccepted DEF JobMoves
  <1>7. ASSUME NEW delay \in RetryDelays, RetryJob(i, n, token, delay)
        PROVE  Accepted(j)'
    <2>1. delay \in Nat
      BY JobStoreAssumption
    <2>2. CASE Settle(i, n, Requeued(i, TransitionAt(i), delay), "retry_scheduled")
      BY <1>3, <2>1, <2>2, SettleIsAccepted
    <2> QED
      BY <1>5, <1>7, <2>2 DEF RetryJob, CancelInstead
  <1>8. CASE FailJob(i, n, token)
    BY <1>4, <1>5, <1>8 DEF FailJob, CancelInstead
  <1>9. CASE AcknowledgeCancellation(i, n, token)
    BY <1>5, <1>9 DEF AcknowledgeCancellation
  <1>10. ASSUME NEW document \in Documents, CompleteJob(i, n, token, document)
         PROVE  Accepted(j)'
    BY <1>4, <1>5, <1>10 DEF CompleteJob, CancelInstead
  <1> QED
    BY <1>1, <1>6, <1>7, <1>8, <1>9, <1>10

\* The reaper.
LEMMA ReapIsAccepted ==
    ASSUME IInv, NEW j \in Jobs, Accepted(j), ReapExpiredJobs
    PROVE  Accepted(j)'
  <1>1. PICK batch \in SUBSET {i \in Jobs : ExpiredLease(i)} :
          /\ jobs' = [i \in Jobs |-> IF i \in batch THEN ReapedJob(i) ELSE jobs[i]]
          /\ attempts' = [i \in Jobs |->
                IF i \in batch
                THEN [attempts[i] EXCEPT ![jobs[i].attempt_count] =
                         Finished(@, ReapedAttempt(i), TransitionAt(i))]
                ELSE attempts[i]]
    BY DEF ReapExpiredJobs
  <1>2. TypeOK
    BY DEF IInv
  <1>3. CASE j \notin batch
    <2>1. jobs'[j] = jobs[j] /\ attempts'[j] = attempts[j]
      BY <1>1, <1>3
    <2> QED
      BY <2>1, MovedRowsAreAccepted DEF JobMoves, AttemptMoves
  <1>4. CASE j \in batch
    <2>1. ExpiredLease(j) /\ jobs[j].attempt_count \in Numbers
      BY <1>4, ReapedRows
    <2>2. PICK n \in Numbers : n = jobs[j].attempt_count
      BY <2>1
    <2>3. /\ jobs'[j] = ReapedJob(j)
          /\ attempts'[j] = [attempts[j] EXCEPT ![n] =
                                Finished(@, ReapedAttempt(j), TransitionAt(j))]
      BY <1>1, <1>4, <2>2
    <2>4. /\ attempts'[j][n] = Finished(attempts[j][n], ReapedAttempt(j), TransitionAt(j))
          /\ \A m \in Numbers : m # n => attempts'[j][m] = attempts[j][m]
      BY <1>2, <2>3 DEF TypeOK
    <2>5. jobs[j].status # Absent /\ attempts[j][n].status # Absent
      BY <2>1, <2>2 DEF ExpiredLease, Absent
    <2>6. PICK delay \in Nat, st \in {"failed", "canceled"} :
             \/ ReapedJob(j) = Moved(j, st, TransitionAt(j))
             \/ ReapedJob(j) = Requeued(j, TransitionAt(j), delay)
      BY BackoffPositive DEF ReapedJob
    <2>7. JobMoves(j)
      BY <1>2, <2>3, <2>5, <2>6, TransitionIsAccepted DEF JobMoves
    <2>8. \A m \in Numbers : AttemptMoves(j, m)
      <3>1. AttemptMoves(j, n)
        BY <2>4, <2>5, EndIsAccepted
      <3> QED
        BY <2>4, <3>1 DEF AttemptMoves
    <2> QED
      BY <2>7, <2>8, MovedRowsAreAccepted
  <1> QED
    BY <1>3, <1>4

\* Every step leaves rows the constraints accept.
LEMMA NextIsAccepted == AcceptedIInv /\ [Next]_vars => AcceptedIInv'
  <1> SUFFICES ASSUME AcceptedIInv, [Next]_vars, NEW j \in Jobs
               PROVE  Accepted(j)'
    BY NextInvariant DEF AcceptedIInv
  <1>1. IInv /\ Accepted(j)
    BY DEF AcceptedIInv
  <1>2. CASE \E i \in Jobs : BeginJob(i) \/ CancelJob(i)
    BY <1>1, <1>2, RequestIsAccepted
  <1>3. CASE \E token \in Tokens : ClaimNextJob(token)
    BY <1>1, <1>3, ClaimIsAccepted
  <1>4. CASE FencedCall
    BY <1>1, <1>4, FencedIsAccepted
  <1>5. CASE ReapExpiredJobs
    BY <1>1, <1>5, ReapIsAccepted
  <1>6. CASE Tick \/ UNCHANGED vars
    <2>1. jobs' = jobs /\ attempts' = attempts
      BY <1>6 DEF Tick, vars
    <2> QED
      BY <1>1, <2>1, MovedRowsAreAccepted DEF JobMoves, AttemptMoves
  <1> QED
    BY <1>2, <1>3, <1>4, <1>5, <1>6 DEF Next

\* No transaction of any caller leaves a row that a CHECK constraint, a unique index or
\* the validators of JobRecord and JobAttemptRecord would refuse.
THEOREM ConstraintsAccept == Spec => []RowsAreAccepted
  <1>1. Init => AcceptedIInv
    <2> SUFFICES ASSUME Init, NEW j \in Jobs
                 PROVE  Accepted(j)
      BY InitInvariant DEF AcceptedIInv
    <2>1. jobs[j].status = Absent
      BY DEF Init, NoJob
    <2>2. \A n \in Numbers : attempts[j][n].status = Absent /\ attempts[j][n].finished_at = Never
      BY DEF Init, NoAttempt
    <2> QED
      BY <2>1, <2>2 DEF Accepted
  <1>2. AcceptedIInv => RowsAreAccepted
    <2> SUFFICES ASSUME AcceptedIInv, NEW j \in Jobs
                 PROVE  /\ jobs[j].status # Absent => ValidateState(jobs[j])
                        /\ \A n \in Numbers : attempts[j][n].status # Absent =>
                              ValidateAttempt(attempts[j][n])
                        /\ UniqueAttempts(j)
      BY DEF RowsAreAccepted
    <2>1. /\ TypeOK /\ RunsCurrentAttempt(j) /\ History(j) /\ Timeline(j) /\ Clock(j)
          /\ Accepted(j)
      BY DEF AcceptedIInv, IInv, JobInvariant
    <2>2. jobs[j].status # Absent => ValidateState(jobs[j])
      <3> SUFFICES ASSUME jobs[j].status # Absent
                   PROVE  ValidateState(jobs[j])
        OBVIOUS
      <3>1. /\ jobs[j].attempt_count \in Nat /\ jobs[j].attempt_count <= MaxAttempts
            /\ jobs[j].created_at \in Nat /\ jobs[j].updated_at \in Nat
            /\ jobs[j].available_at \in Nat
        BY <2>1, JobColumns, JobStoreAssumption
      <3>2. jobs[j].updated_at >= jobs[j].created_at /\ jobs[j].available_at >= jobs[j].created_at
        BY <2>1, <3>1 DEF Accepted
      <3>3. jobs[j].status = "queued" => jobs[j].attempt_count < MaxAttempts
        BY <2>1, <3>1, JobStoreAssumption DEF History
      <3>4. jobs[j].status \in {"running", "cancel_requested", "succeeded", "failed"} =>
               jobs[j].attempt_count > 0
        BY <2>1, <3>1 DEF History, Absent
      <3> QED
        BY <3>1, <3>2, <3>3, <3>4 DEF ValidateState
    <2>3. ASSUME NEW n \in Numbers, attempts[j][n].status # Absent
          PROVE  ValidateAttempt(attempts[j][n])
      <3>1. /\ attempts[j][n].started_at <= attempts[j][n].heartbeat_at
            /\ attempts[j][n].heartbeat_at < attempts[j][n].lease_expires_at
        BY <2>1, <2>3 DEF Timeline
      <3>2. attempts[j][n].status = "running" <=> attempts[j][n].finished_at = Never
        BY <2>1, <2>3 DEF Clock
      <3>3. attempts[j][n].finished_at # Never =>
               attempts[j][n].heartbeat_at <= attempts[j][n].finished_at
        BY <2>1 DEF Accepted
      <3>4. /\ attempts[j][n].started_at \in Nat /\ attempts[j][n].heartbeat_at \in Nat
            /\ attempts[j][n].lease_expires_at \in Nat
            /\ attempts[j][n].finished_at \in Nat \cup {Never}
        BY <2>1, AttemptColumns DEF Times
      <3> QED
        BY <3>1, <3>2, <3>3, <3>4 DEF ValidateAttempt, Never
    <2>4. UniqueAttempts(j)
      <3>1. \A m, n \in Numbers :
               attempts[j][m].status = "running" /\ attempts[j][n].status = "running" => m = n
        BY <2>1 DEF RunsCurrentAttempt
      <3> QED
        BY <2>1, <3>1 DEF Accepted, UniqueAttempts
    <2> QED
      BY <2>2, <2>3, <2>4
  <1> QED
    BY <1>1, <1>2, NextIsAccepted, PTL DEF Spec

(***************************************************************************)
(* The job tables implement LeaseQueue                                     *)
(*                                                                         *)
(* The proof computes the queue's view of the rows before and after each   *)
(* repository method, under the invariant proved above.                    *)
(***************************************************************************)

\* An attempt that does not exist has no token.  The invariant of the job says nothing
\* of such rows; the set of issued tokens needs it.
RowsWithoutToken ==
    \A j \in Jobs, n \in Numbers : attempts[j][n].status = Absent => attempts[j][n].token = NoToken

RInv == IInv /\ RowsWithoutToken

\* The queue's view of a job stays what it was, its evidence apart.
Same(i) ==
    /\ jobs'[i].status = jobs[i].status
    /\ jobs'[i].attempt_count = jobs[i].attempt_count
    /\ LatestToken(i)' = LatestToken(i)
    /\ LeaseIsLive(i)' = LeaseIsLive(i)
    /\ Claimable(i)' = Claimable(i)

\* Rows that nobody writes look the same while the clock stands.
LEMMA RowsSame ==
    ASSUME NEW i \in Jobs, now' = now, jobs'[i] = jobs[i], attempts'[i] = attempts[i]
    PROVE  Same(i)
BY DEF Same, LatestToken, LeaseIsLive, Claimable, Active

\* No token is lost or found unless one is written.
LEMMA IssuedSame ==
    ASSUME \A i \in Jobs, m \in Numbers : attempts'[i][m].token = attempts[i][m].token
    PROVE  Issued' = Issued
BY DEF Issued

\* Evidence that is not written looks the same.
LEMMA EvidenceSame ==
    ASSUME evidence' = evidence
    PROVE  /\ [i \in Jobs |-> evidence'[i].document] = [i \in Jobs |-> evidence[i].document]
           /\ [i \in Jobs |-> evidence'[i].author] = [i \in Jobs |-> evidence[i].author]
OBVIOUS

\* A queue that looks the same everywhere has not moved.
LEMMA ViewSame ==
    ASSUME \A i \in Jobs : Same(i), Issued' = Issued, evidence' = evidence
    PROVE  UNCHANGED Queue!queueVars
<1>1. [i \in Jobs |-> jobs'[i].status] = [i \in Jobs |-> jobs[i].status]
  BY DEF Same
<1>2. [i \in Jobs |-> jobs'[i].attempt_count] = [i \in Jobs |-> jobs[i].attempt_count]
  BY DEF Same
<1>3. [i \in Jobs |-> LatestToken(i)'] = [i \in Jobs |-> LatestToken(i)]
  BY DEF Same
<1>4. [i \in Jobs |-> LeaseIsLive(i)'] = [i \in Jobs |-> LeaseIsLive(i)]
  BY DEF Same
<1>5. [i \in Jobs |-> Claimable(i)'] = [i \in Jobs |-> Claimable(i)]
  BY DEF Same
<1> QED
  BY <1>1, <1>2, <1>3, <1>4, <1>5, EvidenceSame DEF Queue!queueVars

(***************************************************************************)
(* The end of an attempt                                                   *)
(***************************************************************************)

\* The attempt of one job ends and nothing else happens: End of the queue.
LEMMA EndStep ==
    ASSUME NEW j \in Jobs, NEW new, \A i \in Jobs : i # j => Same(i),
           jobs'[j].status = new, jobs'[j].attempt_count = jobs[j].attempt_count,
           LatestToken(j)' = LatestToken(j), LeaseIsLive(j)' = FALSE,
           Claimable(j)' = Claimable(j), Issued' = Issued
    PROVE  Queue!End(j, new)
<1>1. [i \in Jobs |-> jobs'[i].status] = [[i \in Jobs |-> jobs[i].status] EXCEPT ![j] = new]
  BY DEF Same
<1>2. [i \in Jobs |-> jobs'[i].attempt_count] = [i \in Jobs |-> jobs[i].attempt_count]
  BY DEF Same
<1>3. [i \in Jobs |-> LatestToken(i)'] = [i \in Jobs |-> LatestToken(i)]
  BY DEF Same
<1>4. [i \in Jobs |-> LeaseIsLive(i)'] = [[i \in Jobs |-> LeaseIsLive(i)] EXCEPT ![j] = FALSE]
  BY DEF Same
<1>5. [i \in Jobs |-> Claimable(i)'] = [i \in Jobs |-> Claimable(i)]
  BY DEF Same
<1> QED
  BY <1>1, <1>2, <1>3, <1>4, <1>5 DEF Queue!End

\* What the rows of a settled job look like to the queue: a job that returns to it is
\* due later.
LEMMA SettledView ==
    ASSUME TypeOK, NEW j \in Jobs, NEW n \in Numbers, NEW st, NEW outcome, NEW available \in Nat,
           Active(j), n = jobs[j].attempt_count, now' = now,
           EndsAs(j, n, st, outcome, available),
           JobBecomes(j, st, n, available), AttemptEnds(j, n, outcome)
    PROVE  /\ jobs'[j].status = st /\ jobs'[j].attempt_count = jobs[j].attempt_count
           /\ LatestToken(j)' = LatestToken(j)
           /\ LeaseIsLive(j)' = FALSE
           /\ Claimable(j) = FALSE /\ Claimable(j)' = FALSE
           /\ \A m \in Numbers : attempts'[j][m].token = attempts[j][m].token
<1>1. jobs'[j].status = st /\ jobs'[j].attempt_count = jobs[j].attempt_count
  BY DEF JobBecomes
<1>2. \A m \in Numbers : attempts'[j][m].token = attempts[j][m].token
  BY DEF AttemptEnds
<1>3. LatestToken(j)' = LatestToken(j)
  BY <1>1, <1>2 DEF LatestToken
<1>4. LeaseIsLive(j)' = FALSE
  BY <1>1 DEF LeaseIsLive, Active, EndsAs
<1>5. Claimable(j) = FALSE
  BY DEF Claimable, Active
<1>6. Claimable(j)' = FALSE
  BY <1>1, SMTT(30) DEF Claimable, EndsAs, JobBecomes, TypeOK
<1> QED
  BY <1>1, <1>2, <1>3, <1>4, <1>5, <1>6

\* A live lease on the rows is a live lease of the queue.
LEMMA OwnerView ==
    ASSUME IInv, NEW j \in Jobs, NEW n \in Numbers, NEW token, ActiveLease(j, n, token)
    PROVE  Queue!Owns(j, token)
<1>1. n = jobs[j].attempt_count /\ n # 0
  BY JobStoreAssumption DEF ActiveLease, Numbers
<1>2. LatestToken(j) = token
  BY <1>1 DEF LatestToken, ActiveLease
<1>3. LeaseIsLive(j) = TRUE
  BY <1>1 DEF LeaseIsLive, Active, ActiveLease
<1> QED
  BY <1>2, <1>3 DEF Queue!Owns, Queue!Owned, ActiveLease

\* Settling a job under its lease is End for the queue.
LEMMA SettleEnds ==
    ASSUME IInv, NEW j \in Jobs, NEW n \in Numbers, NEW token, ActiveLease(j, n, token),
           NEW st, NEW outcome, NEW available \in Nat, now' = now,
           EndsAs(j, n, st, outcome, available),
           Settle(j, n, TransitionTo(j, st, n, available, now), outcome)
    PROVE  Queue!End(j, st) /\ Issued' = Issued
<1>1. /\ TypeOK /\ JobInvariant(j) /\ Active(j) /\ n = jobs[j].attempt_count
      /\ TransitionAt(j) = now
  BY LeaseHolder
<1>2. /\ JobBecomes(j, st, n, available) /\ AttemptEnds(j, n, outcome)
      /\ \A i \in Jobs : i # j => jobs'[i] = jobs[i] /\ attempts'[i] = attempts[i]
  BY <1>1, SettleRows
<1>3. /\ jobs'[j].status = st /\ jobs'[j].attempt_count = jobs[j].attempt_count
      /\ LatestToken(j)' = LatestToken(j)
      /\ LeaseIsLive(j)' = FALSE
      /\ Claimable(j)' = Claimable(j)
      /\ \A m \in Numbers : attempts'[j][m].token = attempts[j][m].token
  BY <1>1, <1>2, SettledView
<1>4. \A i \in Jobs : i # j => Same(i)
  BY <1>2, RowsSame
<1>5. Issued' = Issued
  <2>1. \A i \in Jobs, m \in Numbers : attempts'[i][m].token = attempts[i][m].token
    BY <1>2, <1>3
  <2> QED BY <2>1, IssuedSame
<1> QED
  BY <1>3, <1>4, <1>5, EndStep

\* A fenced call that finds the cancellation first is CancelOwned for the queue.
LEMMA CancelView ==
    ASSUME IInv, NEW j \in Jobs, NEW n \in Numbers, NEW token, ActiveLease(j, n, token),
           CancelInstead(j, n), now' = now
    PROVE  Queue!CancelOwned(j) /\ Issued' = Issued
<1> DEFINE available == jobs[j].available_at
<1>1. n = jobs[j].attempt_count /\ TransitionAt(j) = now /\ available \in Nat
  BY LeaseHolder
<1>2. /\ Settle(j, n, TransitionTo(j, "canceled", n, available, now), "canceled")
      /\ evidence' = evidence /\ jobs[j].status = "cancel_requested"
  BY <1>1 DEF CancelInstead, CancelActiveAttempt, Moved
<1>3. EndsAs(j, n, "canceled", "canceled", available)
  BY DEF EndsAs
<1> HIDE DEF available
<1>4. Queue!End(j, "canceled") /\ Issued' = Issued
  BY <1>1, <1>2, <1>3, SettleEnds
<1> QED
  BY <1>2, <1>4, EvidenceSame DEF Queue!CancelOwned

\* A heartbeat leaves a live lease live and is no step of the queue.
LEMMA HeartbeatView ==
    ASSUME IInv, NEW j \in Jobs, NEW n \in Numbers, NEW token, HeartbeatJob(j, n, token)
    PROVE  UNCHANGED Queue!queueVars
<1>1. /\ ActiveLease(j, n, token) /\ jobs' = jobs /\ now' = now /\ evidence' = evidence
      /\ attempts' = [attempts EXCEPT ![j][n] = Leased(token, attempts[j][n].started_at)]
  BY DEF HeartbeatJob
<1>2. /\ TypeOK /\ Active(j) /\ n = jobs[j].attempt_count /\ attempts[j][n].token = token
      /\ attempts[j][n].lease_expires_at > now /\ now \in Nat
  BY <1>1, LeaseHolder
<1>3. /\ attempts'[j][n] = Leased(token, attempts[j][n].started_at)
      /\ \A m \in Numbers : m # n => attempts'[j][m] = attempts[j][m]
      /\ \A i \in Jobs : i # j => attempts'[i] = attempts[i]
  BY <1>1, <1>2 DEF TypeOK
<1>4. attempts'[j][n].token = token /\ attempts'[j][n].lease_expires_at = now + LeaseSeconds
  BY <1>3, LeasedColumns
<1>5. Same(j)
  <2>1. LeaseIsLive(j) = TRUE
    BY <1>2 DEF LeaseIsLive
  <2>2. attempts'[j][n].lease_expires_at > now
    BY <1>2, <1>4, JobStoreAssumption
  <2>3. LeaseIsLive(j)' = TRUE
    BY <1>1, <1>2, <2>2 DEF LeaseIsLive, Active
  <2>4. LatestToken(j)' = LatestToken(j)
    BY <1>1, <1>2, <1>4 DEF LatestToken
  <2>5. Claimable(j)' = Claimable(j)
    BY <1>1 DEF Claimable
  <2> QED BY <1>1, <2>1, <2>3, <2>4, <2>5 DEF Same
<1>6. \A i \in Jobs : Same(i)
  BY <1>1, <1>3, <1>5, RowsSame
<1>7. Issued' = Issued
  <2>1. \A i \in Jobs, m \in Numbers : attempts'[i][m].token = attempts[i][m].token
    BY <1>2, <1>3, <1>4
  <2> QED BY <2>1, IssuedSame
<1> QED
  BY <1>1, <1>6, <1>7, ViewSame

\* Every fenced method is a step of the queue, or none.
LEMMA FencedCallView ==
    ASSUME IInv, FencedCall
    PROVE  [Queue!QueueNext]_Queue!queueVars
<1>1. PICK j \in Jobs, n \in Numbers, token \in Tokens :
          \/ HeartbeatJob(j, n, token)
          \/ \E delay \in RetryDelays : RetryJob(j, n, token, delay)
          \/ FailJob(j, n, token)
          \/ AcknowledgeCancellation(j, n, token)
          \/ \E document \in Documents : CompleteJob(j, n, token, document)
  BY IssuedAreTokens DEF FencedCall, IInv
<1>2. CASE HeartbeatJob(j, n, token)
  BY <1>2, HeartbeatView
<1>3. ASSUME NEW delay \in RetryDelays, RetryJob(j, n, token, delay)
      PROVE  Queue!Retry(j, token)
  <2>1. ActiveLease(j, n, token) /\ now' = now
    BY <1>3 DEF RetryJob
  <2>2. Queue!Owns(j, token)
    BY <2>1, OwnerView
  <2>3. CASE CancelInstead(j, n)
    BY <2>1, <2>2, <2>3, CancelView DEF Queue!Retry
  <2>4. CASE ~CancelInstead(j, n)
    <3>1. /\ jobs[j].attempt_count < MaxAttempts /\ jobs[j].status = "running"
          /\ Settle(j, n, Requeued(j, TransitionAt(j), delay), "retry_scheduled")
          /\ evidence' = evidence
      BY <1>3, <2>4 DEF RetryJob
    <3>2. /\ n = jobs[j].attempt_count /\ TransitionAt(j) = now
          /\ attempts[j][n].lease_expires_at > now /\ now \in Nat
      BY <2>1, LeaseHolder
    <3>3. now + delay \in Nat /\ now < now + delay
      BY <3>2, JobStoreAssumption
    <3>4. EndsAs(j, n, "queued", "retry_scheduled", now + delay)
      BY <3>1, <3>2, <3>3 DEF EndsAs
    <3>5. Settle(j, n, TransitionTo(j, "queued", n, now + delay, now), "retry_scheduled")
      BY <3>1, <3>2 DEF Requeued
    <3>6. Queue!End(j, "queued")
      BY <2>1, <3>3, <3>4, <3>5, SettleEnds
    <3> QED BY <2>2, <3>1, <3>6, EvidenceSame DEF Queue!Retry
  <2> QED BY <2>3, <2>4
<1>4. ASSUME FailJob(j, n, token)
      PROVE  Queue!Fail(j, token)
  <2>1. ActiveLease(j, n, token) /\ now' = now
    BY <1>4 DEF FailJob
  <2>2. Queue!Owns(j, token)
    BY <2>1, OwnerView
  <2>3. CASE CancelInstead(j, n)
    BY <2>1, <2>2, <2>3, CancelView DEF Queue!Fail
  <2>4. CASE ~CancelInstead(j, n)
    <3> DEFINE available == jobs[j].available_at
    <3>1. /\ Settle(j, n, Moved(j, "failed", TransitionAt(j)), "failed")
          /\ evidence' = evidence /\ jobs[j].status = "running"
      BY <1>4, <2>4 DEF FailJob
    <3>2. /\ n = jobs[j].attempt_count /\ TransitionAt(j) = now
          /\ attempts[j][n].lease_expires_at > now /\ available \in Nat
      BY <2>1, LeaseHolder
    <3>3. EndsAs(j, n, "failed", "failed", available)
      BY <3>2 DEF EndsAs
    <3>4. Settle(j, n, TransitionTo(j, "failed", n, available, now), "failed")
      BY <3>1, <3>2 DEF Moved
    <3> HIDE DEF available
    <3>5. Queue!End(j, "failed")
      BY <2>1, <3>2, <3>3, <3>4, SettleEnds
    <3> QED BY <2>2, <3>1, <3>5, EvidenceSame DEF Queue!Fail
  <2> QED BY <2>3, <2>4
<1>5. CASE AcknowledgeCancellation(j, n, token)
  <2>1. ActiveLease(j, n, token) /\ now' = now /\ CancelInstead(j, n)
    BY <1>5 DEF AcknowledgeCancellation, CancelInstead
  <2> QED BY <2>1, OwnerView, CancelView DEF Queue!Acknowledge, Queue!QueueNext
<1>6. ASSUME NEW document \in Documents, CompleteJob(j, n, token, document)
      PROVE  Queue!Complete(j, token, document)
  <2>1. ActiveLease(j, n, token) /\ now' = now
    BY <1>6 DEF CompleteJob
  <2>2. Queue!Owns(j, token)
    BY <2>1, OwnerView
  <2>3. CASE CancelInstead(j, n)
    BY <2>1, <2>2, <2>3, CancelView DEF Queue!Complete
  <2>4. CASE ~CancelInstead(j, n)
    <3> DEFINE available == jobs[j].available_at
               row == [author |-> token, document |-> document]
    <3>1. /\ Settle(j, n, Moved(j, "succeeded", TransitionAt(j)), "succeeded")
          /\ evidence' = [evidence EXCEPT ![j] = row] /\ jobs[j].status = "running"
      BY <1>6, <2>4 DEF CompleteJob
    <3>2. /\ n = jobs[j].attempt_count /\ TransitionAt(j) = now
          /\ attempts[j][n].lease_expires_at > now /\ available \in Nat
      BY <2>1, LeaseHolder
    <3>3. EndsAs(j, n, "succeeded", "succeeded", available)
      BY <3>2 DEF EndsAs
    <3>4. Settle(j, n, TransitionTo(j, "succeeded", n, available, now), "succeeded")
      BY <3>1, <3>2 DEF Moved
    <3>5. /\ evidence'[j].author = token /\ evidence'[j].document = document
          /\ \A i \in Jobs : i # j => evidence'[i] = evidence[i]
      BY <3>1 DEF IInv, TypeOK
    <3>6. /\ [i \in Jobs |-> evidence'[i].document]
               = [[i \in Jobs |-> evidence[i].document] EXCEPT ![j] = document]
          /\ [i \in Jobs |-> evidence'[i].author]
               = [[i \in Jobs |-> evidence[i].author] EXCEPT ![j] = token]
      BY <3>5
    <3> HIDE DEF available, row
    <3>7. Queue!End(j, "succeeded")
      BY <2>1, <3>2, <3>3, <3>4, SettleEnds
    <3> QED BY <2>2, <3>1, <3>6, <3>7 DEF Queue!Complete
  <2> QED BY <2>3, <2>4
<1> QED
  BY <1>1, <1>2, <1>3, <1>4, <1>5, <1>6 DEF Queue!QueueNext

(***************************************************************************)
(* The other methods                                                       *)
(***************************************************************************)

\* begin_job is Submit of the queue, and cancel_job its Cancel.
LEMMA RequestView ==
    ASSUME IInv, NEW j \in Jobs, BeginJob(j) \/ CancelJob(j)
    PROVE  Queue!Submit(j) \/ Queue!Cancel(j)
<1>1. /\ TypeOK /\ JobInvariant(j) /\ now' = now /\ attempts' = attempts /\ evidence' = evidence
  BY DEF IInv, BeginJob, CancelJob
<1>2. \A i \in Jobs : i # j => jobs'[i] = jobs[i]
  BY <1>1 DEF TypeOK, BeginJob, CancelJob
<1>3. \A i \in Jobs : i # j => Same(i)
  BY <1>1, <1>2, RowsSame
<1>4. Issued' = Issued
  BY <1>1, IssuedSame
<1>5. CASE BeginJob(j)
  <2>1. /\ jobs[j].status = "absent" /\ jobs'[j].status = "queued" /\ jobs'[j].attempt_count = 0
        /\ jobs[j].attempt_count = 0
    BY <1>1, <1>5, JobColumns, JobStoreAssumption
       DEF BeginJob, TypeOK, JobInvariant, History, Absent
  <2>2. LatestToken(j)' = LatestToken(j) /\ LeaseIsLive(j)' = LeaseIsLive(j)
    BY <2>1 DEF LatestToken, LeaseIsLive, Active
  <2>3. Claimable(j)' \in BOOLEAN
    BY DEF Claimable
  <2>4. [i \in Jobs |-> jobs'[i].status] = [[i \in Jobs |-> jobs[i].status] EXCEPT ![j] = "queued"]
    BY <1>3, <2>1 DEF Same
  <2>5. [i \in Jobs |-> jobs'[i].attempt_count] = [i \in Jobs |-> jobs[i].attempt_count]
    BY <1>3, <2>1 DEF Same
  <2>6. [i \in Jobs |-> LatestToken(i)'] = [i \in Jobs |-> LatestToken(i)]
    BY <1>3, <2>2 DEF Same
  <2>7. [i \in Jobs |-> LeaseIsLive(i)'] = [i \in Jobs |-> LeaseIsLive(i)]
    BY <1>3, <2>2 DEF Same
  <2>8. [i \in Jobs |-> Claimable(i)']
           = [[i \in Jobs |-> Claimable(i)] EXCEPT ![j] = Claimable(j)']
    BY <1>3 DEF Same
  <2> QED
    BY <1>1, <1>4, <2>1, <2>3, <2>4, <2>5, <2>6, <2>7, <2>8, EvidenceSame DEF Queue!Submit
<1>6. CASE CancelJob(j)
  <2>1. /\ jobs'[j].attempt_count = jobs[j].attempt_count
        /\ \/ jobs[j].status = "queued" /\ jobs'[j].status = "canceled"
           \/ jobs[j].status = "running" /\ jobs'[j].status = "cancel_requested"
    BY <1>1, <1>6, TransitionToColumns DEF CancelJob, TypeOK, Moved
  <2>2. LatestToken(j)' = LatestToken(j) /\ LeaseIsLive(j)' = LeaseIsLive(j)
    BY <1>1, <2>1 DEF LatestToken, LeaseIsLive, Active
  <2>3. Claimable(j)' = FALSE /\ (jobs[j].status = "running" => Claimable(j) = FALSE)
    BY <2>1 DEF Claimable
  <2>4. [i \in Jobs |-> jobs'[i].status]
           = [[i \in Jobs |-> jobs[i].status] EXCEPT ![j] = jobs'[j].status]
    BY <1>3 DEF Same
  <2>5. [i \in Jobs |-> jobs'[i].attempt_count] = [i \in Jobs |-> jobs[i].attempt_count]
    BY <1>3, <2>1 DEF Same
  <2>6. [i \in Jobs |-> LatestToken(i)'] = [i \in Jobs |-> LatestToken(i)]
    BY <1>3, <2>2 DEF Same
  <2>7. [i \in Jobs |-> LeaseIsLive(i)'] = [i \in Jobs |-> LeaseIsLive(i)]
    BY <1>3, <2>2 DEF Same
  <2>8. [i \in Jobs |-> Claimable(i)'] = [[i \in Jobs |-> Claimable(i)] EXCEPT ![j] = FALSE]
    BY <1>3, <2>3 DEF Same
  <2>9. jobs[j].status = "running" =>
           [i \in Jobs |-> Claimable(i)'] = [i \in Jobs |-> Claimable(i)]
    BY <1>3, <2>3 DEF Same
  <2> QED
    BY <1>1, <1>4, <2>1, <2>4, <2>5, <2>6, <2>7, <2>8, <2>9, EvidenceSame DEF Queue!Cancel
<1> QED
  BY <1>5, <1>6

\* claim_next_job is Claim: the new token is issued, and the row it is written to had none.
LEMMA ClaimView ==
    ASSUME RInv, NEW token \in Tokens, ClaimNextJob(token)
    PROVE  \E j \in Jobs : Queue!Claim(j, token)
<1> DEFINE N(j) == jobs[j].attempt_count + 1
           Row(j) == TransitionTo(j, "running", N(j), jobs[j].available_at, TransitionAt(j))
<1>1. PICK j \in Jobs :
          /\ Claimable(j)
          /\ jobs[j].attempt_count < MaxAttempts
          /\ jobs' = [jobs EXCEPT ![j] = Row(j)]
          /\ attempts' = [attempts EXCEPT ![j][N(j)] = Leased(token, now)]
  BY DEF ClaimNextJob
<1>2. /\ TypeOK /\ JobInvariant(j) /\ now' = now /\ evidence' = evidence
      /\ token \notin Issued /\ now \in Nat
  BY DEF RInv, IInv, ClaimNextJob, TypeOK
<1>3. N(j) \in Numbers /\ N(j) # 0 /\ N(j) > jobs[j].attempt_count
  BY <1>1, <1>2, JobColumns, JobStoreAssumption DEF Numbers
<1>4. /\ jobs'[j] = Row(j)
      /\ \A i \in Jobs : i # j => jobs'[i] = jobs[i]
  BY <1>1, <1>2 DEF TypeOK
<1>5. Row(j).status = "running" /\ Row(j).attempt_count = N(j)
  BY TransitionToColumns
<1> DEFINE n == N(j)
<1>6. /\ n \in Numbers /\ n = jobs[j].attempt_count + 1 /\ n # 0
      /\ attempts[j][n].status = Absent
  BY <1>2, <1>3 DEF JobInvariant, History
<1>7. attempts' = [attempts EXCEPT ![j][n] = Leased(token, now)]
  BY <1>1
<1>8. jobs'[j].status = "running" /\ jobs'[j].attempt_count = n
  BY <1>4, <1>5
<1> HIDE DEF n, N, Row
<1>9. /\ attempts'[j][n] = Leased(token, now)
      /\ \A m \in Numbers : m # n => attempts'[j][m] = attempts[j][m]
      /\ \A i \in Jobs : i # j => attempts'[i] = attempts[i]
  BY <1>2, <1>6, <1>7 DEF TypeOK
<1>10. attempts'[j][n].token = token /\ attempts'[j][n].lease_expires_at = now + LeaseSeconds
  BY <1>9, LeasedColumns
<1>11. \A i \in Jobs : i # j => Same(i)
  BY <1>2, <1>4, <1>9, RowsSame
<1>12. LatestToken(j)' = token
  BY <1>6, <1>8, <1>10 DEF LatestToken
<1>13. LeaseIsLive(j)' = TRUE
  <2>1. now + LeaseSeconds > now
    BY <1>2, JobStoreAssumption
  <2> QED BY <1>2, <1>8, <1>10, <2>1 DEF LeaseIsLive, Active
<1>14. Claimable(j)' = FALSE
  BY <1>8 DEF Claimable
<1>15. Issued' = Issued \cup {token}
  <2>1. attempts[j][n].token = NoToken
    BY <1>6 DEF RInv, RowsWithoutToken
  <2>2. \A i \in Jobs, m \in Numbers :
            attempts'[i][m].token = IF i = j /\ m = n THEN token ELSE attempts[i][m].token
    BY <1>9, <1>10
  <2> QED BY <1>6, <2>1, <2>2, JobStoreAssumption DEF Issued
<1>16. /\ [i \in Jobs |-> jobs'[i].status]
            = [[i \in Jobs |-> jobs[i].status] EXCEPT ![j] = "running"]
       /\ [i \in Jobs |-> jobs'[i].attempt_count]
            = [[i \in Jobs |-> jobs[i].attempt_count] EXCEPT ![j] = n]
  BY <1>8, <1>11 DEF Same
<1>17. [i \in Jobs |-> LatestToken(i)'] = [[i \in Jobs |-> LatestToken(i)] EXCEPT ![j] = token]
  BY <1>11, <1>12 DEF Same
<1>18. [i \in Jobs |-> LeaseIsLive(i)'] = [[i \in Jobs |-> LeaseIsLive(i)] EXCEPT ![j] = TRUE]
  BY <1>11, <1>13 DEF Same
<1>19. [i \in Jobs |-> Claimable(i)'] = [[i \in Jobs |-> Claimable(i)] EXCEPT ![j] = FALSE]
  BY <1>11, <1>14 DEF Same
<1>20. Claimable(j) = TRUE /\ jobs[j].status = "queued"
  BY <1>1 DEF Claimable
<1> QED
  BY <1>1, <1>2, <1>6, <1>15, <1>16, <1>17, <1>18, <1>19, <1>20, EvidenceSame DEF Queue!Claim

\* What the reaper leaves of an expired job is the queue's verdict.
LEMMA ReapedView ==
    ASSUME IInv, NEW j \in Jobs, ExpiredLease(j), now' = now,
           jobs'[j] = ReapedJob(j),
           attempts'[j] = [attempts[j] EXCEPT ![jobs[j].attempt_count] =
                              Finished(@, ReapedAttempt(j), TransitionAt(j))]
    PROVE  /\ jobs'[j].status = IF jobs[j].status = "cancel_requested" THEN "canceled"
                                ELSE IF jobs[j].attempt_count < MaxAttempts THEN "queued"
                                ELSE "failed"
           /\ jobs'[j].attempt_count = jobs[j].attempt_count
           /\ LatestToken(j)' = LatestToken(j)
           /\ LeaseIsLive(j)' = LeaseIsLive(j)
           /\ Claimable(j)' = Claimable(j)
           /\ \A m \in Numbers : attempts'[j][m].token = attempts[j][m].token
           /\ jobs[j].status \in {"running", "cancel_requested"} /\ LeaseIsLive(j) = FALSE
<1>1. TypeOK /\ Active(j)
  BY DEF IInv, ExpiredLease, Active
<1>2. PICK n \in Numbers : n = jobs[j].attempt_count /\ TransitionAt(j) = now
  BY ReapedRows
<1>3. PICK st \in JobStatus, available \in Nat :
          /\ ReapedJob(j) = TransitionTo(j, st, n, available, now)
          /\ EndsAs(j, n, st, ReapedAttempt(j), available)
  BY <1>2, ReapedRows
<1>4. /\ attempts'[j][n] = Finished(attempts[j][n], ReapedAttempt(j), now)
      /\ \A m \in Numbers : m # n => attempts'[j][m] = attempts[j][m]
  BY <1>1, <1>2 DEF TypeOK
<1>5. JobBecomes(j, st, n, available) /\ AttemptEnds(j, n, ReapedAttempt(j))
  BY <1>3, <1>4, TransitionToColumns, FinishedColumns DEF JobBecomes, AttemptEnds
<1>6. /\ jobs'[j].attempt_count = jobs[j].attempt_count
      /\ LatestToken(j)' = LatestToken(j)
      /\ LeaseIsLive(j)' = FALSE
      /\ Claimable(j) = FALSE /\ Claimable(j)' = FALSE
      /\ \A m \in Numbers : attempts'[j][m].token = attempts[j][m].token
  BY <1>1, <1>2, <1>3, <1>5, SettledView
<1>7. LeaseIsLive(j) = FALSE
  BY <1>1, <1>2, AttemptColumns DEF LeaseIsLive, ExpiredLease, TypeOK
<1>8. jobs'[j].status = IF jobs[j].status = "cancel_requested" THEN "canceled"
                        ELSE IF jobs[j].attempt_count < MaxAttempts THEN "queued"
                        ELSE "failed"
  <2>1. jobs[j].attempt_count < MaxAttempts <=> ~(jobs[j].attempt_count >= MaxAttempts)
    BY <1>2, JobStoreAssumption DEF Numbers
  <2> QED BY <2>1, TransitionToColumns DEF ReapedJob, Moved, Requeued
<1> QED
  BY <1>1, <1>6, <1>7, <1>8 DEF Active

\* reap_expired_jobs is Reap of the same batch.
LEMMA ReapView ==
    ASSUME IInv, ReapExpiredJobs
    PROVE  \E batch \in SUBSET Jobs : Queue!Reap(batch)
<1>1. PICK batch \in SUBSET {j \in Jobs : ExpiredLease(j)} :
        /\ batch # {} /\ Cardinality(batch) <= ReapLimit
        /\ jobs' = [j \in Jobs |-> IF j \in batch THEN ReapedJob(j) ELSE jobs[j]]
        /\ attempts' = [j \in Jobs |->
              IF j \in batch
              THEN [attempts[j] EXCEPT ![jobs[j].attempt_count] =
                       Finished(@, ReapedAttempt(j), TransitionAt(j))]
              ELSE attempts[j]]
  BY DEF ReapExpiredJobs
<1>2. now' = now /\ evidence' = evidence
  BY DEF ReapExpiredJobs
<1>3. ASSUME NEW j \in Jobs, j \notin batch
      PROVE  Same(j) /\ attempts'[j] = attempts[j]
  BY <1>1, <1>2, <1>3, RowsSame
<1>4. ASSUME NEW j \in Jobs, j \in batch
      PROVE  /\ jobs'[j].status = Queue!Verdict(j)
             /\ jobs'[j].attempt_count = jobs[j].attempt_count
             /\ LatestToken(j)' = LatestToken(j)
             /\ LeaseIsLive(j)' = LeaseIsLive(j)
             /\ Claimable(j)' = Claimable(j)
             /\ \A m \in Numbers : attempts'[j][m].token = attempts[j][m].token
             /\ Queue!Expired(j)
  <2>1. /\ ExpiredLease(j) /\ jobs'[j] = ReapedJob(j)
        /\ attempts'[j] = [attempts[j] EXCEPT ![jobs[j].attempt_count] =
                              Finished(@, ReapedAttempt(j), TransitionAt(j))]
    BY <1>1, <1>4
  <2> QED BY <1>2, <2>1, ReapedView DEF Queue!Verdict, Queue!Expired, Queue!Owned
<1>5. Issued' = Issued
  <2>1. \A i \in Jobs, m \in Numbers : attempts'[i][m].token = attempts[i][m].token
    BY <1>3, <1>4
  <2> QED BY <2>1, IssuedSame
<1>6. [j \in Jobs |-> jobs'[j].status]
        = [j \in Jobs |-> IF j \in batch THEN Queue!Verdict(j) ELSE jobs[j].status]
  BY <1>3, <1>4 DEF Same
<1>7. /\ [j \in Jobs |-> jobs'[j].attempt_count] = [j \in Jobs |-> jobs[j].attempt_count]
      /\ [j \in Jobs |-> LatestToken(j)'] = [j \in Jobs |-> LatestToken(j)]
      /\ [j \in Jobs |-> LeaseIsLive(j)'] = [j \in Jobs |-> LeaseIsLive(j)]
      /\ [j \in Jobs |-> Claimable(j)'] = [j \in Jobs |-> Claimable(j)]
  BY <1>3, <1>4 DEF Same
<1>8. batch \in SUBSET Jobs /\ \A j \in batch : Queue!Expired(j)
  BY <1>4
<1>9. Queue!Reap(batch)
  <2>1. batch \subseteq {j \in Jobs : Queue!Expired(j)}
    BY <1>8
  <2>2. [j \in Jobs |-> jobs'[j].status]
          = [j \in Jobs |-> IF j \in batch THEN Queue!Verdict(j)
                            ELSE [i \in Jobs |-> jobs[i].status][j]]
    BY <1>6
  <2>3. Queue!Cardinality(batch) = Cardinality(batch)
    BY DEF Queue!Cardinality, Cardinality
  <2> QED BY <1>1, <1>2, <1>5, <1>7, <2>1, <2>2, <2>3, EvidenceSame DEF Queue!Reap
<1> QED
  BY <1>8, <1>9

\* A tick is Elapse: it ends the leases and the delays that it ends.
LEMMA TickView ==
    ASSUME IInv, Tick
    PROVE  \E out, due \in SUBSET Jobs : Queue!Elapse(out, due)
<1> DEFINE out == {j \in Jobs : LeaseIsLive(j) /\ ~LeaseIsLive(j)'}
           due == {j \in Jobs : Claimable(j)'}
<1>1. /\ TypeOK /\ now \in Nat /\ now' = now + 1
      /\ jobs' = jobs /\ attempts' = attempts /\ evidence' = evidence
  BY DEF IInv, TypeOK, Tick
<1>2. ASSUME NEW j \in Jobs
      PROVE  /\ LeaseIsLive(j)' = (LeaseIsLive(j) /\ j \notin out)
             /\ Claimable(j)' = (Claimable(j) \/ j \in due)
             /\ j \in due => jobs[j].status = "queued"
             /\ LatestToken(j)' = LatestToken(j)
  <2>1. LeaseIsLive(j)' => LeaseIsLive(j)
    <3>1. CASE Active(j)
      <4>1. jobs[j].attempt_count \in Numbers
        BY <1>1, <3>1, ActiveClock DEF IInv
      <4>2. attempts[j][jobs[j].attempt_count].lease_expires_at \in Nat
        BY <1>1, <4>1, AttemptColumns
      <4> QED BY <1>1, <4>2 DEF LeaseIsLive, Active
    <3>2. CASE ~Active(j)
      BY <1>1, <3>2 DEF LeaseIsLive, Active
    <3> QED BY <3>1, <3>2
  <2>2. LeaseIsLive(j) \in BOOLEAN /\ LeaseIsLive(j)' \in BOOLEAN
    BY DEF LeaseIsLive
  <2>3. LeaseIsLive(j)' = (LeaseIsLive(j) /\ j \notin out)
    BY <2>1, <2>2
  <2>4. Claimable(j) => Claimable(j)'
    BY <1>1, JobColumns DEF Claimable
  <2>5. Claimable(j) \in BOOLEAN /\ Claimable(j)' \in BOOLEAN
    BY DEF Claimable
  <2>6. Claimable(j)' = (Claimable(j) \/ j \in due)
    BY <2>4, <2>5
  <2>7. j \in due => jobs[j].status = "queued"
    BY <1>1 DEF Claimable
  <2>8. LatestToken(j)' = LatestToken(j)
    BY <1>1 DEF LatestToken
  <2> QED BY <2>3, <2>6, <2>7, <2>8
<1>3. out \in SUBSET Jobs /\ due \in SUBSET Jobs /\ out \subseteq {j \in Jobs : LeaseIsLive(j)}
  OBVIOUS
<1>4. Issued' = Issued
  BY <1>1, IssuedSame
<1> HIDE DEF out, due
<1>5. /\ [j \in Jobs |-> LeaseIsLive(j)'] = [j \in Jobs |-> LeaseIsLive(j) /\ j \notin out]
      /\ [j \in Jobs |-> Claimable(j)'] = [j \in Jobs |-> Claimable(j) \/ j \in due]
      /\ [j \in Jobs |-> LatestToken(j)'] = [j \in Jobs |-> LatestToken(j)]
  BY <1>2
<1>6. due \subseteq {j \in Jobs : jobs[j].status = "queued"}
  BY <1>2, <1>3
<1>7. Queue!Elapse(out, due)
  BY <1>1, <1>3, <1>4, <1>5, <1>6, EvidenceSame DEF Queue!Elapse
<1> QED
  BY <1>3, <1>7

(***************************************************************************)
(* The refinement                                                          *)
(***************************************************************************)

\* A row that is written exists.
LEMMA RowWritten ==
    ASSUME TypeOK, RowsWithoutToken, NEW j \in Jobs, NEW n, NEW row, row.status # Absent,
           attempts' = [attempts EXCEPT ![j][n] = row]
    PROVE  RowsWithoutToken'
<1> SUFFICES ASSUME NEW i \in Jobs, NEW m \in Numbers, attempts'[i][m].status = Absent
             PROVE  attempts'[i][m].token = NoToken
  BY DEF RowsWithoutToken
<1>1. attempts'[i][m] = attempts[i][m] \/ attempts'[i][m] = row
  BY DEF TypeOK
<1> QED
  BY <1>1 DEF RowsWithoutToken

\* So does the row of a settled attempt.
LEMMA RowSettled ==
    ASSUME TypeOK, RowsWithoutToken, NEW j \in Jobs, NEW n, NEW row,
           NEW outcome, outcome # Absent, Settle(j, n, row, outcome)
    PROVE  RowsWithoutToken'
<1>1. Finished(attempts[j][n], outcome, TransitionAt(j)).status # Absent
  BY FinishedColumns
<1> QED
  BY <1>1, RowWritten DEF Settle

\* A row of an attempt that does not exist never gets a token.
LEMMA NextRows ==
    ASSUME RInv, [Next]_vars
    PROVE  RowsWithoutToken'
<1>1. TypeOK /\ RowsWithoutToken
  BY DEF RInv, IInv
<1>2. CASE attempts' = attempts
  BY <1>1, <1>2 DEF RowsWithoutToken
<1>3. ASSUME NEW token \in Tokens, ClaimNextJob(token)
      PROVE  RowsWithoutToken'
  <2>1. PICK j \in Jobs :
            attempts' = [attempts EXCEPT ![j][jobs[j].attempt_count + 1] = Leased(token, now)]
    BY <1>3 DEF ClaimNextJob
  <2>2. Leased(token, now).status # Absent
    BY LeasedColumns DEF Absent
  <2> QED BY <1>1, <2>1, <2>2, RowWritten
<1>4. CASE FencedCall
  <2>1. PICK j \in Jobs, n \in Numbers, token \in Tokens :
            \/ HeartbeatJob(j, n, token)
            \/ \E delay \in RetryDelays : RetryJob(j, n, token, delay)
            \/ FailJob(j, n, token)
            \/ AcknowledgeCancellation(j, n, token)
            \/ \E document \in Documents : CompleteJob(j, n, token, document)
    BY <1>1, <1>4, IssuedAreTokens DEF FencedCall
  <2>2. CASE HeartbeatJob(j, n, token)
    <3>1. Leased(token, attempts[j][n].started_at).status # Absent
      BY LeasedColumns DEF Absent
    <3> QED BY <1>1, <2>2, <3>1, RowWritten DEF HeartbeatJob
  <2>3. CASE ~HeartbeatJob(j, n, token)
    <3>1. \E row : \E outcome \in AttemptStatus : Settle(j, n, row, outcome)
      BY <2>1, <2>3 DEF RetryJob, FailJob, AcknowledgeCancellation, CompleteJob,
         CancelInstead, CancelActiveAttempt, AttemptStatus
    <3>2. PICK row : \E outcome \in AttemptStatus : Settle(j, n, row, outcome)
      BY <3>1
    <3>3. PICK outcome \in AttemptStatus : Settle(j, n, row, outcome)
      BY <3>2
    <3>4. outcome # Absent
      BY DEF AttemptStatus, Absent
    <3> QED BY <1>1, <3>3, <3>4, RowSettled
  <2> QED BY <2>2, <2>3
<1>5. CASE ReapExpiredJobs
  <2>1. PICK batch \in SUBSET {j \in Jobs : ExpiredLease(j)} :
          attempts' = [j \in Jobs |->
              IF j \in batch
              THEN [attempts[j] EXCEPT ![jobs[j].attempt_count] =
                       Finished(@, ReapedAttempt(j), TransitionAt(j))]
              ELSE attempts[j]]
    BY <1>5 DEF ReapExpiredJobs
  <2> SUFFICES ASSUME NEW i \in Jobs, NEW m \in Numbers, attempts'[i][m].status = Absent
               PROVE  attempts'[i][m].token = NoToken
    BY DEF RowsWithoutToken
  <2>2. Finished(attempts[i][m], ReapedAttempt(i), TransitionAt(i)).status # Absent
    BY FinishedColumns DEF ReapedAttempt, Absent
  <2>3. \/ attempts'[i][m] = attempts[i][m]
        \/ attempts'[i][m] = Finished(attempts[i][m], ReapedAttempt(i), TransitionAt(i))
    BY <1>1, <2>1 DEF TypeOK
  <2> QED BY <1>1, <2>2, <2>3 DEF RowsWithoutToken
<1> QED
  BY <1>2, <1>3, <1>4, <1>5 DEF Next, BeginJob, CancelJob, Tick, vars

\* The tables start empty.
LEMMA InitRows == Init => RowsWithoutToken
BY DEF Init, RowsWithoutToken, NoAttempt

\* The invariant the refinement is read under.
LEMMA RInvariant == Spec => []RInv
<1>1. Init => RInv
  BY InitInvariant, InitRows DEF RInv
<1>2. RInv /\ [Next]_vars => RInv'
  BY NextInvariant, NextRows DEF RInv
<1> QED
  BY <1>1, <1>2, PTL DEF Spec

\* Without rows the queue is empty.
LEMMA InitView == Init => Queue!QueueInit
<1> SUFFICES ASSUME Init PROVE Queue!QueueInit
  OBVIOUS
<1>1. \A j \in Jobs : jobs[j].status = "absent" /\ jobs[j].attempt_count = 0
  BY DEF Init, NoJob, Absent
<1>2. \A j \in Jobs : LatestToken(j) = NoToken /\ LeaseIsLive(j) = FALSE /\ Claimable(j) = FALSE
  BY <1>1 DEF LatestToken, LeaseIsLive, Active, Claimable
<1>3. \A j \in Jobs : evidence[j].document = NoDocument /\ evidence[j].author = NoToken
  BY DEF Init, NoEvidence
<1>4. Issued = {}
  BY DEF Init, NoAttempt, Issued
<1> QED
  BY <1>1, <1>2, <1>3, <1>4 DEF Queue!QueueInit

\* Every transaction of the repository and every tick is a step of the queue, or none.
LEMMA NextView ==
    ASSUME RInv, [Next]_vars
    PROVE  [Queue!QueueNext]_Queue!queueVars
<1>1. IInv
  BY DEF RInv
<1>2. ASSUME NEW j \in Jobs, BeginJob(j) \/ CancelJob(j)
      PROVE  Queue!QueueNext
  BY <1>1, <1>2, RequestView DEF Queue!QueueNext
<1>3. ASSUME NEW token \in Tokens, ClaimNextJob(token)
      PROVE  Queue!QueueNext
  BY <1>3, ClaimView DEF Queue!QueueNext
<1>4. CASE FencedCall
  BY <1>1, <1>4, FencedCallView
<1>5. CASE ReapExpiredJobs
  BY <1>1, <1>5, ReapView DEF Queue!QueueNext
<1>6. CASE Tick
  BY <1>1, <1>6, TickView DEF Queue!QueueNext
<1>7. CASE UNCHANGED vars
  <2>1. \A i \in Jobs : Same(i)
    BY <1>7, RowsSame DEF vars
  <2>2. Issued' = Issued /\ evidence' = evidence
    BY <1>7, IssuedSame DEF vars
  <2> QED BY <2>1, <2>2, ViewSame
<1> QED
  BY <1>2, <1>3, <1>4, <1>5, <1>6, <1>7 DEF Next

\* The tables keep the promise of the queue that workers and clients rely on: whatever
\* the order of the repository's transactions, each is one of the queue's steps.
THEOREM JobStoreImplementsLeaseQueue == Spec => ImplementsLeaseQueue
<1>1. RInv /\ [Next]_vars => [Queue!QueueNext]_Queue!queueVars
  BY NextView
<1> QED
  BY <1>1, InitView, RInvariant, PTL DEF Spec, ImplementsLeaseQueue, Queue!QueueSpec
=============================================================================
