---------------------------- MODULE ExecutionProofs ----------------------------
(***************************************************************************)
(* The safety of the execution of jobs: of the fleet of workers that       *)
(* execute them (WorkerFleet), for any number of workers, jobs, tokens and *)
(* faults, and of the evidence they leave (ReleaseEvidence), for any       *)
(* number of versions, suites, datasets and jobs.                          *)
(***************************************************************************)
EXTENDS WorkerFleet, ReleaseEvidence, TLAPS

(***************************************************************************)
(* The worker fleet                                                        *)
(*                                                                         *)
(* What a worker believes about a job is about its own lease token.  Since *)
(* tokens are issued once, a step of the queue that another worker, the    *)
(* reaper, a client or the clock takes can only take the lease away from   *)
(* it, and once a job has ended nothing about it changes (Kept).           *)
(***************************************************************************)

\* The queue may do anything but give a lease back or touch a job that has ended.
Kept(j, t) ==
    /\ status[j] \in Ended => status'[j] = status[j] /\ author'[j] = author[j]
    /\ Owns(j, t)' => Owns(j, t)
    /\ holder'[j] = t => holder[j] = t /\ tries'[j] = tries[j]

\* What a worker's claim says about the queue.
ClaimStands(w) ==
    claim[w] # NoClaim =>
        /\ claim[w].token \in issued
        /\ holder[claim[w].job] = claim[w].token => tries[claim[w].job] = claim[w].tries

\* What its last report says.
ReportStands(w) ==
    /\ result[w] # "invariant_error"
    /\ result[w] # "none" => claim[w] # NoClaim
    /\ result[w] \in Ended => status[claim[w].job] = result[w]
    /\ result[w] = "succeeded" => author[claim[w].job] = claim[w].token
    /\ result[w] # "none" => ~Holds(w)

\* Whoever is at work has a claim, and whoever asks for one has reported on the last.
Working(w) ==
    /\ pc[w] \in {"work", "acknowledge", "settle"} => claim[w] # NoClaim
    /\ pc[w] = "claim" => result[w] = "none"

FleetInv ==
    /\ FleetTypeOK
    /\ \A w \in Workers : ClaimStands(w) /\ ReportStands(w) /\ Working(w)

(***************************************************************************)
(* The queue                                                               *)
(***************************************************************************)

\* Every step of the queue keeps its types and what is known under an issued token.
LEMMA QueueStep ==
    ASSUME QueueTypeOK, [QueueNext]_queueVars
    PROVE  /\ QueueTypeOK'
           /\ issued \subseteq issued'
           /\ \A j \in Jobs, t \in issued : Kept(j, t)
<1> USE LeaseQueueAssumption
<1>1. CASE UNCHANGED queueVars
  BY <1>1 DEF QueueTypeOK, queueVars, Kept, Owns, Owned
<1>2. ASSUME NEW i \in Jobs, Submit(i) \/ Cancel(i)
      PROVE  QueueTypeOK' /\ issued \subseteq issued' /\ \A j \in Jobs, t \in issued : Kept(j, t)
  <2>1. CASE Submit(i)
    BY <2>1 DEF Submit, QueueTypeOK, Kept, Owns, Owned, Ended
  <2>2. CASE Cancel(i)
    <3>1. QueueTypeOK'
      BY <2>2 DEF Cancel, QueueTypeOK
    <3>2. issued \subseteq issued' /\ \A j \in Jobs, t \in issued : Kept(j, t)
      BY <2>2 DEF Cancel, QueueTypeOK, Kept, Owns, Owned, Ended
    <3> QED BY <3>1, <3>2
  <2> QED BY <1>2, <2>1, <2>2
<1>3. ASSUME NEW i \in Jobs, NEW token \in Tokens, Claim(i, token)
      PROVE  QueueTypeOK' /\ issued \subseteq issued' /\ \A j \in Jobs, t \in issued : Kept(j, t)
  <2>1. QueueTypeOK'
    BY <1>3 DEF Claim, QueueTypeOK
  <2>2. issued \subseteq issued' /\ \A j \in Jobs, t \in issued : Kept(j, t)
    BY <1>3 DEF Claim, QueueTypeOK, Kept, Owns, Owned, Ended
  <2> QED BY <2>1, <2>2
<1>4. ASSUME NEW i \in Jobs, NEW token \in Tokens,
             Retry(i, token) \/ Fail(i, token) \/ Acknowledge(i, token)
      PROVE  QueueTypeOK' /\ issued \subseteq issued' /\ \A j \in Jobs, t \in issued : Kept(j, t)
  <2>1. CASE Retry(i, token)
    BY <2>1 DEF Retry, CancelOwned, End, QueueTypeOK, Kept, Owns, Owned, Ended
  <2>2. CASE Fail(i, token) \/ Acknowledge(i, token)
    BY <2>2 DEF Fail, Acknowledge, CancelOwned, End, QueueTypeOK, Kept, Owns, Owned, Ended
  <2> QED BY <1>4, <2>1, <2>2
<1>5. ASSUME NEW i \in Jobs, NEW token \in Tokens, NEW d \in Documents, Complete(i, token, d)
      PROVE  QueueTypeOK' /\ issued \subseteq issued' /\ \A j \in Jobs, t \in issued : Kept(j, t)
  <2>1. CASE CancelOwned(i)
    BY <2>1 DEF CancelOwned, End, QueueTypeOK, Kept, Owns, Owned, Ended
  <2>2. CASE /\ status[i] = "running" /\ End(i, "succeeded")
             /\ document' = [document EXCEPT ![i] = d]
             /\ author' = [author EXCEPT ![i] = token]
    <3>1. QueueTypeOK'
      BY <2>2 DEF End, QueueTypeOK
    <3>2. issued \subseteq issued' /\ \A j \in Jobs, t \in issued : Kept(j, t)
      BY <2>2 DEF End, QueueTypeOK, Kept, Owns, Owned, Ended
    <3> QED BY <3>1, <3>2
  <2> QED BY <1>5, <2>1, <2>2 DEF Complete
<1>6. ASSUME NEW batch \in SUBSET Jobs, Reap(batch)
      PROVE  QueueTypeOK' /\ issued \subseteq issued' /\ \A j \in Jobs, t \in issued : Kept(j, t)
  BY <1>6 DEF Reap, Verdict, Expired, QueueTypeOK, Kept, Owns, Owned, Ended
<1>7. ASSUME NEW out \in SUBSET Jobs, NEW due \in SUBSET Jobs, Elapse(out, due)
      PROVE  QueueTypeOK' /\ issued \subseteq issued' /\ \A j \in Jobs, t \in issued : Kept(j, t)
  BY <1>7 DEF Elapse, QueueTypeOK, Kept, Owns, Owned, Ended
<1> QED
  BY <1>1, <1>2, <1>3, <1>4, <1>5, <1>6, <1>7 DEF QueueNext

(***************************************************************************)
(* What one worker does                                                    *)
(***************************************************************************)

AtWork == {"work", "acknowledge", "settle"}

\* The worker lets go of its claim,
Cleared(w) == claim'[w] = NoClaim /\ result'[w] = "none" /\ pc'[w] \notin AtWork

\* goes on with it,
Continued(w) ==
    /\ claim'[w] = claim[w] /\ result'[w] = result[w]
    /\ pc'[w] \in AtWork => claim[w] # NoClaim
    /\ pc'[w] # "claim"

\* takes a new one,
Claimed(w) ==
    /\ claim'[w] # NoClaim /\ claim'[w].token \in issued' \ issued
    /\ tries'[claim'[w].job] = claim'[w].tries
    /\ result[w] = "none" /\ result'[w] = "none"

\* or reports on the one it has.
Reported(w) ==
    /\ claim[w] # NoClaim /\ claim'[w] = claim[w] /\ pc'[w] = "poll"
    /\ result'[w] \notin {"none", "invariant_error"}
    /\ result'[w] \in Ended => status'[claim[w].job] = result'[w]
    /\ result'[w] = "succeeded" => author'[claim[w].job] = claim[w].token
    /\ ~Owned(claim[w].job)' \/ holder'[claim[w].job] # claim[w].token \/ ~live'[claim[w].job]

Alone(w) ==
    \A v \in Workers \ {w} : pc'[v] = pc[v] /\ claim'[v] = claim[v] /\ result'[v] = result[v]

Acted(w) ==
    /\ [QueueNext]_queueVars
    /\ WorkersTyped'
    /\ Alone(w)
    /\ Cleared(w) \/ Continued(w) \/ Claimed(w) \/ Reported(w)

\* A fault that is counted leaves the count a number within its bound.
LEMMA FaultTyped ==
    ASSUME faults \in 0 .. MaxFaults, Fault \/ NoFault
    PROVE  faults' \in 0 .. MaxFaults
BY WorkerFleetAssumption DEF Fault, NoFault

\* Dropping a claim is safe whatever the queue does.
LEMMA DropStep ==
    ASSUME WorkersTyped, NEW w \in Workers, Drop(w), Fault \/ NoFault, [QueueNext]_queueVars
    PROVE  Acted(w)
<1>1. faults' \in 0 .. MaxFaults
  BY FaultTyped DEF WorkersTyped
<1> QED
  BY <1>1 DEF Acted, Alone, Cleared, AtWork, WorkersTyped, Drop, Goto

\* A report that is true and given with the lease gone.
LEMMA ReportStep ==
    ASSUME WorkersTyped, NEW w \in Workers, claim[w] # NoClaim,
           NEW r \in {"succeeded", "failed", "canceled", "retry_scheduled", "lease_lost"},
           Return(w, r), NoFault, [QueueNext]_queueVars,
           r \in Ended => status'[claim[w].job] = r,
           r = "succeeded" => author'[claim[w].job] = claim[w].token,
           ~Owned(claim[w].job)' \/ holder'[claim[w].job] # claim[w].token \/ ~live'[claim[w].job]
    PROVE  Acted(w)
<1>1. WorkersTyped' /\ Alone(w)
  BY DEF WorkersTyped, Alone, Return, Goto, NoFault
<1>2. Reported(w)
  BY DEF WorkersTyped, Reported, Return, Goto
<1> QED
  BY <1>1, <1>2 DEF Acted

\* A settling call by the holder of the lease: whatever it is, it ends the attempt, and
\* the worker reads the job's new status from it.
LEMMA SettleStep ==
    ASSUME FleetInv, NEW w \in Workers, pc[w] \in AtWork,
           NEW expected \in {"succeeded", "failed", "canceled", "queued"},
           NEW r \in {"succeeded", "failed", "canceled", "retry_scheduled"},
           r = "retry_scheduled" \/ r = expected,
           [QueueNext]_queueVars,
           ~live'[claim[w].job],
           status'[claim[w].job] \in {"canceled", expected},
           expected = "succeeded" /\ status'[claim[w].job] = "succeeded" =>
               author'[claim[w].job] = claim[w].token,
           Answer(w, expected, r), NoFault
    PROVE  Acted(w)
<1>1. claim[w] # NoClaim /\ WorkersTyped
  BY DEF FleetInv, FleetTypeOK, Working, AtWork
<1>2. CASE status'[claim[w].job] = "canceled"
  <2>1. Return(w, "canceled")
    BY <1>2 DEF Answer
  <2> QED BY <1>1, <1>2, <2>1, ReportStep
<1>3. CASE status'[claim[w].job] = expected /\ status'[claim[w].job] # "canceled"
  <2>1. Return(w, r)
    BY <1>3 DEF Answer
  <2>2. r \in Ended => status'[claim[w].job] = r
    BY <1>3 DEF Ended
  <2>3. r = "succeeded" => author'[claim[w].job] = claim[w].token
    BY <1>3
  <2> QED BY <1>1, <2>1, <2>2, <2>3, ReportStep
<1> QED BY <1>2, <1>3

\* A call answered with a lost lease ends the execution: the worker knows nothing more.
LEMMA LeaseLostStep ==
    ASSUME FleetInv, NEW w \in Workers, pc[w] \in AtWork, LeaseLost(w)
    PROVE  Acted(w)
<1>1. claim[w] # NoClaim /\ WorkersTyped
  BY DEF FleetInv, FleetTypeOK, Working, AtWork
<1>2. UNCHANGED queueVars /\ Return(w, "lease_lost") /\ NoFault /\ claim' = claim
  BY DEF LeaseLost, Return
<1>3. ~Owned(claim[w].job)' \/ holder'[claim[w].job] # claim[w].token \/ ~live'[claim[w].job]
  BY <1>2 DEF LeaseLost, Holds, Owns, Owned, queueVars
<1> QED BY <1>1, <1>2, <1>3, ReportStep DEF Ended

\* A repository that cannot be reached makes the worker drop its claim.
LEMMA UnavailableStep ==
    ASSUME FleetInv, NEW w \in Workers, Unavailable(w)
    PROVE  Acted(w)
BY DropStep DEF FleetInv, FleetTypeOK, Unavailable

\* A heartbeat that finds the lease live goes on, or turns to the cancellation.
LEMMA HeartbeatStep ==
    ASSUME FleetInv, NEW w \in Workers, pc[w] = "work", NEW next \in {"work", "settle"},
           HeartbeatThen(w, next)
    PROVE  Acted(w)
<1>1. claim[w] # NoClaim /\ WorkersTyped
  BY DEF FleetInv, FleetTypeOK, Working
<1>2. CASE LeaseLost(w)
  BY <1>2, LeaseLostStep DEF AtWork
<1>3. CASE Unavailable(w)
  BY <1>3, UnavailableStep
<1>4. CASE /\ Heartbeat(claim[w].job, claim[w].token)
           /\ Goto(w, IF status[claim[w].job] = "cancel_requested" THEN "acknowledge" ELSE next)
           /\ NoFault /\ UNCHANGED <<claim, work, result>>
  <2>1. UNCHANGED queueVars
    BY <1>4 DEF Heartbeat
  <2>2. WorkersTyped' /\ Alone(w) /\ Continued(w)
    BY <1>1, <1>4 DEF WorkersTyped, Goto, NoFault, Alone, Continued
  <2> QED BY <2>1, <2>2 DEF Acted
<1> QED BY <1>2, <1>3, <1>4 DEF HeartbeatThen

\* The claim of a worker that is at work is one of the queue's jobs and tokens.
LEMMA ClaimTyped ==
    ASSUME FleetInv, NEW w \in Workers, pc[w] \in AtWork
    PROVE  claim[w] # NoClaim /\ claim[w].job \in Jobs /\ claim[w].token \in Tokens
BY DEF FleetInv, FleetTypeOK, WorkersTyped, Working, AtWork, Claims

\* complete_job settles the job as succeeded, answered or not.
LEMMA PublishStep ==
    ASSUME FleetInv, NEW w \in Workers, Publish(w)
    PROVE  Acted(w)
<1> DEFINE j == claim[w].job
           t == claim[w].token
<1>1. pc[w] \in AtWork /\ WorkersTyped /\ QueueTypeOK /\ j \in Jobs /\ t \in Tokens
  BY ClaimTyped DEF Publish, AtWork, FleetInv, FleetTypeOK
<1>2. ASSUME NEW d \in Documents, SettleBy(w, Complete(j, t, d), "succeeded", "succeeded")
      PROVE  Acted(w)
  <2>1. CASE Complete(j, t, d)
    <3>1. QueueNext
      BY <1>1, <2>1 DEF QueueNext
    <3>2. ~live'[j] /\ status'[j] \in {"canceled", "succeeded"}
      BY <1>1, <2>1 DEF Complete, CancelOwned, End, QueueTypeOK
    <3>3. status'[j] = "succeeded" => author'[j] = t
      BY <1>1, <2>1 DEF Complete, CancelOwned, End, QueueTypeOK
    <3>4. CASE Answer(w, "succeeded", "succeeded") /\ NoFault
      BY <1>1, <3>1, <3>2, <3>3, <3>4, SettleStep
    <3>5. CASE Drop(w) /\ Fault
      BY <1>1, <3>1, <3>5, DropStep
    <3> QED BY <1>1, <1>2, <3>4, <3>5, LeaseLostStep, UnavailableStep DEF SettleBy
  <2> QED BY <1>1, <1>2, <2>1, LeaseLostStep, UnavailableStep DEF SettleBy
<1>3. CASE /\ work' = [work EXCEPT ![w] = "permanent"]
           /\ UNCHANGED <<pc, claim, result, faults, queueVars>>
  <2>1. claim[w] # NoClaim
    BY ClaimTyped DEF Publish, AtWork
  <2>2. WorkersTyped' /\ Alone(w) /\ Continued(w)
    BY <1>1, <1>3, <2>1 DEF WorkersTyped, Alone, Continued, AtWork
  <2> QED BY <1>3, <2>2 DEF Acted
<1> QED BY <1>2, <1>3 DEF Publish

\* retry_job hands the job back, or ends it at its last attempt.
LEMMA RetryLaterStep ==
    ASSUME FleetInv, NEW w \in Workers, RetryLater(w)
    PROVE  Acted(w)
<1> DEFINE j == claim[w].job
           t == claim[w].token
<1>1. pc[w] \in AtWork /\ WorkersTyped /\ QueueTypeOK /\ j \in Jobs /\ t \in Tokens
  BY ClaimTyped DEF RetryLater, AtWork, FleetInv, FleetTypeOK
<1>2. SettleBy(w, Retry(j, t), "queued", "retry_scheduled")
  BY DEF RetryLater
<1>3. CASE Retry(j, t)
  <2>1. QueueNext
    BY <1>1, <1>3 DEF QueueNext
  <2>2. ~live'[j] /\ status'[j] \in {"canceled", "queued"}
    BY <1>1, <1>3 DEF Retry, CancelOwned, End, QueueTypeOK
  <2>3. CASE Answer(w, "queued", "retry_scheduled") /\ NoFault
    BY <1>1, <2>1, <2>2, <2>3, SettleStep
  <2>4. CASE Drop(w) /\ Fault
    BY <1>1, <2>1, <2>4, DropStep
  <2> QED BY <1>1, <1>2, <2>3, <2>4, LeaseLostStep, UnavailableStep DEF SettleBy
<1> QED BY <1>1, <1>2, <1>3, LeaseLostStep, UnavailableStep DEF SettleBy

\* fail_job ends the job for good.
LEMMA GiveUpStep ==
    ASSUME FleetInv, NEW w \in Workers, GiveUp(w)
    PROVE  Acted(w)
<1> DEFINE j == claim[w].job
           t == claim[w].token
<1>1. pc[w] \in AtWork /\ WorkersTyped /\ QueueTypeOK /\ j \in Jobs /\ t \in Tokens
  BY ClaimTyped DEF GiveUp, AtWork, FleetInv, FleetTypeOK
<1>2. SettleBy(w, Fail(j, t), "failed", "failed")
  BY DEF GiveUp
<1>3. CASE Fail(j, t)
  <2>1. QueueNext
    BY <1>1, <1>3 DEF QueueNext
  <2>2. ~live'[j] /\ status'[j] \in {"canceled", "failed"}
    BY <1>1, <1>3 DEF Fail, CancelOwned, End, QueueTypeOK
  <2>3. CASE Answer(w, "failed", "failed") /\ NoFault
    BY <1>1, <2>1, <2>2, <2>3, SettleStep
  <2>4. CASE Drop(w) /\ Fault
    BY <1>1, <2>1, <2>4, DropStep
  <2> QED BY <1>1, <1>2, <2>3, <2>4, LeaseLostStep, UnavailableStep DEF SettleBy
<1> QED BY <1>1, <1>2, <1>3, LeaseLostStep, UnavailableStep DEF SettleBy

\* An acknowledgement the reaper was faster with is answered like one of the worker's own.
LEMMA AcknowledgeStep ==
    ASSUME FleetInv, NEW w \in Workers, AcknowledgeCancel(w)
    PROVE  Acted(w)
<1> DEFINE j == claim[w].job
           t == claim[w].token
<1>1. /\ pc[w] \in AtWork /\ WorkersTyped /\ QueueTypeOK
      /\ claim[w] # NoClaim /\ j \in Jobs /\ t \in Tokens
  BY ClaimTyped DEF AcknowledgeCancel, AtWork, FleetInv, FleetTypeOK
<1>2. CASE status[j] = "canceled" /\ Return(w, "canceled") /\ NoFault /\ UNCHANGED queueVars
  <2>1. ~Owned(j)' /\ status'[j] = "canceled"
    BY <1>2 DEF Owned, queueVars, Return
  <2> QED BY <1>1, <1>2, <2>1, ReportStep
<1>3. CASE SettleBy(w, Acknowledge(j, t), "canceled", "canceled")
  <2>1. CASE Acknowledge(j, t)
    <3>1. QueueNext
      BY <1>1, <2>1 DEF QueueNext
    <3>2. ~live'[j] /\ status'[j] = "canceled"
      BY <1>1, <2>1 DEF Acknowledge, CancelOwned, End, QueueTypeOK
    <3>3. CASE Answer(w, "canceled", "canceled") /\ NoFault
      BY <1>1, <3>1, <3>2, <3>3, SettleStep
    <3>4. CASE Drop(w) /\ Fault
      BY <1>1, <3>1, <3>4, DropStep
    <3> QED BY <1>1, <1>3, <3>3, <3>4, LeaseLostStep, UnavailableStep DEF SettleBy
  <2> QED BY <1>1, <1>3, <2>1, LeaseLostStep, UnavailableStep DEF SettleBy
<1> QED BY <1>2, <1>3 DEF AcknowledgeCancel

\* The other steps of a worker: before it has a claim, and around an execution.
LEMMA OwnStep ==
    ASSUME FleetInv, NEW w \in Workers,
           Idle(w) \/ PollUnavailable(w) \/ GiveBack(w) \/ Execute(w) \/ Crash(w) \/ Restart(w)
    PROVE  Acted(w)
<1>1. WorkersTyped
  BY DEF FleetInv, FleetTypeOK
<1>2. CASE Idle(w) \/ PollUnavailable(w) \/ GiveBack(w)
  BY <1>1, <1>2, DropStep DEF Idle, PollUnavailable, Unavailable, GiveBack
<1>3. CASE Execute(w)
  <2>1. claim[w] # NoClaim
    BY <1>3 DEF FleetInv, Working, Execute
  <2>2. WorkersTyped' /\ Alone(w) /\ Continued(w)
    BY <1>1, <1>3, <2>1 DEF Execute, WorkersTyped, Alone, Continued
  <2> QED BY <1>3, <2>2 DEF Execute, Acted
<1>4. CASE Crash(w)
  <2>1. faults' \in 0 .. MaxFaults
    BY <1>1, <1>4, FaultTyped DEF Crash, WorkersTyped
  <2>2. WorkersTyped' /\ Alone(w) /\ Cleared(w)
    BY <1>1, <1>4, <2>1 DEF Crash, Goto, WorkersTyped, Alone, Cleared, AtWork
  <2> QED BY <1>4, <2>2 DEF Crash, Acted
<1>5. CASE Restart(w)
  <2>1. WorkersTyped' /\ Alone(w) /\ Continued(w)
    BY <1>1, <1>5 DEF Restart, Goto, WorkersTyped, Alone, Continued, AtWork
  <2> QED BY <1>5, <2>1 DEF Restart, Acted
<1> QED BY <1>2, <1>3, <1>4, <1>5

\* A poll that finds nothing leaves the worker without a claim.
LEMMA PollStep ==
    ASSUME FleetInv, NEW w \in Workers, NEW batch \in SUBSET Jobs, Poll(w, batch)
    PROVE  Acted(w)
<1>1. [QueueNext]_queueVars
  BY DEF Poll, QueueNext
<1>2. WorkersTyped' /\ Alone(w) /\ Cleared(w)
  BY DEF FleetInv, FleetTypeOK, Poll, Goto, NoFault, WorkersTyped, Alone, Cleared, AtWork
<1> QED BY <1>1, <1>2 DEF Acted

\* A claim is under a token that nobody ever had.
LEMMA ClaimStep ==
    ASSUME FleetInv, NEW w \in Workers, NEW j \in Jobs, ClaimJob(w, j)
    PROVE  Acted(w)
<1> DEFINE token == CHOOSE t \in Tokens \ issued : TRUE
           new == [job |-> j, token |-> token, tries |-> tries'[j]]
<1>1. WorkersTyped /\ QueueTypeOK
  BY DEF FleetInv, FleetTypeOK
<1>2. Claim(j, token)
  BY DEF ClaimJob
<1> HIDE DEF token
<1>3. token \in Tokens \ issued /\ token \in issued'
  BY <1>2 DEF Claim
<1>4. QueueNext
  BY <1>2, <1>3 DEF QueueNext
<1>5. QueueTypeOK'
  BY <1>1, <1>4, QueueStep
<1>6. CASE /\ Goto(w, "work")
           /\ claim' = [claim EXCEPT ![w] = new]
           /\ NoFault /\ UNCHANGED <<work, result>>
  <2>1. new \in Claims
    BY <1>3, <1>5 DEF Claims, QueueTypeOK
  <2>2. new # NoClaim
    BY <2>1, WorkerFleetAssumption
  <2>3. WorkersTyped'
    BY <1>1, <1>6, <2>1 DEF WorkersTyped, Goto, NoFault
  <2>4. claim'[w] = new
    BY <1>1, <1>6 DEF WorkersTyped
  <2>5. Claimed(w)
    BY <1>3, <1>6, <2>2, <2>4 DEF Claimed, ClaimJob, FleetInv, Working
  <2>6. Alone(w)
    BY <1>1, <1>6 DEF Alone, WorkersTyped, Goto
  <2> QED BY <1>4, <2>3, <2>5, <2>6 DEF Acted
<1>7. CASE Drop(w) /\ Fault
  BY <1>1, <1>4, <1>7, DropStep
<1> QED BY <1>6, <1>7 DEF ClaimJob, token

(***************************************************************************)
(* The invariant                                                           *)
(***************************************************************************)

\* What a worker knows survives the steps of everybody else.
LEMMA BystanderStep ==
    ASSUME FleetInv, [QueueNext]_queueVars, NEW v \in Workers,
           claim'[v] = claim[v], result'[v] = result[v]
    PROVE  ClaimStands(v)' /\ ReportStands(v)'
<1>1. CASE claim[v] = NoClaim
  BY <1>1 DEF FleetInv, ClaimStands, ReportStands, Ended
<1>2. CASE claim[v] # NoClaim
  <2> DEFINE j == claim[v].job
             t == claim[v].token
  <2>1. j \in Jobs /\ t \in issued /\ t \in issued'
    BY <1>2, QueueStep DEF FleetInv, FleetTypeOK, WorkersTyped, Claims, ClaimStands
  <2>2. Kept(j, t)
    BY <2>1, QueueStep DEF FleetInv, FleetTypeOK
  <2>3. ClaimStands(v)'
    BY <1>2, <2>1, <2>2 DEF FleetInv, ClaimStands, Kept
  <2>4. Owns(j, t)' => Owns(j, t)
    BY <2>2 DEF Kept
  <2>5. Holds(v)' => Holds(v)
    BY <2>4 DEF Holds, Owns, Owned
  <2>6. ReportStands(v)'
    BY <1>2, <2>2, <2>5 DEF FleetInv, ReportStands, Kept, Ended
  <2> QED BY <2>3, <2>6
<1> QED BY <1>1, <1>2

\* Whatever a worker does, what it and the others know is true afterwards.
LEMMA ActedKeeps ==
    ASSUME FleetInv, NEW w \in Workers, Acted(w), pc'[w] = "claim" => result'[w] = "none",
           \A v \in Workers \ {w} : pc'[v] = pc[v]
    PROVE  FleetInv'
<1>1. QueueTypeOK' /\ issued \subseteq issued'
  BY QueueStep DEF FleetInv, FleetTypeOK, Acted
<1>2. FleetTypeOK'
  BY <1>1 DEF Acted, FleetTypeOK
<1>3. ASSUME NEW v \in Workers, v # w
      PROVE  (ClaimStands(v) /\ ReportStands(v) /\ Working(v))'
  BY <1>3, BystanderStep DEF Acted, Alone, FleetInv, Working
<1>4. (ClaimStands(w) /\ ReportStands(w) /\ Working(w))'
  <2>1. CASE Cleared(w)
    BY <2>1 DEF Cleared, AtWork, ClaimStands, ReportStands, Working, Ended
  <2>2. CASE Continued(w)
    BY <2>2, BystanderStep DEF Continued, Acted, AtWork, Working
  <2>3. CASE Claimed(w)
    BY <2>3 DEF Claimed, ClaimStands, ReportStands, Working, Ended
  <2>4. CASE Reported(w)
    <3>1. ClaimStands(w)'
      <4>1. claim[w].job \in Jobs /\ claim[w].token \in issued /\ claim[w].token \in issued'
        BY <1>1, <2>4 DEF Reported, FleetInv, FleetTypeOK, WorkersTyped, Claims, ClaimStands
      <4>2. Kept(claim[w].job, claim[w].token)
        BY <4>1, QueueStep DEF Acted, FleetInv, FleetTypeOK
      <4> QED BY <2>4, <4>1, <4>2 DEF Reported, FleetInv, ClaimStands, Kept
    <3>2. ReportStands(w)'
      BY <2>4 DEF Reported, ReportStands, Holds, Owns, Owned, Ended
    <3> QED BY <2>4, <3>1, <3>2 DEF Reported, Working
  <2> QED BY <2>1, <2>2, <2>3, <2>4 DEF Acted
<1> QED BY <1>2, <1>3, <1>4 DEF FleetInv

\* Clients and the clock leave the workers alone.
LEMMA OutsideStep ==
    ASSUME FleetInv, [QueueNext]_queueVars, UNCHANGED fleetVars
    PROVE  FleetInv'
<1>1. QueueTypeOK'
  BY QueueStep DEF FleetInv, FleetTypeOK
<1>2. \A v \in Workers : (ClaimStands(v) /\ ReportStands(v) /\ Working(v))'
  BY BystanderStep DEF fleetVars, FleetInv, Working
<1>3. FleetTypeOK'
  BY <1>1 DEF fleetVars, FleetInv, FleetTypeOK, WorkersTyped
<1> QED BY <1>2, <1>3 DEF FleetInv

\* Nobody has a claim at the start.
LEMMA FleetInvInit == FleetInit => FleetInv
<1> SUFFICES ASSUME FleetInit PROVE FleetInv
  OBVIOUS
<1>1. FleetTypeOK
  BY LeaseQueueAssumption, WorkerFleetAssumption
     DEF FleetInit, QueueInit, FleetTypeOK, QueueTypeOK, WorkersTyped
<1>2. \A w \in Workers : ClaimStands(w) /\ ReportStands(w) /\ Working(w)
  BY DEF FleetInit, ClaimStands, ReportStands, Working, Ended
<1> QED BY <1>1, <1>2 DEF FleetInv

\* Every step of a worker, of a client, of the reaper and of the clock keeps it.
LEMMA FleetInvNext == FleetInv /\ [FleetNext]_allVars => FleetInv'
<1> SUFFICES ASSUME FleetInv, [FleetNext]_allVars PROVE FleetInv'
  OBVIOUS
<1>1. ASSUME NEW w \in Workers, Acted(w) PROVE FleetInv'
  <2>1. pc'[w] = "claim" => result'[w] = "none"
    BY <1>1 DEF Acted, Cleared, Continued, Claimed, Reported
  <2> QED BY <1>1, <2>1, ActedKeeps DEF Acted, Alone
<1>2. ASSUME NEW w \in Workers, NEW batch \in SUBSET Jobs, Poll(w, batch) PROVE FleetInv'
  BY <1>1, <1>2, PollStep
<1>3. ASSUME NEW w \in Workers, NEW j \in Jobs, ClaimJob(w, j) PROVE FleetInv'
  BY <1>1, <1>3, ClaimStep
<1>4. ASSUME NEW w \in Workers, Process(w) PROVE FleetInv'
  <2>1. CASE Monitor(w) \/ FinalHeartbeat(w)
    BY <1>1, <2>1, HeartbeatStep DEF Monitor, FinalHeartbeat
  <2> QED
    BY <1>1, <1>4, <2>1, OwnStep, AcknowledgeStep, PublishStep, RetryLaterStep, GiveUpStep
       DEF Process
<1>5. ASSUME NEW w \in Workers, Idle(w) \/ PollUnavailable(w) \/ Crash(w) \/ Restart(w)
      PROVE  FleetInv'
  BY <1>1, <1>5, OwnStep
<1>6. ASSUME NEW j \in Jobs, Request(j) \/ Expire(j) \/ ComeDue(j) PROVE FleetInv'
  <2>1. QueueNext /\ UNCHANGED fleetVars
    BY <1>6 DEF Request, Expire, ComeDue, QueueNext
  <2> QED BY <2>1, OutsideStep
<1>7. CASE UNCHANGED allVars
  BY <1>7, OutsideStep DEF allVars
<1> QED
  BY <1>2, <1>3, <1>4, <1>5, <1>6, <1>7 DEF FleetNext

\* What every worker knows is true of the queue at all times.
LEMMA FleetInvariant == FleetSpec => []FleetInv
BY FleetInvInit, FleetInvNext, PTL DEF FleetSpec

\* What a worker reports stands: its claim, its evidence and its final status are those of
\* the job, whichever answers were lost and however long it was stalled.
THEOREM ReportsStand == FleetSpec => []ReportsAreTrue
<1>1. FleetInv => ReportsAreTrue
  BY DEF FleetInv, ReportStands, ReportsAreTrue
<1> QED BY <1>1, FleetInvariant, PTL

\* A step that fails a job was the reaper's or its owner's, and had a cause.
LEMMA FailureStep ==
    ASSUME FleetInv, [FleetNext]_allVars, NEW j \in Jobs,
           status'[j] = "failed", status[j] # "failed"
    PROVE  Cause(j)
<1>1. QueueTypeOK /\ WorkersTyped
  BY DEF FleetInv, FleetTypeOK
<1>2. CASE UNCHANGED status
  BY <1>2
<1>3. ASSUME NEW batch \in SUBSET Jobs, Reap(batch)
      PROVE  Cause(j)
  <2>1. status'[j] = Verdict(j)
    BY <1>3 DEF Reap
  <2>2. ~(tries[j] < MaxAttempts)
    BY <2>1 DEF Verdict
  <2> QED BY <1>1, <2>2, LeaseQueueAssumption DEF QueueTypeOK, Cause
<1>4. ASSUME NEW w \in Workers, GiveUp(w)
      PROVE  Cause(j)
  <2> DEFINE c == claim[w]
  <2>1. /\ c # NoClaim /\ c.job \in Jobs /\ ClaimStands(w) /\ c.tries \in 0 .. MaxAttempts
        /\ work[w] = "permanent" \/ Exhausted(w)
    BY <1>1, <1>4, ClaimTyped DEF GiveUp, AtWork, FleetInv, WorkersTyped, Claims
  <2>2. CASE Fail(c.job, c.token)
    <3>1. c.job = j /\ Holds(w)
      BY <1>1, <2>2 DEF Fail, CancelOwned, End, QueueTypeOK, Holds
    <3>2. CASE work[w] = "permanent"
      BY <2>1, <3>1, <3>2 DEF Cause
    <3>3. CASE Exhausted(w)
      <4>1. tries[j] = c.tries
        BY <2>1, <3>1 DEF ClaimStands, Holds, Owns
      <4> QED
        BY <2>1, <3>3, <4>1, LeaseQueueAssumption DEF Exhausted, Cause
    <3> QED BY <2>1, <3>2, <3>3
  <2>3. CASE ~Fail(c.job, c.token)
    BY <1>2, <1>4, <2>3 DEF GiveUp, SettleBy, LeaseLost, Unavailable, queueVars
  <2> QED BY <2>2, <2>3
<1>5. ASSUME NEW i, NEW t, \/ Claim(i, t) \/ Retry(i, t) \/ Acknowledge(i, t)
                          \/ \E d \in Documents : Complete(i, t, d)
      PROVE  FALSE
  BY <1>1, <1>5 DEF Claim, Retry, Acknowledge, Complete, CancelOwned, End, QueueTypeOK
<1>6. ASSUME NEW w \in Workers, Process(w)
      PROVE  Cause(j)
  <2>1. CASE Execute(w) \/ Monitor(w) \/ FinalHeartbeat(w) \/ GiveBack(w)
    BY <1>2, <2>1 DEF Execute, Monitor, FinalHeartbeat, GiveBack, HeartbeatThen, Heartbeat,
       LeaseLost, Unavailable, queueVars
  <2>2. CASE Publish(w) \/ RetryLater(w) \/ AcknowledgeCancel(w)
    BY <1>2, <1>5, <2>2 DEF Publish, RetryLater, AcknowledgeCancel, SettleBy, LeaseLost,
       Unavailable, queueVars
  <2> QED BY <1>4, <1>6, <2>1, <2>2 DEF Process
<1>7. ASSUME NEW w \in Workers, \/ Idle(w) \/ PollUnavailable(w) \/ Crash(w) \/ Restart(w)
                               \/ \E i \in Jobs : ClaimJob(w, i)
      PROVE  Cause(j)
  BY <1>2, <1>5, <1>7 DEF Idle, PollUnavailable, Unavailable, Crash, Restart, ClaimJob,
     queueVars
<1>8. ASSUME NEW w \in Workers, NEW batch \in SUBSET Jobs, Poll(w, batch)
      PROVE  Cause(j)
  BY <1>2, <1>3, <1>8 DEF Poll, queueVars
<1>9. ASSUME NEW i \in Jobs, Request(i) \/ Expire(i) \/ ComeDue(i)
      PROVE  Cause(j)
  BY <1>1, <1>2, <1>9 DEF Request, Submit, Cancel, Expire, ComeDue, Elapse, QueueTypeOK
<1>10. CASE UNCHANGED allVars
  BY <1>2, <1>10 DEF allVars, queueVars
<1> QED
  BY <1>6, <1>7, <1>8, <1>9, <1>10 DEF FleetNext

\* A job with attempts left is failed only by the worker that owns it, and only for an
\* error that is permanent.
THEOREM FailuresHaveCause == FleetSpec => JobsFailForCause
<1>1. FleetInv /\ [FleetNext]_allVars
        => [\A j \in Jobs : status'[j] = "failed" /\ status[j] # "failed" => Cause(j)]_allVars
  BY FailureStep
<1> QED BY <1>1, FleetInvariant, PTL DEF FleetSpec, JobsFailForCause

\* The snapshot a worker claimed with is right for as long as it owns the job.
THEOREM ClaimsAreCurrent == FleetSpec => []ClaimIsCurrent
<1>1. FleetInv => ClaimIsCurrent
  BY DEF FleetInv, ClaimStands, ClaimIsCurrent, Holds, Owns
<1> QED BY <1>1, FleetInvariant, PTL

(***************************************************************************)
(* Release evidence                                                        *)
(*                                                                         *)
(* Rows are added and never changed, so what a comparison pinned when it   *)
(* was accepted is what it finds when it is executed, and what the service *)
(* checks of a suite's runs implies what the comparison itself would       *)
(* refuse.                                                                 *)
(***************************************************************************)

\* The end of a job: its payload stays, and the other jobs.
LEMMA EndsFacts ==
  ASSUME NEW i \in DOMAIN jobs, NEW end, Ends(i, end)
  PROVE  /\ DOMAIN jobs' = DOMAIN jobs
         /\ jobs'[i].payload = jobs[i].payload /\ jobs'[i].status = end
         /\ \A j \in DOMAIN jobs : j # i => jobs'[j] = jobs[j]
  BY DEF Ends, Job

\* The metrics of evaluators are pairs of a metric and an evaluator.
LEMMA MetricPairs ==
  ASSUME NEW evaluators, NEW r \in MetricReferences(evaluators)
  PROVE  r = [metric |-> r.metric, evaluator |-> r.evaluator]
  BY DEF MetricReferences

\* The initial states satisfy the invariant.
LEMMA InitIInv == Init => IInv
  BY DEF Init, IInv, SuitesAreValid, RunsHaveJobs, ComparisonsArePinned, DecisionsHaveJobs,
         RunsKeepTheirPins, DecisionsCompareLikeWithLike, SuiteComparisonsAreDecided,
         DecisionsStayExplained

(***************************************************************************)
(* What the service checks implies what the comparison would refuse        *)
(***************************************************************************)

\* A valid suite has no two implementations of a metric.
LEMMA OneEvaluatorOfAMetric ==
  ASSUME NEW suite, ValidSuite(suite),
         NEW r \in MetricReferences(suite.evaluators),
         NEW s \in MetricReferences(suite.evaluators),
         r.metric = s.metric
  PROVE  r.evaluator = s.evaluator
<1> DEFINE E == suite.evaluators
<1>1. PICK m \in DOMAIN E : r \in {[metric |-> x, evaluator |-> Reference(E, m)] :
                                      x \in E[m].metrics}
  BY DEF MetricReferences
<1>2. PICK n \in DOMAIN E : s \in {[metric |-> x, evaluator |-> Reference(E, n)] :
                                      x \in E[n].metrics}
  BY DEF MetricReferences
<1>3. r.metric \in E[m].metrics /\ r.evaluator = Reference(E, m)
  BY <1>1
<1>4. s.metric \in E[n].metrics /\ s.evaluator = Reference(E, n)
  BY <1>2
<1>5. m = n
  BY <1>3, <1>4 DEF ValidSuite, Names
<1> QED
  BY <1>3, <1>4, <1>5

\* Two runs that were accepted for a comparison of a suite can be compared.
LEMMA SuiteRunsAreComparable ==
  ASSUME NEW suite, NEW dataset \in Datasets, NEW spec, NEW baseline, NEW candidate,
         suite # None, ValidSuite(suite),
         ValidComparison(dataset, spec, baseline, candidate, suite)
  PROVE  Comparable(spec, dataset, baseline, candidate, suite)
<1> DEFINE Valid(run) == ValidRunResult(run, dataset,
                             [names |-> Names(suite), target |-> run.target,
                              evaluators |-> References(suite.evaluators),
                              mode |-> suite.mode], suite)
<1>1. /\ spec.dataset = dataset
      /\ spec.baseline = baseline.target /\ spec.candidate = candidate.target
      /\ baseline.suite = suite /\ candidate.suite = suite
      /\ spec = SuiteSpec(suite, baseline.target, candidate.target)
      /\ Valid(baseline) /\ Valid(candidate)
  BY DEF ValidComparison
<1>2. \A run \in {baseline, candidate} :
         /\ run.dataset = dataset /\ run.mode = suite.mode
         /\ run.evaluators = References(suite.evaluators)
         /\ run.metrics = MetricReferences(suite.evaluators)
         /\ suite.dataset = dataset
         /\ suite.slices \subseteq DOMAIN CasesOf[dataset]
  BY <1>1 DEF ValidRunResult, ValidRegistration
<1>3. ValidSuiteInputs(suite, spec, dataset, baseline, candidate)
  BY <1>1, <1>2 DEF ValidSuiteInputs
<1>4. SameMetrics(baseline, candidate)
  BY <1>2, OneEvaluatorOfAMetric DEF SameMetrics, MetricNames
<1>5. GatesFound(spec, dataset, baseline)
  <2>1. spec.gates = suite.gates
    BY <1>1 DEF SuiteSpec
  <2>2. SuiteMetrics(suite) = MetricNames(baseline)
    BY <1>2 DEF SuiteMetrics, MetricNames
  <2>3. Whole \in DOMAIN CasesOf[dataset]
    BY ReleaseEvidenceAssumption
  <2> QED
    BY <1>2, <2>1, <2>2, <2>3 DEF ValidSuite, GatesFound
<1> QED
  BY <1>1, <1>2, <1>3, <1>4, <1>5 DEF Comparable

\* Comparable runs have the same metrics from the same evaluators.
LEMMA ComparableMetrics ==
  ASSUME NEW baseline, NEW candidate, SameMetrics(baseline, candidate),
         \A r \in baseline.metrics : r = [metric |-> r.metric, evaluator |-> r.evaluator],
         \A r \in candidate.metrics : r = [metric |-> r.metric, evaluator |-> r.evaluator]
  PROVE  baseline.metrics = candidate.metrics
<1>1. ASSUME NEW r \in baseline.metrics
      PROVE  r \in candidate.metrics
  <2>1. PICK s \in candidate.metrics : s.metric = r.metric
    BY DEF SameMetrics, MetricNames
  <2> QED
    BY <2>1 DEF SameMetrics
<1>2. ASSUME NEW s \in candidate.metrics
      PROVE  s \in baseline.metrics
  <2>1. PICK r \in baseline.metrics : s.metric = r.metric
    BY DEF SameMetrics, MetricNames
  <2> QED
    BY <2>1 DEF SameMetrics
<1> QED
  BY <1>1, <1>2

(***************************************************************************)
(* The steps                                                               *)
(***************************************************************************)

\* A suite more: nothing that was pinned looks at it.
LEMMA RegisterStep ==
  ASSUME IInv, NEW v, NEW suite \in SuiteDocuments, RegisterSuite(v, suite)
  PROVE  IInv'
<1>1. /\ suites' = suites \cup {suite}
      /\ jobs' = jobs /\ runs' = runs /\ decisions' = decisions
  BY DEF RegisterSuite
<1>2. SuitesAreValid'
  BY <1>1 DEF IInv, SuitesAreValid, RegisterSuite
<1>3. ASSUME NEW payload, Pinned(payload)
      PROVE  Pinned(payload)'
  BY <1>1, <1>3 DEF Pinned
<1>4. ComparisonsArePinned'
  BY <1>1, <1>3 DEF IInv, ComparisonsArePinned
<1>5. /\ RunsHaveJobs' /\ DecisionsHaveJobs' /\ RunsKeepTheirPins'
      /\ DecisionsCompareLikeWithLike' /\ SuiteComparisonsAreDecided'
  BY <1>1 DEF IInv, RunsHaveJobs, DecisionsHaveJobs, RunsKeepTheirPins,
              DecisionsCompareLikeWithLike, SuiteComparisonsAreDecided
<1>6. DecisionsStayExplained'
  BY <1>1 DEF IInv, DecisionsStayExplained, Shown
<1> QED
  BY <1>2, <1>4, <1>5, <1>6 DEF IInv

\* A job more, whose comparison is pinned if it is one.
LEMMA EnqueueStep ==
  ASSUME IInv, NEW payload, Enqueue(payload),
         payload.kind \in {"run", "comparison"},
         payload.kind = "comparison" => Pinned(payload)
  PROVE  IInv'
<1>1. PICK i \in JobIds \ DOMAIN jobs : jobs' = With(jobs, i, Job(payload, "queued"))
  BY DEF Enqueue
<1>2. suites' = suites /\ runs' = runs /\ decisions' = decisions
  BY DEF Enqueue
<1>3. /\ DOMAIN jobs' = DOMAIN jobs \cup {i}
      /\ jobs'[i].payload = payload /\ jobs'[i].status = "queued"
      /\ \A j \in DOMAIN jobs : jobs'[j] = jobs[j]
  <2>1. i \notin DOMAIN jobs
    BY <1>1
  <2>2. \A j \in DOMAIN jobs \cup {i} :
           jobs'[j] = IF j = i THEN Job(payload, "queued") ELSE jobs[j]
    BY <1>1 DEF With
  <2> QED
    BY <1>1, <2>1, <2>2 DEF With, Job
<1>4. \A p : Pinned(p) => Pinned(p)'
  BY <1>2 DEF Pinned
<1>5. SuitesAreValid'
  BY <1>2 DEF IInv, SuitesAreValid
<1>6. ComparisonsArePinned'
  BY <1>3, <1>4 DEF IInv, ComparisonsArePinned
<1>7. RunsHaveJobs' /\ DecisionsHaveJobs'
  BY <1>2, <1>3 DEF IInv, RunsHaveJobs, DecisionsHaveJobs
<1>8. RunsKeepTheirPins'
  BY <1>2, <1>3 DEF IInv, RunsHaveJobs, RunsKeepTheirPins
<1>9. DecisionsCompareLikeWithLike' /\ DecisionsStayExplained'
  BY <1>2 DEF IInv, DecisionsCompareLikeWithLike, DecisionsStayExplained, Shown
<1>10. SuiteComparisonsAreDecided'
  BY <1>3 DEF IInv, SuiteComparisonsAreDecided
<1> QED
  BY <1>5, <1>6, <1>7, <1>8, <1>9, <1>10 DEF IInv

\* A queued job that fails is not a comparison of a suite whose decision fits.
LEMMA FailStep ==
  ASSUME IInv, NEW i \in DOMAIN jobs, jobs[i].status = "queued", FailJob(i),
         jobs[i].payload.kind = "comparison" /\ jobs[i].payload.suite # None
            => ~ Fits(jobs[i].payload.dataset, jobs[i].payload.spec)
  PROVE  IInv'
<1>1. suites' = suites /\ runs' = runs /\ decisions' = decisions
  BY DEF FailJob
<1>2. /\ DOMAIN jobs' = DOMAIN jobs
      /\ jobs'[i].payload = jobs[i].payload
      /\ \A j \in DOMAIN jobs : j # i => jobs'[j] = jobs[j]
  BY EndsFacts DEF FailJob
<1>3. i \notin DOMAIN runs /\ i \notin DOMAIN decisions
  BY DEF IInv, RunsHaveJobs, DecisionsHaveJobs
<1>4. \A p : Pinned(p) => Pinned(p)'
  BY <1>1 DEF Pinned
<1>5. SuitesAreValid'
  BY <1>1 DEF IInv, SuitesAreValid
<1>6. ComparisonsArePinned'
  BY <1>2, <1>4 DEF IInv, ComparisonsArePinned
<1>7. RunsHaveJobs' /\ DecisionsHaveJobs'
  BY <1>1, <1>2, <1>3 DEF IInv, RunsHaveJobs, DecisionsHaveJobs
<1>8. RunsKeepTheirPins'
  BY <1>1, <1>2, <1>3 DEF IInv, RunsHaveJobs, RunsKeepTheirPins
<1>9. DecisionsCompareLikeWithLike' /\ DecisionsStayExplained'
  BY <1>1 DEF IInv, DecisionsCompareLikeWithLike, DecisionsStayExplained, Shown
<1>10. SuiteComparisonsAreDecided'
  <2>1. ASSUME NEW j \in DOMAIN jobs, j # i
        PROVE  jobs'[j].payload.kind = "comparison" /\ jobs'[j].payload.suite # None
                  /\ jobs'[j].status = "failed"
                  => ~ Fits(jobs'[j].payload.dataset, jobs'[j].payload.spec)
    BY <1>2, <2>1 DEF IInv, SuiteComparisonsAreDecided
  <2> QED
    BY <1>2, <2>1 DEF SuiteComparisonsAreDecided
<1> QED
  BY <1>5, <1>6, <1>7, <1>8, <1>9, <1>10 DEF IInv

\* A run is made: what was resolved is what was pinned.
LEMMA RunStep ==
  ASSUME IInv, NEW v, NEW i \in DOMAIN jobs, ExecuteRun(v, i)
  PROVE  IInv'
<1> DEFINE payload == jobs[i].payload
           made == Result(v, payload)
           contract == Contract(v, payload.names, payload.target)
           ok == /\ Resolves(v, payload)
                 /\ ValidRunResult(made, payload.dataset, contract, payload.suite)
<1>0. jobs[i].status = "queued" /\ payload.kind = "run"
  BY DEF ExecuteRun, Queued
<1>1. CASE ~ok
  <2>1. FailJob(i)
    BY <1>1 DEF ExecuteRun
  <2> QED
    BY <1>0, <2>1, FailStep
<1>2. CASE ok
  <2>1. /\ Ends(i, "succeeded") /\ runs' = With(runs, i, made)
        /\ suites' = suites /\ decisions' = decisions
    BY <1>2 DEF ExecuteRun
  <2>2. /\ DOMAIN jobs' = DOMAIN jobs
        /\ jobs'[i].payload = payload /\ jobs'[i].status = "succeeded"
        /\ \A j \in DOMAIN jobs : j # i => jobs'[j] = jobs[j]
    BY <2>1, EndsFacts
  <2>3. i \notin DOMAIN runs /\ i \notin DOMAIN decisions
    BY <1>0 DEF IInv, RunsHaveJobs, DecisionsHaveJobs
  <2>4. /\ DOMAIN runs' = DOMAIN runs \cup {i}
        /\ runs'[i] = made
        /\ \A j \in DOMAIN runs : runs'[j] = runs[j]
    <3>1. \A j \in DOMAIN runs \cup {i} :
             runs'[j] = IF j = i THEN made ELSE runs[j]
      BY <2>1 DEF With
    <3>2. DOMAIN runs' = DOMAIN runs \cup {i}
      BY <2>1 DEF With
    <3> QED
      BY <2>3, <3>1, <3>2
  <2>5. /\ made.target = contract.target
        /\ made.evaluators = contract.evaluators
        /\ contract = payload.contract
        /\ payload.suite # None => made.metrics = MetricReferences(payload.suite.evaluators)
    BY <1>2 DEF ValidRunResult, Resolves
  <2>6. \A r \in made.metrics : r = [metric |-> r.metric, evaluator |-> r.evaluator]
    BY MetricPairs DEF Result
  <2>7. \A p : Pinned(p) => Pinned(p)'
    BY <2>1, <2>4 DEF Pinned
  <2>8. SuitesAreValid'
    BY <2>1 DEF IInv, SuitesAreValid
  <2>9. RunsHaveJobs'
    BY <1>0, <2>2, <2>3, <2>4, <2>6 DEF IInv, RunsHaveJobs
  <2>10. ComparisonsArePinned'
    BY <1>0, <2>2, <2>7 DEF IInv, ComparisonsArePinned
  <2>11. DecisionsHaveJobs'
    BY <2>1, <2>2, <2>3, <2>4 DEF IInv, DecisionsHaveJobs
  <2>12. RunsKeepTheirPins'
    BY <2>2, <2>3, <2>4, <2>5 DEF IInv, RunsHaveJobs, RunsKeepTheirPins
  <2>13. DecisionsCompareLikeWithLike'
    BY <2>1, <2>4 DEF IInv, DecisionsHaveJobs, DecisionsCompareLikeWithLike
  <2>14. SuiteComparisonsAreDecided'
    BY <1>0, <2>2 DEF IInv, SuiteComparisonsAreDecided
  <2>15. ASSUME NEW d \in DOMAIN decisions, NEW gate, Shown(decisions[d], gate)
         PROVE  Shown(decisions[d], gate)'
    BY <2>1, <2>4, <2>15 DEF Shown
  <2>16. DecisionsStayExplained'
    BY <2>1, <2>15 DEF IInv, DecisionsStayExplained
  <2> QED
    BY <2>8, <2>9, <2>10, <2>11, <2>12, <2>13, <2>14, <2>16 DEF IInv
<1> QED
  BY <1>1, <1>2

\* Runs that are compared are judged: what was pinned is there, and what was
\* checked of them makes the decision one of like with like.
LEMMA CompareStep ==
  ASSUME IInv, NEW i \in DOMAIN jobs, CompareJob(i)
  PROVE  IInv'
<1> DEFINE payload == jobs[i].payload
           baseline == runs[payload.baseline]
           candidate == runs[payload.candidate]
           decision == Decision(payload, baseline)
           ok == /\ baseline = payload.baseline_result
                 /\ candidate = payload.candidate_result
                 /\ ValidComparison(payload.dataset, payload.spec, baseline, candidate,
                                    payload.suite)
                 /\ Comparable(payload.spec, payload.dataset, baseline, candidate,
                               payload.suite)
           fits == Fits(payload.dataset, payload.spec)
<1>0. jobs[i].status = "queued" /\ payload.kind = "comparison"
  BY DEF CompareJob, Queued
<1>1. Pinned(payload)
  BY <1>0 DEF IInv, ComparisonsArePinned
<1>2. payload.suite # None => ok
  <2>1. SUFFICES ASSUME payload.suite # None
                 PROVE  ok
    OBVIOUS
  <2>2. ValidSuite(payload.suite)
    BY <1>1, <2>1 DEF IInv, SuitesAreValid, Pinned
  <2>3. /\ baseline = payload.baseline_result
        /\ candidate = payload.candidate_result
        /\ payload.dataset \in Datasets
        /\ ValidComparison(payload.dataset, payload.spec, baseline, candidate, payload.suite)
    BY <1>1 DEF Pinned
  <2>4. Comparable(payload.spec, payload.dataset, baseline, candidate, payload.suite)
    BY <2>1, <2>2, <2>3, SuiteRunsAreComparable
  <2> QED
    BY <2>3, <2>4
<1>3. CASE ~(ok /\ fits)
  <2>1. FailJob(i)
    BY <1>3 DEF CompareJob
  <2>2. payload.suite # None => ~fits
    BY <1>2, <1>3
  <2> QED
    BY <1>0, <2>1, <2>2, FailStep
<1>4. CASE ok /\ fits
  <2>1. /\ Ends(i, "succeeded") /\ decisions' = With(decisions, i, decision)
        /\ suites' = suites /\ runs' = runs
    BY <1>4 DEF CompareJob
  <2>2. /\ DOMAIN jobs' = DOMAIN jobs
        /\ jobs'[i].payload = payload /\ jobs'[i].status = "succeeded"
        /\ \A j \in DOMAIN jobs : j # i => jobs'[j] = jobs[j]
    BY <2>1, EndsFacts
  <2>3. i \notin DOMAIN runs /\ i \notin DOMAIN decisions
    BY <1>0 DEF IInv, RunsHaveJobs, DecisionsHaveJobs
  <2>4. /\ DOMAIN decisions' = DOMAIN decisions \cup {i}
        /\ decisions'[i] = decision
        /\ \A j \in DOMAIN decisions : decisions'[j] = decisions[j]
    <3>1. \A j \in DOMAIN decisions \cup {i} :
             decisions'[j] = IF j = i THEN decision ELSE decisions[j]
      BY <2>1 DEF With
    <3>2. DOMAIN decisions' = DOMAIN decisions \cup {i}
      BY <2>1 DEF With
    <3> QED
      BY <2>3, <3>1, <3>2
  <2>5. \A p : Pinned(p) => Pinned(p)'
    BY <2>1 DEF Pinned
  <2>6. SuitesAreValid'
    BY <2>1 DEF IInv, SuitesAreValid
  <2>7. RunsHaveJobs'
    BY <2>1, <2>2, <2>3 DEF IInv, RunsHaveJobs
  <2>8. ComparisonsArePinned'
    BY <1>0, <2>2, <2>5 DEF IInv, ComparisonsArePinned
  <2>9. {decision.baseline, decision.candidate} \subseteq DOMAIN runs
    BY <1>1 DEF Decision, Pinned
  <2>10. DecisionsHaveJobs'
    BY <1>0, <2>1, <2>2, <2>3, <2>4, <2>9 DEF IInv, DecisionsHaveJobs
  <2>11. RunsKeepTheirPins'
    BY <2>1, <2>2, <2>3 DEF IInv, RunsHaveJobs, RunsKeepTheirPins
  <2>12. /\ baseline.target.key # candidate.target.key
         /\ baseline.dataset = candidate.dataset
         /\ baseline.metrics = candidate.metrics
         /\ baseline.suite = decision.suite /\ candidate.suite = decision.suite
    <3>1. baseline.target.key # candidate.target.key
      BY <1>1, <1>4 DEF Pinned, ValidSpec, Comparable
    <3>2. baseline.metrics = candidate.metrics
      BY <1>1, <1>4, ComparableMetrics DEF Comparable, IInv, RunsHaveJobs, Pinned
    <3> QED
      BY <1>4, <3>1, <3>2 DEF Comparable, ValidSuiteInputs, Decision
  <2>13. DecisionsCompareLikeWithLike'
    <3>1. /\ decisions'[i].baseline = payload.baseline
          /\ decisions'[i].candidate = payload.candidate
          /\ decisions'[i].suite = decision.suite
      BY <2>4 DEF Decision
    <3>2. \A d \in DOMAIN decisions :
             LET b == runs[decisions[d].baseline]
                 c == runs[decisions[d].candidate]
             IN  /\ b.target.key # c.target.key /\ b.dataset = c.dataset
                 /\ b.metrics = c.metrics
                 /\ b.suite = decisions[d].suite /\ c.suite = decisions[d].suite
      BY DEF IInv, DecisionsCompareLikeWithLike
    <3>3. ASSUME NEW d \in DOMAIN decisions'
          PROVE  LET b == runs[decisions'[d].baseline]
                     c == runs[decisions'[d].candidate]
                 IN  /\ b.target.key # c.target.key /\ b.dataset = c.dataset
                     /\ b.metrics = c.metrics
                     /\ b.suite = decisions'[d].suite /\ c.suite = decisions'[d].suite
      <4>1. CASE d = i
        BY <2>12, <3>1, <4>1
      <4>2. CASE d # i
        BY <2>4, <3>2, <4>2
      <4> QED
        BY <4>1, <4>2
    <3> QED
      BY <2>1, <3>3 DEF DecisionsCompareLikeWithLike
  <2>14. SuiteComparisonsAreDecided'
    BY <2>2 DEF IInv, SuiteComparisonsAreDecided
  <2>15. ASSUME NEW gate \in decision.spec.gates
         PROVE  Shown(decision, gate)
    <3>1. gate.slice \in DOMAIN CasesOf[payload.dataset]
      BY <1>4 DEF Comparable, GatesFound, Decision
    <3>2. CasesOf[payload.dataset][gate.slice] \in Nat \ {0}
      BY <1>1, <3>1, ReleaseEvidenceAssumption DEF Pinned
    <3>3. InScope(decision.dataset, gate) > 0
      BY <3>1, <3>2 DEF InScope, Decision
    <3> QED
      BY <1>1, <1>4, <2>9, <3>3 DEF Shown, Decision, Comparable
  <2>16. ASSUME NEW d \in DOMAIN decisions', NEW gate \in decisions'[d].spec.gates
         PROVE  Shown(decisions[d], gate)'
    <3>1. CASE d = i
      <4>1. decisions'[d] = decision
        BY <2>4, <3>1
      <4>2. gate \in decision.spec.gates
        BY <4>1
      <4>3. Shown(decision, gate)
        BY <2>15, <4>2
      <4> HIDE DEF decision
      <4> QED
        BY <2>1, <4>1, <4>3 DEF Shown
    <3>2. CASE d # i
      <4>1. d \in DOMAIN decisions /\ decisions'[d] = decisions[d]
        BY <2>4, <3>2
      <4>2. Shown(decisions[d], gate)
        BY <4>1 DEF IInv, DecisionsStayExplained
      <4> QED
        BY <2>1, <4>1, <4>2 DEF Shown
    <3> QED
      BY <3>1, <3>2
  <2>17. DecisionsStayExplained'
    BY <2>16 DEF DecisionsStayExplained
  <2> QED
    BY <2>6, <2>7, <2>8, <2>10, <2>11, <2>13, <2>14, <2>17 DEF IInv
<1> QED
  BY <1>3, <1>4

\* Whatever is accepted for comparison is pinned.
LEMMA AcceptedComparisons ==
  ASSUME IInv, NEW suite \in suites \cup {None}, NEW spec,
         NEW b \in DOMAIN runs, NEW c \in DOMAIN runs,
         spec.dataset \in Datasets, ValidSpec(spec),
         ValidComparison(spec.dataset, spec, runs[b], runs[c], suite),
         EnqueueComparison(suite, spec, b, c)
  PROVE  IInv'
<1> DEFINE payload ==
      [kind |-> "comparison", suite |-> suite, dataset |-> spec.dataset, spec |-> spec,
       baseline |-> b, candidate |-> c,
       baseline_result |-> runs[b], candidate_result |-> runs[c]]
<1>1. Pinned(payload)
  BY DEF Pinned
<1>2. Enqueue(payload)
  BY DEF EnqueueComparison
<1>3. payload.kind = "comparison"
  OBVIOUS
<1> HIDE DEF payload
<1> QED
  BY <1>1, <1>2, <1>3, EnqueueStep

\* Every step preserves the invariant.
LEMMA StepIInv == IInv /\ [Next]_vars => IInv'
<1> SUFFICES ASSUME IInv, [Next]_vars
             PROVE  IInv'
  OBVIOUS
<1>1. ASSUME NEW v \in Versions, NEW suite \in SuiteDocuments, RegisterSuite(v, suite)
      PROVE  IInv'
  BY <1>1, RegisterStep
<1>2. ASSUME NEW v, NEW suite, NEW dataset, NEW names, NEW target,
             SubmitRunPayload(v, suite, dataset, names, target)
      PROVE  IInv'
  <2> DEFINE payload ==
        [kind |-> "run", suite |-> suite, dataset |-> dataset, names |-> names,
         target |-> target, contract |-> Contract(v, names, target)]
  <2>1. Enqueue(payload) /\ payload.kind = "run"
    BY <1>2 DEF SubmitRunPayload
  <2> HIDE DEF payload
  <2> QED
    BY <2>1, EnqueueStep
<1>3. ASSUME NEW v \in Versions, NEW suite \in SuiteDocuments, NEW target \in Targets,
             SubmitSuiteRun(v, suite, target)
      PROVE  IInv'
  BY <1>2, <1>3 DEF SubmitSuiteRun
<1>4. ASSUME NEW v \in Versions, NEW dataset \in Datasets, NEW names \in SUBSET Selectors,
             NEW target \in Targets, SubmitRun(v, dataset, names, target)
      PROVE  IInv'
  BY <1>2, <1>4 DEF SubmitRun
<1>5. ASSUME NEW v \in Versions, NEW i \in DOMAIN jobs, ExecuteRun(v, i)
      PROVE  IInv'
  BY <1>5, RunStep
<1>6. ASSUME NEW b \in DOMAIN runs, NEW c \in DOMAIN runs, NEW suite \in SuiteDocuments,
             SubmitSuiteComparison(suite, b, c)
      PROVE  IInv'
  <2> DEFINE spec == SuiteSpec(suite, runs[b].target, runs[c].target)
  <2>1. /\ suite \in suites /\ ValidSpec(spec)
        /\ ValidComparison(suite.dataset, spec, runs[b], runs[c], suite)
        /\ EnqueueComparison(suite, spec, b, c)
    BY <1>6 DEF SubmitSuiteComparison
  <2>2. spec.dataset = suite.dataset /\ suite.dataset \in Datasets
    BY <2>1 DEF SuiteSpec, IInv, SuitesAreValid
  <2> HIDE DEF spec
  <2> QED
    BY <2>1, <2>2, AcceptedComparisons
<1>7. ASSUME NEW b \in DOMAIN runs, NEW c \in DOMAIN runs, NEW spec,
             SubmitComparison(spec, b, c)
      PROVE  IInv'
  <2>1. /\ spec.dataset \in Datasets /\ ValidSpec(spec)
        /\ ValidComparison(spec.dataset, spec, runs[b], runs[c], None)
        /\ EnqueueComparison(None, spec, b, c)
    BY <1>7 DEF SubmitComparison
  <2> QED
    BY <2>1, AcceptedComparisons
<1>8. ASSUME NEW i \in DOMAIN jobs, CompareJob(i)
      PROVE  IInv'
  BY <1>8, CompareStep
<1>9. ASSUME NEW i \in DOMAIN jobs, RefuseRun(i)
      PROVE  IInv'
  <2>1. jobs[i].status = "queued" /\ jobs[i].payload.kind = "run" /\ FailJob(i)
    BY <1>9 DEF RefuseRun, Queued
  <2> QED
    BY <2>1, FailStep
<1>10. CASE UNCHANGED vars
  BY <1>10 DEF vars, IInv, SuitesAreValid, RunsHaveJobs, ComparisonsArePinned, Pinned,
              DecisionsHaveJobs, RunsKeepTheirPins, DecisionsCompareLikeWithLike,
              SuiteComparisonsAreDecided, DecisionsStayExplained, Shown
<1>11. CASE Next
  BY <1>1, <1>3, <1>4, <1>5, <1>6, <1>7, <1>8, <1>9, <1>11, Zenon DEF Next
<1> QED
  BY <1>10, <1>11

(***************************************************************************)
(* The properties                                                          *)
(***************************************************************************)

\* The invariant holds of every reachable state.
THEOREM Invariance == Spec => []IInv
  BY InitIInv, StepIInv, PTL DEF Spec

\* A run was made with what its submission resolved, whatever was deployed since.
THEOREM RunsKeepTheirPinsTheorem == Spec => []RunsKeepTheirPins
<1>1. IInv => RunsKeepTheirPins
  BY DEF IInv
<1> QED
  BY <1>1, Invariance, PTL

\* A decision compares two revisions of a target on one dataset, metric by metric from
\* one implementation.
THEOREM LikeWithLikeTheorem == Spec => []DecisionsCompareLikeWithLike
<1>1. IInv => DecisionsCompareLikeWithLike
  BY DEF IInv
<1> QED
  BY <1>1, Invariance, PTL

\* A comparison that was accepted for a suite fails only if its decision is too large.
THEOREM SuiteComparisonsTheorem == Spec => []SuiteComparisonsAreDecided
<1>1. IInv => SuiteComparisonsAreDecided
  BY DEF IInv
<1> QED
  BY <1>1, Invariance, PTL

\* The evidence behind the gates of a decision can be shown.
THEOREM ExplainedTheorem == Spec => []DecisionsStayExplained
<1>1. IInv => DecisionsStayExplained
  BY DEF IInv
<1> QED
  BY <1>1, Invariance, PTL
===============================================================================
