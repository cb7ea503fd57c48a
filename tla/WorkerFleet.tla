----------------------------- MODULE WorkerFleet -----------------------------
(***************************************************************************)
(* The worker processes (worker.py, application/worker.py) over the queue  *)
(* that LeaseQueue specifies: each polls, reaps, claims, executes under a  *)
(* heartbeat and settles, while requests to cancel, the other workers and  *)
(* the clock interfere between any two of its repository calls.            *)
(*                                                                         *)
(* A repository call is one step with one of three ends: its answer, an    *)
(* error before it took effect, or an effect whose answer is lost.  The    *)
(* worker cannot tell the last two apart: it drops the claim and polls     *)
(* again.  Errors, lost answers and crashes are bounded by MaxFaults.      *)
(*                                                                         *)
(* Not modelled here: telemetry, the health file, and the order and the    *)
(* timing of polls (a wait is a poll that has not happened yet).  A        *)
(* graceful stop is a Crash at "poll", which is where serve tests it.      *)
(***************************************************************************)
EXTENDS LeaseQueue

CONSTANTS
    Workers,    \* worker processes
    NoClaim,    \* the claim of a worker that has none
    MaxFaults   \* bound of the errors, lost answers and crashes

VARIABLES
    pc,         \* where a worker stands between two repository calls
    claim,      \* the ClaimedJob a worker holds, or held until it polls again
    work,       \* how its execution task ended
    result,     \* the WorkerResult it reported
    faults      \* how many faults have happened

fleetVars == <<pc, claim, work, result, faults>>

allVars == <<queueVars, fleetVars>>

Claims == [job : Jobs, token : Tokens, tries : 0 .. MaxAttempts]

ASSUME WorkerFleetAssumption == MaxFaults \in Nat /\ NoClaim \notin Claims

WorkersTyped ==
    /\ pc \in [Workers -> {"poll", "claim", "work", "acknowledge", "settle", "down"}]
    /\ claim \in [Workers -> Claims \cup {NoClaim}]
    /\ work \in [Workers -> {"none", "evidence", "transient", "permanent", "unavailable"}]
    /\ result \in [Workers -> {"none", "succeeded", "failed", "canceled",
                               "retry_scheduled", "lease_lost", "invariant_error"}]
    /\ faults \in 0 .. MaxFaults

FleetTypeOK == QueueTypeOK /\ WorkersTyped

Fault == faults < MaxFaults /\ faults' = faults + 1

NoFault == UNCHANGED faults

Goto(w, label) == pc' = [pc EXCEPT ![w] = label]

Holds(w) == Owns(claim[w].job, claim[w].token)

\* run_once returns a WorkerResult.
Return(w, r) ==
    /\ Goto(w, "poll")
    /\ result' = [result EXCEPT ![w] = r]
    /\ UNCHANGED <<claim, work>>

\* WorkerUnavailableError: serve forgets the claim and polls again.
Drop(w) ==
    /\ Goto(w, "poll")
    /\ claim' = [claim EXCEPT ![w] = NoClaim]
    /\ work' = [work EXCEPT ![w] = "none"]
    /\ result' = [result EXCEPT ![w] = "none"]

\* Mutant: a cancellation that the repository carried out instead goes unnoticed.
AnswerUnread(w, expected, r) == Return(w, r)

\* A settling call took effect: its answer is read from the job's new status.
Answer(w, expected, r) ==
    LET new == status'[claim[w].job]
    IN  Return(w, IF new = "canceled" THEN "canceled"
                  ELSE IF new = expected THEN r
                  ELSE "invariant_error")

LeaseLost(w) == ~Holds(w) /\ Return(w, "lease_lost") /\ NoFault /\ UNCHANGED queueVars

Unavailable(w) == Drop(w) /\ Fault /\ UNCHANGED queueVars

\* check_health and reap_expired_jobs; row locks can hide any expired attempt.
Poll(w, batch) ==
    /\ pc[w] = "poll"
    /\ \/ batch = {} /\ UNCHANGED queueVars
       \/ Reap(batch)
    /\ Goto(w, "claim")
    /\ claim' = [claim EXCEPT ![w] = NoClaim]
    /\ work' = [work EXCEPT ![w] = "none"]
    /\ result' = [result EXCEPT ![w] = "none"]
    /\ NoFault

\* run_once: the claim, with a fresh lease token.
ClaimJob(w, j) ==
    LET token == CHOOSE t \in Tokens \ issued : TRUE
    IN  /\ pc[w] = "claim" /\ issued # Tokens
        /\ Claim(j, token)
        /\ \/ /\ Goto(w, "work")
              /\ claim' = [claim EXCEPT ![w] =
                             [job |-> j, token |-> token, tries |-> tries'[j]]]
              /\ NoFault /\ UNCHANGED <<work, result>>
           \/ Drop(w) /\ Fault

\* No job is due, or row locks hide those that are.
Idle(w) == pc[w] = "claim" /\ Drop(w) /\ NoFault /\ UNCHANGED queueVars

\* The store is out of reach of a worker that polls or claims.
PollUnavailable(w) == pc[w] \in {"poll", "claim"} /\ Unavailable(w)

\* _build_evidence ends.  "permanent" stands for every error that fails the
\* job; "unavailable" for a store error and for evidence that is too large.
Execute(w) ==
    /\ pc[w] = "work" /\ work[w] = "none"
    /\ \E end \in {"evidence", "transient", "permanent", "unavailable"} :
          work' = [work EXCEPT ![w] = end]
    /\ UNCHANGED <<pc, claim, result, faults, queueVars>>

\* _heartbeat, on its period or after the execution: the signal it returns.
HeartbeatThen(w, next) ==
    \/ /\ Heartbeat(claim[w].job, claim[w].token)
       /\ Goto(w, IF status[claim[w].job] = "cancel_requested"
                  THEN "acknowledge" ELSE next)
       /\ NoFault /\ UNCHANGED <<claim, work, result>>
    \/ LeaseLost(w)
    \/ Unavailable(w)

\* _monitor_heartbeat; a signal it returns wins over a finished execution.
Monitor(w) == pc[w] = "work" /\ HeartbeatThen(w, "work")

\* _process: the execution is done, one more heartbeat before it counts.
FinalHeartbeat(w) ==
    pc[w] = "work" /\ work[w] # "none" /\ HeartbeatThen(w, "settle")

\* One settling call of the repository, A, by the holder of a lease.
SettleBy(w, A, expected, r) ==
    \/ A /\ Answer(w, expected, r) /\ NoFault
    \/ A /\ Drop(w) /\ Fault
    \/ LeaseLost(w)
    \/ Unavailable(w)

\* _handle_heartbeat_signal; the reaper may have canceled the attempt first,
\* which acknowledge_cancellation answers like its own success.
AcknowledgeCancel(w) ==
    LET c == claim[w]
        reaped == status[c.job] = "canceled" /\ holder[c.job] = c.token
    IN  /\ pc[w] = "acknowledge"
        /\ \/ /\ ~reaped
              /\ SettleBy(w, Acknowledge(c.job, c.token), "canceled", "canceled")
           \/ /\ reaped
              /\ Return(w, "canceled") /\ NoFault /\ UNCHANGED queueVars

\* Mutant: the attempt that failed is counted twice.
ExhaustedEarly(w) == claim[w].tries + 1 >= MaxAttempts

Exhausted(w) == claim[w].tries >= MaxAttempts

\* _publish.  Evidence that is not what the job asked for is a conflict, found out before
\* the lease is looked at and answered with _fail.
Publish(w) ==
    LET c == claim[w]
    IN  /\ pc[w] = "settle" /\ work[w] = "evidence"
        /\ \/ \E d \in Documents :
                 SettleBy(w, Complete(c.job, c.token, d), "succeeded", "succeeded")
           \/ /\ Owned(c.job) \/ status[c.job] = "succeeded"
              /\ work' = [work EXCEPT ![w] = "permanent"]
              /\ UNCHANGED <<pc, claim, result, faults, queueVars>>

\* _retry_or_exhaust, while attempts remain by the claim's own count
RetryLater(w) ==
    LET c == claim[w]
    IN  /\ pc[w] = "settle" /\ work[w] = "transient" /\ ~Exhausted(w)
        /\ SettleBy(w, Retry(c.job, c.token), "queued", "retry_scheduled")

\* _fail
GiveUp(w) ==
    LET c == claim[w]
    IN  /\ pc[w] = "settle"
        /\ work[w] = "permanent" \/ (work[w] = "transient" /\ Exhausted(w))
        /\ SettleBy(w, Fail(c.job, c.token), "failed", "failed")

\* The execution ended in WorkerUnavailableError.
GiveBack(w) ==
    /\ pc[w] = "settle" /\ work[w] = "unavailable"
    /\ Drop(w) /\ NoFault /\ UNCHANGED queueVars

Crash(w) ==
    /\ pc[w] # "down" /\ Fault
    /\ Goto(w, "down")
    /\ claim' = [claim EXCEPT ![w] = NoClaim]
    /\ work' = [work EXCEPT ![w] = "none"]
    /\ result' = [result EXCEPT ![w] = "none"]
    /\ UNCHANGED queueVars

\* The container's restart policy.
Restart(w) ==
    /\ pc[w] = "down" /\ Goto(w, "poll")
    /\ UNCHANGED <<claim, work, result, faults, queueVars>>

Request(j) == (Submit(j) \/ Cancel(j)) /\ UNCHANGED fleetVars

\* A lease can run out while its worker is stalled as well as after a crash.
Expire(j) == Elapse({j}, {}) /\ live[j] /\ UNCHANGED fleetVars

ComeDue(j) == Elapse({}, {j}) /\ ~ready[j] /\ UNCHANGED fleetVars

FleetInit ==
    /\ QueueInit
    /\ pc = [w \in Workers |-> "poll"]
    /\ claim = [w \in Workers |-> NoClaim]
    /\ work = [w \in Workers |-> "none"]
    /\ result = [w \in Workers |-> "none"]
    /\ faults = 0

\* What a worker does between its claim and its result.
Process(w) ==
    \/ Execute(w)
    \/ Monitor(w)
    \/ FinalHeartbeat(w)
    \/ AcknowledgeCancel(w)
    \/ Publish(w)
    \/ RetryLater(w)
    \/ GiveUp(w)
    \/ GiveBack(w)

FleetNext ==
    \/ \E w \in Workers, batch \in SUBSET Jobs : Poll(w, batch)
    \/ \E w \in Workers, j \in Jobs : ClaimJob(w, j)
    \/ \E w \in Workers :
          Idle(w) \/ PollUnavailable(w) \/ Process(w) \/ Crash(w) \/ Restart(w)
    \/ \E j \in Jobs : Request(j) \/ Expire(j) \/ ComeDue(j)

\* No worker is at work under the lease of j: nobody will extend it.
Abandoned(j) ==
    ~ \E w \in Workers :
        /\ pc[w] \in {"work", "acknowledge", "settle"}
        /\ claim[w] # NoClaim /\ claim[w].token = holder[j]

\* Workers keep running: the supervisor restarts them, the event loop runs on,
\* and executions end.  Row locks hide a job from reapers and claims now and
\* then, never for ever.  Time passes for delayed jobs and abandoned leases.
Fairness ==
    /\ \A w \in Workers :
          /\ WF_allVars(Restart(w))
          /\ WF_allVars(\E batch \in SUBSET Jobs : Poll(w, batch))
          /\ WF_allVars(Idle(w))
          /\ WF_allVars(Process(w))
    /\ \A j \in Jobs :
          /\ SF_allVars(\E w \in Workers, batch \in SUBSET Jobs :
                            j \in batch /\ Poll(w, batch))
          /\ SF_allVars(\E w \in Workers : ClaimJob(w, j))
          /\ WF_allVars(Abandoned(j) /\ Expire(j))
          /\ WF_allVars(ComeDue(j))

FleetSpec == FleetInit /\ [][FleetNext]_allVars /\ Fairness

(***************************************************************************)
(* Properties                                                              *)
(***************************************************************************)

\* Why a job may fail: its attempts are used up, or the worker that owns it found an
\* error no further attempt can mend.
Cause(j) ==
    \/ tries[j] = MaxAttempts
    \/ \E w \in Workers :
          claim[w] # NoClaim /\ claim[w].job = j /\ Holds(w) /\ work[w] = "permanent"

\* A job with attempts left is never failed for trouble that may pass: neither by a
\* worker, which counts by what it claimed, nor by the reaper, which counts by the row.
JobsFailForCause ==
    [][\A j \in Jobs : status'[j] = "failed" /\ status[j] # "failed" => Cause(j)]_allVars

\* The snapshot a worker took when it claimed is right for as long as it owns
\* the job, so _retry_or_exhaust never asks for a retry that retry_job refuses.
ClaimIsCurrent ==
    \A w \in Workers :
        (claim[w] # NoClaim /\ Holds(w)) =>
            tries[claim[w].job] = claim[w].tries

\* What a worker reports stands: a final status is the job's for good, evidence
\* it says it published carries its token, and it has let go of the job.  No
\* answer is one that the worker turns into WorkerInvariantError.
ReportsAreTrue ==
    \A w \in Workers :
        /\ result[w] # "invariant_error"
        /\ result[w] \in Ended => status[claim[w].job] = result[w]
        /\ result[w] = "succeeded" => author[claim[w].job] = claim[w].token
        /\ result[w] # "none" => ~Holds(w)

\* Every submitted job ends, through crashes, lost answers and stalled workers.
EveryJobEnds ==
    \A j \in Jobs : status[j] = "queued" ~> status[j] \in Ended

\* A requested cancellation is always carried out, by the worker or the reaper.
CancellationCompletes ==
    \A j \in Jobs : status[j] = "cancel_requested" ~> status[j] = "canceled"
=============================================================================
