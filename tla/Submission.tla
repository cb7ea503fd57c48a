------------------------------ MODULE Submission ------------------------------
(***************************************************************************)
(* Idempotent submission: submit_run, submit_comparison, submit_suite_run  *)
(* and submit_suite_comparison of ControlPlaneService over begin_job, as   *)
(* API processes serve them against one job table.                         *)
(*                                                                         *)
(* The handlers call the repository without awaiting, so a process serves  *)
(* one submission at a time, in four steps that interleave with the other  *)
(* processes: the replay lookup, the resolution of the inputs, the insert  *)
(* and, when the unique index on (kind, idempotency_key) refuses it, a     *)
(* second lookup.  The four methods differ in what a request digest covers *)
(* and in what they resolve, so a digest stands for any of them.           *)
(*                                                                         *)
(* Identifiers are 128 random bits: those of a new job are not in use, so  *)
(* begin_job's answers about a collision of job_id or resource_id are left *)
(* out.  So is the payload, which is written with the job.                 *)
(***************************************************************************)
EXTENDS Naturals, FiniteSets

CONSTANTS
    Processes,  \* API processes
    Keys,       \* (kind, idempotency_key) pairs
    Digests,    \* request digests: requests that mean the same have the same
    JobIds,     \* job_id values, each with its resource_id
    None        \* no job, no request or no answer

ASSUME SubmissionAssumption ==
    /\ None \notin [job_id : JobIds, digest : Digests]
    /\ None \notin [name : Keys, content : Digests]

VARIABLES
    jobs,       \* the job under each key: at most one, by the unique index
    inputs,     \* digests whose datasets, suites, runs and adapters resolve
    pc,         \* where each process stands
    requests,   \* the submission it serves
    free,       \* history: there was no job under its key when it arrived
    answers     \* the answer each process gave last

vars == <<jobs, inputs, pc, requests, free, answers>>

Job == [job_id : JobIds, digest : Digests]

Request == [name : Keys, content : Digests]

Answer ==
    [call : Request, outcome : {"created", "existing", "conflict"}, record : Job]
        \cup [call : Request, outcome : {"refused"}, record : {None}]

TypeOK ==
    /\ jobs \in [Keys -> Job \cup {None}]
    /\ inputs \subseteq Digests
    /\ pc \in [Processes -> {"idle", "replay", "resolve", "insert", "reread"}]
    /\ requests \in [Processes -> Request \cup {None}]
    /\ free \in [Processes -> BOOLEAN]
    /\ answers \in [Processes -> Answer \cup {None}]

Goto(p, label) ==
    /\ pc' = [pc EXCEPT ![p] = label]
    /\ UNCHANGED <<requests, answers>>

\* The handler ends: with an answer, or without one that reaches the client.
End(p, answer) ==
    /\ pc' = [pc EXCEPT ![p] = "idle"]
    /\ requests' = [requests EXCEPT ![p] = None]
    /\ answers' = [answers EXCEPT ![p] = answer]

Says(p, outcome, record) ==
    End(p, [call |-> requests[p], outcome |-> outcome, record |-> record])

\* A job was found under the key of the request: SubmissionResult with created
\* false, or IdempotencyConflictError.
AnswerFrom(p, job) ==
    /\ job # None
    /\ Says(p, IF job.digest = requests[p].content THEN "existing" ELSE "conflict", job)

\* A client sends a request, for the first time or again.
Receive(p, request) ==
    /\ pc[p] = "idle"
    /\ pc' = [pc EXCEPT ![p] = "replay"]
    /\ requests' = [requests EXCEPT ![p] = request]
    /\ answers' = [answers EXCEPT ![p] = None]
    /\ free' = [free EXCEPT ![p] = jobs[request.name] = None]
    /\ UNCHANGED <<jobs, inputs>>

\* Mutant: the inputs are resolved before the replay lookup.
ReplayLast(p) ==
    LET job == jobs[requests[p].name]
    IN  /\ pc[p] = "replay"
        /\ \/ requests[p].content \in inputs /\ AnswerFrom(p, job)
           \/ requests[p].content \in inputs /\ job = None /\ Goto(p, "insert")
           \/ requests[p].content \notin inputs /\ Says(p, "refused", None)
        /\ UNCHANGED <<jobs, inputs, free>>

\* _idempotent_replay, before anything that may change is consulted.
Replay(p) ==
    LET job == jobs[requests[p].name]
    IN  /\ pc[p] = "replay"
        /\ \/ AnswerFrom(p, job)
           \/ job = None /\ Goto(p, "resolve")
        /\ UNCHANGED <<jobs, inputs, free>>

\* The datasets, suites and runs of the request are read and validated:
\* ResourceNotFoundError and InvalidSubmissionError are refusals.
Resolve(p) ==
    /\ pc[p] = "resolve"
    /\ \/ requests[p].content \in inputs /\ Goto(p, "insert")
       \/ requests[p].content \notin inputs /\ Says(p, "refused", None)
    /\ UNCHANGED <<jobs, inputs, free>>

\* Mutant: the table has no unique index.
BeginJobAnyway(p) ==
    /\ pc[p] = "insert"
    /\ \E id \in JobIds \ {jobs[k].job_id : k \in {l \in Keys : jobs[l] # None}} :
          LET job == [job_id |-> id, digest |-> requests[p].content]
          IN  /\ jobs' = [jobs EXCEPT ![requests[p].name] = job]
              /\ Says(p, "created", job)
    /\ UNCHANGED <<inputs, free>>

\* begin_job: the insert wins, and the answer may be lost, or the unique index
\* refuses it.
BeginJob(p) ==
    LET key == requests[p].name
    IN  /\ pc[p] = "insert"
        /\ \/ /\ jobs[key] = None
              /\ \E id \in JobIds \ {jobs[k].job_id : k \in {l \in Keys : jobs[l] # None}} :
                    LET job == [job_id |-> id, digest |-> requests[p].content]
                    IN  /\ jobs' = [jobs EXCEPT ![key] = job]
                        /\ Says(p, "created", job) \/ End(p, None)
           \/ jobs[key] # None /\ Goto(p, "reread") /\ UNCHANGED jobs
        /\ UNCHANGED <<inputs, free>>

\* begin_job after an IntegrityError: get_job_by_idempotency.
Reread(p) ==
    /\ pc[p] = "reread"
    /\ AnswerFrom(p, jobs[requests[p].name])
    /\ UNCHANGED <<jobs, inputs, free>>

\* The store is out of reach, the process dies or the client goes away.
Abandon(p) ==
    /\ pc[p] # "idle"
    /\ End(p, None)
    /\ UNCHANGED <<jobs, inputs, free>>

\* Datasets, suites and runs are added, adapters are deployed or withdrawn.
ChangeInputs ==
    /\ inputs' \in SUBSET Digests
    /\ UNCHANGED <<jobs, pc, requests, free, answers>>

Init ==
    /\ jobs = [k \in Keys |-> None]
    /\ inputs \in SUBSET Digests
    /\ pc = [p \in Processes |-> "idle"]
    /\ requests = [p \in Processes |-> None]
    /\ free = [p \in Processes |-> FALSE]
    /\ answers = [p \in Processes |-> None]

Serve(p) == Replay(p) \/ Resolve(p) \/ BeginJob(p) \/ Reread(p)

Next ==
    \/ \E p \in Processes :
          Serve(p) \/ Abandon(p) \/ \E request \in Request : Receive(p, request)
    \/ ChangeInputs

Spec == Init /\ [][Next]_vars

(***************************************************************************)
(* Properties                                                              *)
(***************************************************************************)

Accepted(p) == answers[p] # None /\ answers[p].outcome \in {"created", "existing"}

\* Submissions under one key that were accepted, by whichever process and in
\* whichever way, meant the same and were told of the same job; and the job is
\* in the table under its key.
AcceptedAgree ==
    \A p \in Processes : Accepted(p) =>
        /\ answers[p].record = jobs[answers[p].call.name]
        /\ answers[p].record.digest = answers[p].call.content

\* A request that repeats accepted work is never refused for its inputs: work
\* already accepted does not depend on what has changed since.
ReplayIsNeverRefused ==
    \A p \in Processes :
        (answers[p] # None /\ answers[p].outcome = "refused") => free[p]

\* A conflict is reported only to a request that differs from the one that was
\* accepted.
ConflictsAreReal ==
    \A p \in Processes :
        (answers[p] # None /\ answers[p].outcome = "conflict") =>
            jobs[answers[p].call.name].digest # answers[p].call.content

\* Where a process stands agrees with what it knows about its request.
Known(p) ==
    /\ pc[p] = "idle" <=> requests[p] = None
    /\ pc[p] \in {"resolve", "insert", "reread"} => free[p]
    /\ pc[p] # "idle" /\ ~free[p] => jobs[requests[p].name] # None
    /\ pc[p] = "reread" => jobs[requests[p].name] # None

\* An answer is about the job that is in the table for good.
Stands(p) ==
    (answers[p] # None /\ answers[p].outcome # "refused") =>
        answers[p].record = jobs[answers[p].call.name]

\* The inductive invariant.
IInv ==
    /\ TypeOK
    /\ AcceptedAgree /\ ReplayIsNeverRefused /\ ConflictsAreReal
    /\ \A p \in Processes : Known(p) /\ Stands(p)

(***************************************************************************)
(* Refinement: each submission is decided in one step                      *)
(***************************************************************************)

Once == INSTANCE CreateOnce
    WITH Names <- Keys, Contents <- Digests, Records <- Job, Nothing <- None,
         Content <- [job \in Job |-> job.digest],
         Unacceptable <- {}, stored <- jobs, calls <- requests

\* What a client sees of submissions is what CreateOnce promises.
ImplementsCreateOnce == Once!OnceSpec
=============================================================================
