--------------------------- MODULE ControlPlaneProofs ---------------------------
(***************************************************************************)
(* Proofs about the control plane, for any number of processes, keys,      *)
(* digests, identifiers, revisions and documents: first of Submission      *)
(* alone, then of Submission and Registry together.                        *)
(*                                                                         *)
(* The argument is the same for both: a row never leaves its table and     *)
(* never changes.  So what a process has read under its key or revision    *)
(* still holds when it answers, every answer given stays true, and what    *)
(* was pinned with a job is what the registry still holds.                 *)
(***************************************************************************)
EXTENDS ControlPlane, TLAPS

(***************************************************************************)
(* Submission                                                              *)
(***************************************************************************)

\* The initial states satisfy the invariant.
LEMMA InitIInv == Init => IInv
  BY DEF Init, IInv, TypeOK, AcceptedAgree, Accepted, ReplayIsNeverRefused,
         ConflictsAreReal, Known, Stands

\* A job is neither None nor without a digest, and requests are not None.
LEMMA JobFacts ==
  /\ None \notin Job
  /\ None \notin Request
  /\ \A job \in Job : job.digest \in Digests
  /\ \A r \in Request : r.name \in Keys /\ r.content \in Digests
  BY SubmissionAssumption DEF Job, Request

\* Giving an answer about the job under the key of the request: what a process
\* may say of a table that holds it.
LEMMA AnswerTypes ==
  ASSUME NEW r \in Request, NEW job \in Job
  PROVE  /\ [call |-> r, outcome |-> "created", record |-> job] \in Answer
         /\ [call |-> r, outcome |-> "existing", record |-> job] \in Answer
         /\ [call |-> r, outcome |-> "conflict", record |-> job] \in Answer
         /\ [call |-> r, outcome |-> "refused", record |-> None] \in Answer
  BY DEF Answer

\* What an insert does: it creates a job with the digest of the request under
\* a key that had none, or it leaves the table alone and looks again.
LEMMA BeginJobFacts ==
  ASSUME NEW p \in Processes, requests[p] \in Request, BeginJob(p)
  PROVE  \/ /\ jobs[requests[p].name] # None
            /\ Goto(p, "reread") /\ UNCHANGED jobs
         \/ /\ jobs[requests[p].name] = None
            /\ \E job \in Job :
                  /\ job.digest = requests[p].content
                  /\ jobs' = [jobs EXCEPT ![requests[p].name] = job]
                  /\ Says(p, "created", job) \/ End(p, None)
<1>1. \A id \in JobIds :
         /\ [job_id |-> id, digest |-> requests[p].content] \in Job
         /\ [job_id |-> id, digest |-> requests[p].content].digest
                = requests[p].content
  BY JobFacts DEF Job
<1>2. CASE jobs[requests[p].name] # None /\ Goto(p, "reread") /\ UNCHANGED jobs
  BY <1>2
<1>3. CASE /\ jobs[requests[p].name] = None
           /\ \E id \in JobIds :
                 /\ jobs' = [jobs EXCEPT ![requests[p].name] =
                       [job_id |-> id, digest |-> requests[p].content]]
                 /\ \/ Says(p, "created", [job_id |-> id, digest |-> requests[p].content])
                    \/ End(p, None)
  BY <1>1, <1>3
<1> QED
  BY <1>2, <1>3, Zenon DEF BeginJob

\* Types: every step leaves every variable within its type.
LEMMA TypeStep == TypeOK /\ (\A p \in Processes : Known(p)) /\ [Next]_vars => TypeOK'
<1> SUFFICES ASSUME TypeOK, \A p \in Processes : Known(p), [Next]_vars
             PROVE  TypeOK'
  OBVIOUS
<1> USE JobFacts
<1>1. ASSUME NEW p \in Processes, NEW request \in Request, Receive(p, request)
      PROVE  TypeOK'
  BY <1>1 DEF TypeOK, Receive
<1>2. ASSUME NEW p \in Processes, Replay(p)
      PROVE  TypeOK'
  <2>1. requests[p] \in Request
    BY <1>2 DEF Replay, TypeOK, Known
  <2>2. CASE AnswerFrom(p, jobs[requests[p].name])
    BY <1>2, <2>1, <2>2, AnswerTypes DEF Replay, AnswerFrom, Says, End, TypeOK
  <2>3. CASE Goto(p, "resolve")
    BY <1>2, <2>3 DEF Replay, Goto, TypeOK
  <2> QED
    BY <1>2, <2>2, <2>3 DEF Replay
<1>3. ASSUME NEW p \in Processes, Resolve(p)
      PROVE  TypeOK'
  <2>1. requests[p] \in Request
    BY <1>3 DEF Resolve, TypeOK, Known
  <2>2. CASE Goto(p, "insert")
    BY <1>3, <2>2 DEF Resolve, Goto, TypeOK
  <2>3. CASE Says(p, "refused", None)
    <3>1. [call |-> requests[p], outcome |-> "refused", record |-> None] \in Answer
      BY <2>1 DEF Answer
    <3> QED
      BY <1>3, <2>3, <3>1 DEF Resolve, Says, End, TypeOK
  <2> QED
    BY <1>3, <2>2, <2>3 DEF Resolve
<1>4. ASSUME NEW p \in Processes, BeginJob(p)
      PROVE  TypeOK'
  <2>1. requests[p] \in Request
    BY <1>4 DEF BeginJob, TypeOK, Known
  <2>2. CASE Goto(p, "reread") /\ UNCHANGED jobs
    BY <1>4, <2>2 DEF BeginJob, Goto, TypeOK
  <2>3. ASSUME NEW job \in Job, jobs' = [jobs EXCEPT ![requests[p].name] = job],
               Says(p, "created", job) \/ End(p, None)
        PROVE  TypeOK'
    <3>1. UNCHANGED <<inputs, free>>
      BY <1>4 DEF BeginJob
    <3>2. jobs' \in [Keys -> Job \cup {None}]
      BY <2>1, <2>3 DEF TypeOK
    <3>3. \E answer \in Answer \cup {None} : End(p, answer)
      BY <2>1, <2>3, AnswerTypes DEF Says
    <3> QED
      BY <3>1, <3>2, <3>3 DEF End, TypeOK
  <2>4. CASE ~ (Goto(p, "reread") /\ UNCHANGED jobs)
    <3>1. PICK job \in Job : /\ jobs' = [jobs EXCEPT ![requests[p].name] = job]
                             /\ Says(p, "created", job) \/ End(p, None)
      BY <1>4, <2>1, <2>4, BeginJobFacts
    <3> QED
      BY <2>3, <3>1
  <2> QED
    BY <2>2, <2>4
<1>5. ASSUME NEW p \in Processes, Reread(p)
      PROVE  TypeOK'
  <2>1. requests[p] \in Request
    BY <1>5 DEF Reread, TypeOK, Known
  <2> QED
    BY <1>5, <2>1, AnswerTypes DEF Reread, AnswerFrom, Says, End, TypeOK
<1>6. ASSUME NEW p \in Processes, Abandon(p)
      PROVE  TypeOK'
  BY <1>6 DEF TypeOK, Abandon, End
<1>7. CASE ChangeInputs
  BY <1>7 DEF TypeOK, ChangeInputs
<1>8. CASE UNCHANGED vars
  BY <1>8 DEF TypeOK, vars
<1> QED
  BY <1>1, <1>2, <1>3, <1>4, <1>5, <1>6, <1>7, <1>8 DEF Next, Serve

(***************************************************************************)
(* The invariant, process by process                                       *)
(***************************************************************************)

\* What IInv says of one process.
Good(p) ==
    /\ Known(p)
    /\ Stands(p)
    /\ Accepted(p) => /\ answers[p].record = jobs[answers[p].call.name]
                      /\ answers[p].record.digest = answers[p].call.content
    /\ (answers[p] # None /\ answers[p].outcome = "refused") => free[p]
    /\ (answers[p] # None /\ answers[p].outcome = "conflict") =>
          jobs[answers[p].call.name].digest # answers[p].call.content

\* The invariant holds if every process is where it may be.
LEMMA IInvIsGood == IInv <=> TypeOK /\ \A p \in Processes : Good(p)
  BY DEF IInv, Good, AcceptedAgree, ReplayIsNeverRefused, ConflictsAreReal

JobsStay == \A k \in Keys : jobs[k] # None => jobs'[k] = jobs[k]

\* Jobs are never changed nor lost.
LEMMA NextKeepsJobs ==
  ASSUME TypeOK, \A p \in Processes : Known(p), [Next]_vars
  PROVE  JobsStay
<1>1. CASE UNCHANGED jobs
  BY <1>1 DEF JobsStay
<1>2. ASSUME NEW p \in Processes, BeginJob(p)
      PROVE  JobsStay
  <2>1. requests[p] \in Request
    BY <1>2 DEF BeginJob, TypeOK, Known
  <2>2. \/ UNCHANGED jobs
        \/ /\ jobs[requests[p].name] = None
           /\ \E job \in Job : jobs' = [jobs EXCEPT ![requests[p].name] = job]
    BY <1>2, <2>1, BeginJobFacts
  <2> QED
    BY <2>1, <2>2, JobFacts DEF TypeOK, JobsStay
<1> QED
  BY <1>1, <1>2 DEF Next, Serve, vars, Replay, Resolve, Reread, Abandon, Receive,
     ChangeInputs

\* A process that takes no part in a step stays good.
LEMMA Bystander ==
  ASSUME TypeOK, JobsStay, NEW q \in Processes, Good(q),
         pc'[q] = pc[q], requests'[q] = requests[q],
         free'[q] = free[q], answers'[q] = answers[q]
  PROVE  Good(q)'
<1>1. requests[q] # None => requests[q].name \in Keys
  BY JobFacts DEF TypeOK
<1>2. answers[q] # None => answers[q].call.name \in Keys
  BY JobFacts DEF TypeOK, Answer
<1>3. (answers[q] # None /\ answers[q].outcome # "refused") => answers[q].record # None
  BY JobFacts DEF TypeOK, Answer
<1>4. Known(q)'
  BY <1>1 DEF Good, Known, JobsStay
<1>5. Stands(q)'
  BY <1>2, <1>3 DEF Good, Stands, JobsStay
<1> QED
  BY <1>2, <1>3, <1>4, <1>5 DEF Good, Stands, Accepted, JobsStay

\* A process that ends with a true answer, or with none, is good.
LEMMA Answerer ==
  ASSUME TypeOK, NEW p \in Processes, NEW answer, End(p, answer), UNCHANGED free,
         \/ answer = None
         \/ /\ answer.outcome = "refused"
            /\ free[p]
         \/ /\ answer.outcome \in {"created", "existing"}
            /\ answer.record = jobs'[answer.call.name]
            /\ answer.record.digest = answer.call.content
         \/ /\ answer.outcome = "conflict"
            /\ answer.record = jobs'[answer.call.name]
            /\ answer.record.digest # answer.call.content
  PROVE  Good(p)'
<1>1. pc'[p] = "idle" /\ requests'[p] = None /\ answers'[p] = answer
  BY DEF End, TypeOK
<1>2. Known(p)'
  BY <1>1 DEF Known
<1> QED
  BY <1>1, <1>2 DEF Good, Stands, Accepted

\* A process that goes on with its request keeps the answers it gave before.
LEMMA Mover ==
  ASSUME TypeOK, NEW p \in Processes, Good(p), requests[p] # None,
         NEW label, Goto(p, label), UNCHANGED <<jobs, free>>,
         label \in {"resolve", "insert", "reread"}, free[p],
         label = "reread" => jobs[requests[p].name] # None
  PROVE  Good(p)'
<1>1. pc'[p] = label /\ requests' = requests /\ answers' = answers
  BY DEF Goto, TypeOK
<1>2. Known(p)'
  BY <1>1 DEF Known
<1> QED
  BY <1>1, <1>2 DEF Good, Stands, Accepted

\* A job found under the key of the request makes a true answer.
LEMMA FoundAnswer ==
  ASSUME TypeOK, NEW p \in Processes, AnswerFrom(p, jobs[requests[p].name]),
         UNCHANGED <<jobs, free>>
  PROVE  Good(p)'
<1> DEFINE outcome == IF jobs[requests[p].name].digest = requests[p].content
                      THEN "existing" ELSE "conflict"
           answer == [call |-> requests[p], outcome |-> outcome,
                      record |-> jobs[requests[p].name]]
<1>1. End(p, answer)
  BY DEF AnswerFrom, Says
<1>2. /\ answer.call = requests[p]
      /\ answer.outcome = outcome
      /\ answer.record = jobs[requests[p].name]
  OBVIOUS
<1>3. \/ outcome = "existing" /\ jobs[requests[p].name].digest = requests[p].content
      \/ outcome = "conflict" /\ jobs[requests[p].name].digest # requests[p].content
  OBVIOUS
<1> HIDE DEF answer, outcome
<1> QED
  BY <1>1, <1>2, <1>3, Answerer

\* Whoever acts stays good.
LEMMA Actor ==
  ASSUME TypeOK, NEW p \in Processes, Good(p),
         \/ Serve(p)
         \/ Abandon(p)
         \/ \E request \in Request : Receive(p, request)
  PROVE  Good(p)'
<1>1. ASSUME NEW request \in Request, Receive(p, request)
      PROVE  Good(p)'
  BY <1>1, JobFacts DEF Receive, TypeOK, Good, Known, Stands, Accepted
<1>2. CASE Abandon(p)
  BY <1>2, Answerer DEF Abandon
<1>3. CASE Replay(p)
  <2>1. requests[p] # None
    BY <1>3 DEF Replay, Good, Known
  <2>2. UNCHANGED <<jobs, free>>
    BY <1>3 DEF Replay
  <2>3. CASE jobs[requests[p].name] = None /\ Goto(p, "resolve")
    <3>1. free[p]
      BY <1>3, <2>3 DEF Replay, Good, Known, TypeOK
    <3> QED
      BY <2>1, <2>2, <2>3, <3>1, Mover
  <2> QED
    BY <1>3, <2>2, <2>3, FoundAnswer DEF Replay
<1>4. CASE Resolve(p)
  <2>1. requests[p] # None /\ free[p]
    BY <1>4 DEF Resolve, Good, Known
  <2>2. UNCHANGED <<jobs, free>>
    BY <1>4 DEF Resolve
  <2>3. CASE Goto(p, "insert")
    BY <2>1, <2>2, <2>3, Mover
  <2>4. CASE Says(p, "refused", None)
    BY <2>1, <2>2, <2>4, Answerer DEF Says
  <2> QED
    BY <1>4, <2>3, <2>4 DEF Resolve
<1>5. CASE BeginJob(p)
  <2>1. requests[p] \in Request /\ requests[p] # None /\ free[p]
    BY <1>5 DEF BeginJob, Good, Known, TypeOK
  <2>2. UNCHANGED free
    BY <1>5 DEF BeginJob
  <2>3. CASE Goto(p, "reread") /\ UNCHANGED jobs /\ jobs[requests[p].name] # None
    BY <2>1, <2>2, <2>3, Mover
  <2>4. ASSUME NEW job \in Job, job.digest = requests[p].content,
               jobs' = [jobs EXCEPT ![requests[p].name] = job],
               Says(p, "created", job) \/ End(p, None)
        PROVE  Good(p)'
    <3>1. jobs'[requests[p].name] = job
      BY <2>1, <2>4, JobFacts DEF TypeOK
    <3> QED
      BY <2>2, <2>4, <3>1, Answerer DEF Says
  <2> QED
    BY <1>5, <2>1, <2>3, <2>4, BeginJobFacts
<1>6. CASE Reread(p)
  BY <1>6, FoundAnswer DEF Reread
<1> QED
  BY <1>1, <1>2, <1>3, <1>4, <1>5, <1>6 DEF Serve

\* No step by a process touches what another one knows.
LEMMA OthersStand ==
  ASSUME TypeOK, NEW p \in Processes, NEW q \in Processes \ {p},
         \/ Serve(p)
         \/ Abandon(p)
         \/ \E request \in Request : Receive(p, request)
  PROVE  /\ pc'[q] = pc[q] /\ requests'[q] = requests[q]
         /\ free'[q] = free[q] /\ answers'[q] = answers[q]
<1>1. ASSUME NEW request \in Request, Receive(p, request)
      PROVE  /\ pc'[q] = pc[q] /\ requests'[q] = requests[q]
             /\ free'[q] = free[q] /\ answers'[q] = answers[q]
  BY <1>1 DEF Receive, TypeOK
<1>2. CASE /\ \/ \E label : Goto(p, label)
              \/ \E answer : End(p, answer)
           /\ UNCHANGED free
  BY <1>2 DEF Goto, End, TypeOK
<1> QED
  BY <1>1, <1>2 DEF Serve, Replay, Resolve, BeginJob, Reread, Abandon, AnswerFrom, Says

\* The invariant is inductive.
LEMMA IInvStep == IInv /\ [Next]_vars => IInv'
<1> SUFFICES ASSUME IInv, [Next]_vars
             PROVE  IInv'
  OBVIOUS
<1>1. TypeOK /\ \A p \in Processes : Good(p) /\ Known(p)
  BY IInvIsGood DEF Good
<1>2. TypeOK' /\ JobsStay
  BY <1>1, TypeStep, NextKeepsJobs
<1>3. ASSUME NEW p \in Processes, NEW q \in Processes,
             \/ Serve(p)
             \/ Abandon(p)
             \/ \E request \in Request : Receive(p, request)
      PROVE  Good(q)'
  <2>1. CASE q = p
    BY <1>1, <1>3, <2>1, Actor
  <2>2. CASE q # p
    <3>1. /\ pc'[q] = pc[q] /\ requests'[q] = requests[q]
          /\ free'[q] = free[q] /\ answers'[q] = answers[q]
      BY <1>1, <1>3, <2>2, OthersStand
    <3> QED
      BY <1>1, <1>2, <3>1, Bystander
  <2> QED
    BY <2>1, <2>2
<1>4. ASSUME NEW q \in Processes, ChangeInputs \/ UNCHANGED vars
      PROVE  Good(q)'
  <2>1. /\ pc'[q] = pc[q] /\ requests'[q] = requests[q]
        /\ free'[q] = free[q] /\ answers'[q] = answers[q]
    BY <1>4 DEF ChangeInputs, vars
  <2> QED
    BY <1>1, <1>2, <2>1, Bystander
<1>5. ASSUME NEW q \in Processes
      PROVE  Good(q)'
  BY <1>3, <1>4 DEF Next
<1> QED
  BY <1>2, <1>5
     DEF IInv, Good, AcceptedAgree, ReplayIsNeverRefused, ConflictsAreReal

(***************************************************************************)
(* The safety properties                                                   *)
(***************************************************************************)

\* The inductive invariant holds in every reachable state.
THEOREM InvariantHolds == Spec => []IInv
<1>1. Init => IInv
  BY InitIInv
<1>2. IInv /\ [Next]_vars => IInv'
  BY IInvStep
<1> QED
  BY <1>1, <1>2, PTL DEF Spec

\* The variables of the submission service keep their types, for any number of
\* processes, keys, digests and identifiers.
THEOREM TypeCorrect == Spec => []TypeOK
<1>1. IInv => TypeOK
  BY DEF IInv
<1> QED
  BY <1>1, InvariantHolds, PTL

\* Idempotent submission (begin_job, _idempotent_replay): whoever was accepted
\* under a key was told of the one job that is stored under it, and meant it.
THEOREM OneJobPerKey == Spec => []AcceptedAgree
<1>1. IInv => AcceptedAgree
  BY DEF IInv
<1> QED
  BY <1>1, InvariantHolds, PTL

\* A repetition of accepted work is never refused for its inputs, because
\* _idempotent_replay comes before they are resolved.
THEOREM ReplaysAreServed == Spec => []ReplayIsNeverRefused
<1>1. IInv => ReplayIsNeverRefused
  BY DEF IInv
<1> QED
  BY <1>1, InvariantHolds, PTL

\* IdempotencyConflictError is raised for requests that differ only.
THEOREM ConflictsDiffer == Spec => []ConflictsAreReal
<1>1. IInv => ConflictsAreReal
  BY DEF IInv
<1> QED
  BY <1>1, InvariantHolds, PTL

(***************************************************************************)
(* The refinement                                                          *)
(***************************************************************************)

\* The mapped initial states are initial states of CreateOnce.
LEMMA InitRefines == Init => Once!OnceInit
  BY DEF Init, Once!OnceInit

\* Ending a call with an answer is Done of CreateOnce.
LEMMA EndIsDone ==
  ASSUME NEW p \in Processes, NEW answer, requests[p] # None, End(p, answer),
         UNCHANGED free
  PROVE  Once!Done(p, answer)
  BY DEF End, Once!Done

\* An answer from the row under the key is the step Found.
LEMMA AnswerIsFound ==
  ASSUME TypeOK, NEW p \in Processes, requests[p] # None,
         AnswerFrom(p, jobs[requests[p].name]), UNCHANGED <<jobs, free>>
  PROVE  Once!Found(p)
<1>1. requests[p].name \in Keys
  BY JobFacts DEF TypeOK
<1>2. jobs[requests[p].name] \in Job /\ jobs[requests[p].name] # None
  BY <1>1 DEF TypeOK, AnswerFrom
<1>3. [job \in Job |-> job.digest][jobs[requests[p].name]]
        = jobs[requests[p].name].digest
  BY <1>2
<1>4. Once!Done(p, [call |-> requests[p],
                    outcome |-> IF jobs[requests[p].name].digest = requests[p].content
                                THEN "existing" ELSE "conflict",
                    record |-> jobs[requests[p].name]])
  BY EndIsDone DEF AnswerFrom, Says
<1> QED
  BY <1>2, <1>3, <1>4 DEF Once!Found

\* Every step is a step of CreateOnce or a stutter: a submission takes effect
\* at the insert, and otherwise at the lookup it answers from.
LEMMA StepRefines == IInv /\ [Next]_vars => [Once!OnceNext]_(Once!onceVars)
<1> SUFFICES ASSUME IInv, [Next]_vars
             PROVE  Once!OnceNext \/ UNCHANGED Once!onceVars
  OBVIOUS
<1>1. TypeOK /\ \A p \in Processes : Known(p)
  BY DEF IInv
<1>2. ASSUME NEW p \in Processes, NEW request \in Request, Receive(p, request)
      PROVE  Once!OnceNext
  <2>1. requests[p] = None
    BY <1>1, <1>2 DEF Receive, Known
  <2>2. Once!Arrive(p, request) /\ request \in Once!Calls
    BY <1>2, <2>1 DEF Receive, Once!Arrive, Request, Once!Calls
  <2> QED
    BY <2>2 DEF Once!OnceNext
<1>3. ASSUME NEW p \in Processes, requests[p] # None,
             Once!Created(p) \/ Once!Found(p) \/ Once!Refused(p) \/ Once!Failed(p)
      PROVE  Once!OnceNext
  BY <1>3 DEF Once!OnceNext
<1>4. ASSUME NEW p \in Processes, Replay(p)
      PROVE  Once!OnceNext \/ UNCHANGED Once!onceVars
  <2>1. requests[p] # None /\ UNCHANGED <<jobs, free>>
    BY <1>1, <1>4 DEF Replay, Known
  <2>2. CASE AnswerFrom(p, jobs[requests[p].name])
    BY <1>1, <1>3, <2>1, <2>2, AnswerIsFound
  <2>3. CASE Goto(p, "resolve")
    BY <2>1, <2>3 DEF Goto, Once!onceVars
  <2> QED
    BY <1>4, <2>2, <2>3 DEF Replay
<1>5. ASSUME NEW p \in Processes, Resolve(p)
      PROVE  Once!OnceNext \/ UNCHANGED Once!onceVars
  <2>1. requests[p] # None /\ free[p] /\ UNCHANGED <<jobs, free>>
    BY <1>1, <1>5 DEF Resolve, Known
  <2>2. CASE Says(p, "refused", None)
    BY <1>3, <2>1, <2>2, EndIsDone DEF Says, Once!Refused
  <2>3. CASE Goto(p, "insert")
    BY <2>1, <2>3 DEF Goto, Once!onceVars
  <2> QED
    BY <1>5, <2>2, <2>3 DEF Resolve
<1>6. ASSUME NEW p \in Processes, BeginJob(p)
      PROVE  Once!OnceNext \/ UNCHANGED Once!onceVars
  <2>1. requests[p] \in Request /\ requests[p] # None /\ UNCHANGED free
    BY <1>1, <1>6 DEF BeginJob, Known, TypeOK
  <2>2. CASE Goto(p, "reread") /\ UNCHANGED jobs
    BY <2>1, <2>2 DEF Goto, Once!onceVars
  <2>3. ASSUME NEW job \in Job, jobs[requests[p].name] = None,
               job.digest = requests[p].content,
               jobs' = [jobs EXCEPT ![requests[p].name] = job],
               Says(p, "created", job) \/ End(p, None)
        PROVE  Once!Created(p)
    <3>1. [r \in Job |-> r.digest][job] = requests[p].content
      BY <2>3
    <3>2. Once!Create(p, job)
      BY <2>3, <3>1 DEF Once!Create
    <3>3. \/ Once!Done(p, [call |-> requests[p], outcome |-> "created", record |-> job])
          \/ Once!Done(p, None)
      BY <2>1, <2>3, EndIsDone DEF Says
    <3> QED
      BY <3>2, <3>3 DEF Once!Created
  <2> QED
    BY <1>3, <1>6, <2>1, <2>2, <2>3, BeginJobFacts
<1>7. ASSUME NEW p \in Processes, Reread(p)
      PROVE  Once!OnceNext
  <2>1. requests[p] # None /\ UNCHANGED <<jobs, free>>
    BY <1>1, <1>7 DEF Reread, Known
  <2> QED
    BY <1>1, <1>3, <1>7, <2>1, AnswerIsFound DEF Reread
<1>8. ASSUME NEW p \in Processes, Abandon(p)
      PROVE  Once!OnceNext
  <2>1. requests[p] # None /\ UNCHANGED <<jobs, free>>
    BY <1>1, <1>8 DEF Abandon, Known
  <2> QED
    BY <1>3, <1>8, <2>1, EndIsDone DEF Abandon, Once!Failed
<1>9. CASE ChangeInputs \/ UNCHANGED vars
  BY <1>9 DEF ChangeInputs, vars, Once!onceVars
<1> QED
  BY <1>2, <1>4, <1>5, <1>6, <1>7, <1>8, <1>9 DEF Next, Serve

\* The submission service implements the promise of CreateOnce: each call is
\* decided in one step, although it looks and inserts in several.
THEOREM SubmissionImplementsCreateOnce == Spec => ImplementsCreateOnce
<1>1. Init => Once!OnceInit
  BY InitRefines
<1>2. IInv /\ [Next]_vars => [Once!OnceNext]_(Once!onceVars)
  BY StepRefines
<1> QED
  BY <1>1, <1>2, InvariantHolds, PTL DEF Spec, ImplementsCreateOnce, Once!OnceSpec

(***************************************************************************)
(* Registry                                                                *)
(***************************************************************************)

\* Registrations and documents are not None, a document pins a document of a dataset
\* revision, and a suite is not a dataset.
LEMMA RegistryFacts ==
  /\ None \notin Contents
  /\ None \notin Reg!Request
  /\ Reg!Revisions = Datasets \cup Suites
  /\ \A r \in Reg!Request : r.name \in Reg!Revisions /\ r.content \in Contents
  /\ \A c \in Contents : PinOf[c].dataset \in Datasets /\ PinOf[c].content \in Contents
  /\ \A s \in Suites : s \notin Datasets
  /\ Datasets \subseteq Reg!Revisions /\ Suites \subseteq Reg!Revisions
  BY ControlPlaneAssumption DEF Reg!Request, Reg!Revisions

\* The empty registry satisfies its invariant.
LEMMA InitRegistry == Reg!Init => Reg!IInv
  BY RegistryFacts DEF Reg!Init, Reg!IInv, Reg!TypeOK, Reg!Known

\* A registration ends with an answer of its type, or without one.
LEMMA RegistryEnds ==
  ASSUME Reg!TypeOK, NEW p \in Processes, NEW what \in Reg!Answer \cup {None},
         Reg!Ends(p, what), revisions' \in [Reg!Revisions -> Contents \cup {None}]
  PROVE  Reg!TypeOK'
  BY DEF Reg!TypeOK, Reg!Ends

\* What may be said of a registration is an answer.
LEMMA RegistryAnswers ==
  ASSUME NEW r \in Reg!Request, NEW c \in Contents
  PROVE  /\ [call |-> r, outcome |-> "created", record |-> c] \in Reg!Answer
         /\ [call |-> r, outcome |-> "existing", record |-> c] \in Reg!Answer
         /\ [call |-> r, outcome |-> "conflict", record |-> c] \in Reg!Answer
         /\ [call |-> r, outcome |-> "refused", record |-> None] \in Reg!Answer
  BY DEF Reg!Answer

\* A process that is not idle serves a request for a revision.
LEMMA Registering ==
  ASSUME Reg!TypeOK, NEW p \in Processes, Reg!Known(p), stage[p] # "idle"
  PROVE  /\ registrations[p] \in Reg!Request
         /\ registrations[p].name \in Reg!Revisions
         /\ registrations[p].content \in Contents
         /\ Reg!Row(p) \in Contents \cup {None}
  BY RegistryFacts DEF Reg!TypeOK, Reg!Known, Reg!Row

\* Every registry step keeps the types.
LEMMA RegistryTypes ==
  ASSUME Reg!TypeOK, NEW p \in Processes, Reg!Known(p), Reg!Serve(p)
  PROVE  Reg!TypeOK'
<1>1. ASSUME NEW r \in Reg!Revisions, NEW c \in Contents, Reg!Receive(p, r, c)
      PROVE  Reg!TypeOK'
  <2>1. [name |-> r, content |-> c] \in Reg!Request
    BY DEF Reg!Request
  <2> QED
    BY <1>1, <2>1 DEF Reg!Receive, Reg!TypeOK
<1>2. ASSUME NEW label \in {"insert", "dataset", "reread"}, Reg!Goto(p, label)
      PROVE  Reg!TypeOK'
  BY <1>2 DEF Reg!Goto, Reg!TypeOK
<1>3. ASSUME Reg!Ends(p, None), UNCHANGED revisions
      PROVE  Reg!TypeOK'
  BY <1>3, RegistryEnds DEF Reg!TypeOK
<1>4. ASSUME stage[p] # "idle", Reg!Row(p) # None,
             Reg!Says(p, Reg!Compared(p), Reg!Row(p)), UNCHANGED revisions
      PROVE  Reg!TypeOK'
  <2>1. registrations[p] \in Reg!Request /\ Reg!Row(p) \in Contents
    BY <1>4, Registering
  <2>2. [call |-> registrations[p], outcome |-> Reg!Compared(p), record |-> Reg!Row(p)]
          \in Reg!Answer
    BY <2>1, RegistryAnswers DEF Reg!Compared
  <2> QED
    BY <1>4, <2>2, RegistryEnds DEF Reg!Says, Reg!TypeOK
<1>5. CASE Reg!ValidateBounds(p)
  <2>1. CASE Reg!Says(p, "refused", None) /\ UNCHANGED revisions
    <3>1. registrations[p] \in Reg!Request
      BY <1>5, Registering DEF Reg!ValidateBounds
    <3>2. [call |-> registrations[p], outcome |-> "refused", record |-> None] \in Reg!Answer
      BY <3>1 DEF Reg!Answer
    <3> QED
      BY <2>1, <3>2, RegistryEnds DEF Reg!Says, Reg!TypeOK
  <2> QED
    BY <1>2, <1>5, <2>1 DEF Reg!ValidateBounds
<1>6. CASE Reg!Lookup(p)
  BY <1>2, <1>4, <1>6 DEF Reg!Lookup
<1>7. CASE Reg!Resolve(p)
  <2>1. CASE Reg!Goto(p, "insert")
    BY <1>2, <2>1
  <2>2. CASE Reg!Says(p, "refused", None) /\ UNCHANGED revisions
    <3>1. registrations[p] \in Reg!Request
      BY <1>7, Registering DEF Reg!Resolve
    <3>2. [call |-> registrations[p], outcome |-> "refused", record |-> None] \in Reg!Answer
      BY <3>1 DEF Reg!Answer
    <3> QED
      BY <2>2, <3>2, RegistryEnds DEF Reg!Says, Reg!TypeOK
  <2> QED
    BY <1>7, <2>1, <2>2 DEF Reg!Resolve
<1>8. CASE Reg!Insert(p)
  <2>1. CASE Reg!Goto(p, "reread")
    BY <1>2, <2>1
  <2>2. CASE /\ revisions' = [revisions EXCEPT ![Reg!Revision(p)] = registrations[p].content]
             /\ Reg!Says(p, "created", registrations[p].content) \/ Reg!Ends(p, None)
    <3>1. registrations[p] \in Reg!Request /\ registrations[p].content \in Contents
      BY <1>8, Registering DEF Reg!Insert
    <3>2. [call |-> registrations[p], outcome |-> "created",
           record |-> registrations[p].content] \in Reg!Answer
      BY <3>1, RegistryAnswers
    <3>3. revisions' \in [Reg!Revisions -> Contents \cup {None}]
      BY <2>2, <3>1 DEF Reg!TypeOK
    <3> QED
      BY <2>2, <3>2, <3>3, RegistryEnds DEF Reg!Says
  <2> QED
    BY <1>8, <2>1, <2>2 DEF Reg!Insert
<1>9. CASE Reg!Reread(p)
  BY <1>4, <1>9 DEF Reg!Reread, Reg!Known
<1>10. CASE Reg!Abandon(p)
  BY <1>3, <1>10 DEF Reg!Abandon
<1> QED
  BY <1>1, <1>5, <1>6, <1>7, <1>8, <1>9, <1>10 DEF Reg!Serve

RowsStay == \A r \in Reg!Revisions : revisions[r] # None => revisions'[r] = revisions[r]

\* Whoever serves a registration changes no row that is there.
LEMMA ServeKeepsRows ==
  ASSUME Reg!TypeOK, NEW p \in Processes, Reg!Known(p), Reg!Serve(p)
  PROVE  RowsStay
<1>1. CASE UNCHANGED revisions
  BY <1>1 DEF RowsStay
<1>2. CASE Reg!Insert(p)
  <2>1. registrations[p].name \in Reg!Revisions
    BY <1>2, Registering DEF Reg!Insert
  <2>2. \/ UNCHANGED revisions
        \/ /\ revisions[registrations[p].name] = None
           /\ revisions' = [revisions EXCEPT ![registrations[p].name] = registrations[p].content]
    BY <1>2 DEF Reg!Insert, Reg!Row, Reg!Revision, Reg!Goto
  <2> QED
    BY <2>1, <2>2 DEF RowsStay, Reg!TypeOK
<1> QED
  BY <1>1, <1>2 DEF Reg!Serve, Reg!Receive, Reg!ValidateBounds, Reg!Lookup, Reg!Resolve,
     Reg!Reread, Reg!Abandon, Reg!Goto

\* What was found sound stays so: the dataset a suite stands on is never replaced.
LEMMA SoundStays ==
  ASSUME RowsStay, NEW r \in Reg!Revisions, NEW c \in Contents, Reg!Sound(r, c)
  PROVE  Reg!Sound(r, c)'
<1>1. PinOf[c].dataset \in Reg!Revisions /\ PinOf[c].content # None
  BY RegistryFacts
<1> QED
  BY <1>1 DEF RowsStay, Reg!Sound

\* A process that takes no part in a step knows what it knew.
LEMMA RegistryBystander ==
  ASSUME Reg!TypeOK, RowsStay, NEW q \in Processes, Reg!Known(q),
         stage'[q] = stage[q], registrations'[q] = registrations[q], vacant'[q] = vacant[q]
  PROVE  Reg!Known(q)'
<1>1. CASE stage[q] = "idle"
  BY <1>1 DEF Reg!Known
<1>2. CASE stage[q] # "idle"
  <2>1. /\ registrations[q].name \in Reg!Revisions
        /\ registrations[q].content \in Contents
    BY <1>2, Registering
  <2>2. Reg!Row(q) # None => Reg!Row(q)' # None
    BY <2>1 DEF RowsStay, Reg!Row
  <2>3. Reg!Sound(registrations[q].name, registrations[q].content) =>
          Reg!Sound(registrations[q].name, registrations[q].content)'
    BY <2>1, SoundStays
  <2>4. Reg!Revision(q) = registrations[q].name /\ Reg!Revision(q)' = registrations[q].name
    BY DEF Reg!Revision
  <2>5. stage[q] = "insert" => Reg!Sound(Reg!Revision(q), registrations[q].content)'
    BY <2>3, <2>4 DEF Reg!Known, Reg!Sound
  <2> QED
    BY <2>2, <2>4, <2>5 DEF Reg!Known
<1> QED
  BY <1>1, <1>2

\* A process that ended its registration knows nothing more.
LEMMA RegistryRests ==
  ASSUME Reg!TypeOK, NEW p \in Processes, NEW what, Reg!Ends(p, what)
  PROVE  Reg!Known(p)'
  BY DEF Reg!Ends, Reg!Known, Reg!TypeOK

\* A process that goes on knows what the step has established.
LEMMA RegistryMoves ==
  ASSUME Reg!TypeOK, NEW p \in Processes, Reg!Known(p), stage[p] # "idle",
         NEW label \in {"insert", "dataset", "reread"}, Reg!Goto(p, label),
         registrations[p] \notin Reg!OverLimits,
         label = "dataset" => vacant[p] /\ Reg!Revision(p) \notin Datasets,
         label = "insert" => Reg!Sound(Reg!Revision(p), registrations[p].content),
         label = "reread" => Reg!Row(p) # None
  PROVE  Reg!Known(p)'
<1>1. /\ stage'[p] = label /\ revisions' = revisions
      /\ registrations' = registrations /\ vacant' = vacant
  BY DEF Reg!Goto, Reg!TypeOK
<1>2. Reg!Row(p)' = Reg!Row(p) /\ Reg!Revision(p)' = Reg!Revision(p)
  BY <1>1 DEF Reg!Row, Reg!Revision
<1>3. Reg!Sound(Reg!Revision(p), registrations[p].content)'
        = Reg!Sound(Reg!Revision(p), registrations[p].content)
  BY <1>1, <1>2 DEF Reg!Sound
<1>4. Reg!OverLimits' = Reg!OverLimits
  BY DEF Reg!OverLimits, Reg!Request, Reg!Revisions
<1> QED
  BY <1>1, <1>2, <1>3, <1>4 DEF Reg!Known

\* Whoever acts knows what its step has established.
LEMMA RegistryActor ==
  ASSUME Reg!IInv, NEW p \in Processes, Reg!Serve(p)
  PROVE  Reg!Known(p)'
<1>1. Reg!TypeOK /\ Reg!Known(p)
  BY DEF Reg!IInv
<1>2. ASSUME NEW r \in Reg!Revisions, NEW c \in Contents, Reg!Receive(p, r, c)
      PROVE  Reg!Known(p)'
  <2>1. [name |-> r, content |-> c] # None
    BY RegistryFacts DEF Reg!Request
  <2>2. /\ stage'[p] = IF r \in Datasets THEN "bounds" ELSE "lookup"
        /\ registrations'[p] = [name |-> r, content |-> c]
        /\ vacant'[p] = (revisions[r] = None) /\ revisions' = revisions
    BY <1>1, <1>2 DEF Reg!Receive, Reg!TypeOK
  <2>3. Reg!Revision(p)' = r /\ Reg!Row(p)' = revisions[r] /\ registrations'[p] # None
    BY <2>1, <2>2 DEF Reg!Row, Reg!Revision
  <2>4. stage'[p] \in {"bounds", "lookup"} /\ (stage'[p] = "bounds" <=> r \in Datasets)
    BY <2>2
  <2>5. ~vacant'[p] => revisions[r] # None
    BY <2>2
  <2>6. stage'[p] # "bounds" => registrations'[p] \notin Reg!OverLimits'
    BY <2>2, <2>4 DEF Reg!OverLimits
  <2> QED
    BY <2>3, <2>4, <2>5, <2>6 DEF Reg!Known
<1>3. CASE \E what : Reg!Ends(p, what)
  BY <1>1, <1>3, RegistryRests
<1>4. CASE Reg!ValidateBounds(p)
  <2>1. CASE Reg!Says(p, "refused", None)
    BY <1>3, <2>1 DEF Reg!Says
  <2>2. CASE Reg!Goto(p, "insert") /\ registrations[p].content \notin Invalid
    <3>1. registrations[p] \notin Reg!OverLimits
      BY <2>2 DEF Reg!OverLimits
    <3>2. Reg!Sound(Reg!Revision(p), registrations[p].content)
      BY <1>1, <1>4, <2>2 DEF Reg!ValidateBounds, Reg!Known, Reg!Sound
    <3> QED
      BY <1>1, <1>4, <2>2, <3>1, <3>2, RegistryMoves DEF Reg!ValidateBounds
  <2> QED
    BY <1>4, <2>1, <2>2 DEF Reg!ValidateBounds
<1>9. stage[p] \in {"lookup", "dataset", "insert"} => registrations[p] \notin Reg!OverLimits
  BY <1>1 DEF Reg!Known
<1>5. CASE Reg!Lookup(p)
  BY <1>1, <1>3, <1>5, <1>9, RegistryMoves DEF Reg!Lookup, Reg!Known, Reg!Says
<1>6. CASE Reg!Resolve(p)
  <2>1. Reg!Revision(p) \notin Datasets
    BY <1>1, <1>6 DEF Reg!Resolve, Reg!Known
  <2> QED
    BY <1>1, <1>3, <1>6, <1>9, <2>1, RegistryMoves DEF Reg!Resolve, Reg!Says, Reg!Sound
<1>7. CASE Reg!Insert(p)
  BY <1>1, <1>3, <1>7, <1>9, RegistryMoves DEF Reg!Insert, Reg!Says
<1>8. CASE Reg!Reread(p) \/ Reg!Abandon(p)
  BY <1>3, <1>8 DEF Reg!Reread, Reg!Abandon, Reg!Says
<1> QED
  BY <1>2, <1>4, <1>5, <1>6, <1>7, <1>8 DEF Reg!Serve

\* No registration touches what another process serves.
LEMMA RegistryOthers ==
  ASSUME Reg!TypeOK, NEW p \in Processes, NEW q \in Processes \ {p}, Reg!Serve(p)
  PROVE  /\ stage'[q] = stage[q] /\ registrations'[q] = registrations[q]
         /\ vacant'[q] = vacant[q]
<1>1. ASSUME NEW r \in Reg!Revisions, NEW c \in Contents, Reg!Receive(p, r, c)
      PROVE  /\ stage'[q] = stage[q] /\ registrations'[q] = registrations[q]
             /\ vacant'[q] = vacant[q]
  BY <1>1 DEF Reg!Receive, Reg!TypeOK
<1>2. CASE (\E label : Reg!Goto(p, label)) \/ (\E what : Reg!Ends(p, what))
  BY <1>2 DEF Reg!Goto, Reg!Ends, Reg!TypeOK
<1> QED
  BY <1>1, <1>2 DEF Reg!Serve, Reg!ValidateBounds, Reg!Lookup, Reg!Resolve, Reg!Insert,
     Reg!Reread, Reg!Abandon, Reg!Says

\* A row is inserted only when its document was found sound.
LEMMA RowsAreSound ==
  ASSUME Reg!IInv, NEW p \in Processes, Reg!Serve(p), RowsStay,
         NEW r \in Reg!Revisions, revisions'[r] # None
  PROVE  Reg!Sound(r, revisions[r])'
<1>1. Reg!TypeOK /\ Reg!Known(p)
  BY DEF Reg!IInv
<1>2. CASE revisions[r] # None
  <2>1. Reg!Sound(r, revisions[r]) /\ revisions[r] \in Contents
    BY <1>1, <1>2 DEF Reg!IInv, Reg!TypeOK
  <2>2. revisions'[r] = revisions[r]
    BY <1>2 DEF RowsStay
  <2>3. PinOf[revisions[r]].dataset \in Reg!Revisions /\ PinOf[revisions[r]].content # None
    BY <2>1, RegistryFacts
  <2> QED
    BY <2>1, <2>2, <2>3 DEF RowsStay, Reg!Sound
<1>3. CASE revisions[r] = None
  <2>1. Reg!Insert(p)
    BY <1>3 DEF Reg!Serve, Reg!Receive, Reg!ValidateBounds, Reg!Lookup, Reg!Resolve,
       Reg!Reread, Reg!Abandon, Reg!Goto
  <2>2. /\ registrations[p].name \in Reg!Revisions
        /\ registrations[p].content \in Contents
    BY <1>1, <2>1, Registering DEF Reg!Insert
  <2>3. revisions' = [revisions EXCEPT ![registrations[p].name] = registrations[p].content]
    BY <1>3, <2>1 DEF Reg!Insert, Reg!Revision, Reg!Goto
  <2>4. registrations[p].name = r /\ revisions'[r] = registrations[p].content
    BY <1>1, <1>3, <2>2, <2>3 DEF Reg!TypeOK
  <2>5. Reg!Sound(r, registrations[p].content)
    BY <1>1, <2>1, <2>4 DEF Reg!Known, Reg!Insert, Reg!Revision
  <2>6. PinOf[registrations[p].content].dataset \in Reg!Revisions
    BY <2>2, RegistryFacts
  <2>7. PinOf[registrations[p].content].content # None
    BY <2>2, RegistryFacts
  <2> QED
    BY <2>4, <2>5, <2>6, <2>7 DEF RowsStay, Reg!Sound
<1> QED
  BY <1>2, <1>3

\* The invariant of the registry is inductive.
LEMMA RegistryStep ==
  ASSUME Reg!IInv, NEW p \in Processes, Reg!Serve(p)
  PROVE  Reg!IInv' /\ RowsStay
<1>1. Reg!TypeOK /\ \A q \in Processes : Reg!Known(q)
  BY DEF Reg!IInv
<1>2. Reg!TypeOK' /\ RowsStay
  BY <1>1, RegistryTypes, ServeKeepsRows
<1>3. ASSUME NEW q \in Processes
      PROVE  Reg!Known(q)'
  <2>1. CASE q = p
    BY <2>1, RegistryActor
  <2>2. CASE q # p
    <3>1. /\ stage'[q] = stage[q] /\ registrations'[q] = registrations[q]
          /\ vacant'[q] = vacant[q]
      BY <1>1, <2>2, RegistryOthers
    <3> QED
      BY <1>1, <1>2, <3>1, RegistryBystander
  <2> QED
    BY <2>1, <2>2
<1>4. \A r \in Reg!Revisions : revisions'[r] # None => Reg!Sound(r, revisions[r])'
  BY <1>2, RowsAreSound
<1>5. (\A q \in Processes : Reg!Known(q))'
  BY <1>3
<1>6. (\A r \in Reg!Revisions : revisions[r] # None => Reg!Sound(r, revisions[r]))'
  BY <1>4
<1> QED
  BY <1>2, <1>5, <1>6 DEF Reg!IInv

\* Nothing of the registry changes while none of its variables does.
LEMMA RegistryUnchanged ==
  ASSUME Reg!IInv, UNCHANGED registryVars
  PROVE  Reg!IInv' /\ RowsStay
<1>1. /\ revisions' = revisions /\ stage' = stage /\ registrations' = registrations
      /\ vacant' = vacant /\ receipts' = receipts
  BY DEF registryVars
<1>2. RowsStay
  BY <1>1 DEF RowsStay
<1>3. Reg!TypeOK'
  BY <1>1 DEF Reg!IInv, Reg!TypeOK
<1>4. ASSUME NEW q \in Processes
      PROVE  Reg!Known(q)'
  BY <1>1, <1>2, RegistryBystander DEF Reg!IInv
<1>5. (\A q \in Processes : Reg!Known(q))'
  BY <1>4
<1>6. (\A r \in Reg!Revisions : revisions[r] # None => Reg!Sound(r, revisions[r]))'
  BY <1>1 DEF Reg!IInv, Reg!Sound
<1> QED
  BY <1>2, <1>3, <1>5, <1>6 DEF Reg!IInv

(***************************************************************************)
(* The registry implements CreateOnce                                      *)
(***************************************************************************)

\* The mapped initial states are initial states of CreateOnce.
LEMMA InitRegisters == Reg!Init => Reg!Once!OnceInit
  BY DEF Reg!Init, Reg!Once!OnceInit

\* Ending a registration is Done of CreateOnce.
LEMMA EndRegisters ==
  ASSUME NEW p \in Processes, NEW what, registrations[p] # None, Reg!Ends(p, what)
  PROVE  Reg!Once!Done(p, what)
  BY DEF Reg!Ends, Reg!Once!Done

\* An answer from the row of the revision is the step Found.
LEMMA ComparedIsFound ==
  ASSUME Reg!TypeOK, NEW p \in Processes, Reg!Known(p), stage[p] # "idle",
         Reg!Row(p) # None, Reg!Says(p, Reg!Compared(p), Reg!Row(p)), UNCHANGED revisions,
         stage[p] # "bounds"
  PROVE  Reg!Once!Found(p)
<1>1. registrations[p] # None /\ Reg!Row(p) \in Contents
  BY Registering DEF Reg!Known
<1>2. [c \in Contents |-> c][Reg!Row(p)] = Reg!Row(p)
  BY <1>1
<1>3. Reg!Once!Done(p, [call |-> registrations[p], outcome |-> Reg!Compared(p),
                        record |-> Reg!Row(p)])
  BY <1>1, EndRegisters DEF Reg!Says
<1>4. Reg!Row(p) = revisions[registrations[p].name]
  BY DEF Reg!Row
<1>5. registrations[p] \notin Reg!OverLimits
  BY DEF Reg!Known
<1> QED
  BY <1>2, <1>3, <1>4, <1>5 DEF Reg!Once!Found, Reg!Compared

\* Every registry step is a step of CreateOnce or a stutter: a registration takes
\* effect at the insert, and otherwise at the lookup it is answered from.
LEMMA RegistryRefines ==
  ASSUME Reg!IInv, NEW p \in Processes, Reg!Serve(p)
  PROVE  Reg!Once!OnceNext \/ UNCHANGED Reg!Once!onceVars
<1>1. Reg!TypeOK /\ Reg!Known(p)
  BY DEF Reg!IInv
<1>2. ASSUME NEW r \in Reg!Revisions, NEW c \in Contents, Reg!Receive(p, r, c)
      PROVE  Reg!Once!OnceNext
  <2>1. registrations[p] = None
    BY <1>1, <1>2 DEF Reg!Receive, Reg!Known
  <2>2. [name |-> r, content |-> c] \in Reg!Once!Calls
    BY DEF Reg!Once!Calls
  <2>3. Reg!Once!Arrive(p, [name |-> r, content |-> c])
    BY <1>2, <2>1 DEF Reg!Receive, Reg!Once!Arrive
  <2> QED
    BY <2>2, <2>3 DEF Reg!Once!OnceNext
<1>3. ASSUME registrations[p] # None,
             \/ Reg!Once!Created(p) \/ Reg!Once!Found(p)
             \/ Reg!Once!Refused(p) \/ Reg!Once!Failed(p)
      PROVE  Reg!Once!OnceNext
  BY <1>3 DEF Reg!Once!OnceNext
<1>4. ASSUME NEW label, Reg!Goto(p, label)
      PROVE  UNCHANGED Reg!Once!onceVars
  BY <1>4 DEF Reg!Goto, Reg!Once!onceVars
<1>5. ASSUME registrations[p] # None, Reg!Ends(p, None), UNCHANGED revisions
      PROVE  Reg!Once!OnceNext
  BY <1>3, <1>5, EndRegisters DEF Reg!Once!Failed
<1>6. stage[p] # "idle" => registrations[p] # None
  BY <1>1 DEF Reg!Known
<1>7. CASE Reg!ValidateBounds(p)
  <2>1. CASE /\ registrations[p].content \in Invalid
             /\ Reg!Says(p, "refused", None) /\ UNCHANGED revisions
    <3>1. registrations[p] \in Reg!Request /\ registrations[p].name \in Datasets
      BY <1>1, <1>7, Registering DEF Reg!ValidateBounds, Reg!Known, Reg!Revision
    <3>2. registrations[p] \in Reg!OverLimits
      BY <2>1, <3>1 DEF Reg!OverLimits
    <3>3. registrations[p] # None
      BY <1>6, <1>7 DEF Reg!ValidateBounds
    <3>4. Reg!Once!Refused(p)
      BY <2>1, <3>2, <3>3, EndRegisters DEF Reg!Says, Reg!Once!Refused
    <3> QED
      BY <1>3, <3>3, <3>4
  <2> QED
    BY <1>4, <1>7, <2>1 DEF Reg!ValidateBounds
<1>8. CASE Reg!Lookup(p)
  BY <1>1, <1>3, <1>4, <1>6, <1>8, ComparedIsFound DEF Reg!Lookup
<1>9. CASE Reg!Resolve(p)
  <2>1. vacant[p] /\ registrations[p] # None
    BY <1>1, <1>6, <1>9 DEF Reg!Resolve, Reg!Known
  <2>2. CASE Reg!Says(p, "refused", None) /\ UNCHANGED revisions
    BY <1>3, <2>1, <2>2, EndRegisters DEF Reg!Says, Reg!Once!Refused
  <2> QED
    BY <1>4, <1>9, <2>2 DEF Reg!Resolve
<1>10. CASE Reg!Insert(p)
  <2>1. registrations[p] # None /\ registrations[p].content \in Contents
    BY <1>1, <1>6, <1>10, Registering DEF Reg!Insert
  <2>2. ASSUME Reg!Row(p) = None,
               revisions' = [revisions EXCEPT ![Reg!Revision(p)] = registrations[p].content],
               Reg!Says(p, "created", registrations[p].content) \/ Reg!Ends(p, None)
        PROVE  Reg!Once!Created(p)
    <3>1. [c \in Contents |-> c][registrations[p].content] = registrations[p].content
      BY <2>1
    <3>2. Reg!Once!Create(p, registrations[p].content)
      BY <2>2, <3>1 DEF Reg!Once!Create, Reg!Row, Reg!Revision
    <3>3. \/ Reg!Once!Done(p, [call |-> registrations[p], outcome |-> "created",
                               record |-> registrations[p].content])
          \/ Reg!Once!Done(p, None)
      BY <2>1, <2>2, EndRegisters DEF Reg!Says
    <3>4. registrations[p] \notin Reg!OverLimits
      BY <1>1, <1>10 DEF Reg!Insert, Reg!Known
    <3> QED
      BY <2>1, <3>2, <3>3, <3>4 DEF Reg!Once!Created
  <2> QED
    BY <1>3, <1>4, <1>10, <2>1, <2>2 DEF Reg!Insert
<1>11. CASE Reg!Reread(p)
  BY <1>1, <1>3, <1>6, <1>11, ComparedIsFound DEF Reg!Reread, Reg!Known
<1>12. CASE Reg!Abandon(p)
  BY <1>5, <1>6, <1>12 DEF Reg!Abandon
<1> QED
  BY <1>2, <1>7, <1>8, <1>9, <1>10, <1>11, <1>12 DEF Reg!Serve

(***************************************************************************)
(* Both services                                                           *)
(***************************************************************************)

\* Every step of the control plane is a step of Submission or leaves it alone.
LEMMA PlaneProjects == [PlaneNext]_allVars => [Next]_vars
  BY DEF PlaneNext, allVars, Submit, Register, Deploy, Next, vars

\* The empty control plane satisfies the invariant.
LEMMA InitPlane == PlaneInit => PlaneInv
<1> SUFFICES ASSUME PlaneInit
             PROVE  PlaneInv
  OBVIOUS
<1>1. IInv /\ Reg!IInv
  BY InitIInv, InitRegistry DEF PlaneInit
<1> QED
  BY <1>1 DEF PlaneInit, Init, PlaneInv, Pinned

\* What was pinned stays what the registry holds while rows stay.
LEMMA PinsStay ==
  ASSUME RowsStay, NEW digest \in Digests, NEW document,
         document # None, document = revisions[SuiteOf[digest]]
  PROVE  document = revisions'[SuiteOf[digest]]
  BY ControlPlaneAssumption, RegistryFacts DEF RowsStay

\* Steps of the registry, and steps that change nothing.
LEMMA RegistrationKeepsPins ==
  ASSUME PlaneInv, RowsStay, UNCHANGED <<vars, resolved, payloads>>, Reg!IInv'
  PROVE  PlaneInv'
<1>1. /\ jobs' = jobs /\ inputs' = inputs /\ pc' = pc /\ requests' = requests
      /\ free' = free /\ answers' = answers /\ resolved' = resolved /\ payloads' = payloads
  BY DEF vars
<1>2. TypeOK /\ \A p \in Processes : Known(p)
  BY DEF PlaneInv, IInv
<1>3. IInv'
  BY IInvStep DEF PlaneInv, vars
<1>4. ASSUME NEW digest \in inputs
      PROVE  Registered(digest)'
  <2>1. digest \in Digests /\ revisions[SuiteOf[digest]] # None
    BY <1>2, <1>4 DEF PlaneInv, Registered, TypeOK
  <2> QED
    BY <2>1, PinsStay DEF Registered
<1>5. ASSUME NEW p \in Processes
      PROVE  Pinned(p)'
  <2>1. CASE pc[p] = "insert"
    <3>1. requests[p].content \in Digests
      BY <1>2, <2>1, JobFacts DEF TypeOK, Known
    <3>2. resolved[p] # None /\ resolved[p] = revisions[SuiteOf[requests[p].content]]
      BY <2>1 DEF PlaneInv, Pinned
    <3> QED
      BY <1>1, <3>1, <3>2, PinsStay DEF Pinned
  <2> QED
    BY <1>1, <2>1 DEF Pinned
<1>6. ASSUME NEW k \in Keys, jobs[k] # None
      PROVE  payloads[k] # None /\ payloads[k] = revisions'[SuiteOf[jobs[k].digest]]
  <2>1. jobs[k].digest \in Digests
    BY <1>2, <1>6, JobFacts DEF TypeOK
  <2>2. payloads[k] # None /\ payloads[k] = revisions[SuiteOf[jobs[k].digest]]
    BY <1>6 DEF PlaneInv
  <2> QED
    BY <2>1, <2>2, PinsStay
<1>7. (\A digest \in inputs : Registered(digest))'
  BY <1>1, <1>4
<1>8. (\A p \in Processes : Pinned(p))'
  BY <1>5
<1>9. (\A k \in Keys : jobs[k] # None =>
          payloads[k] # None /\ payloads[k] = revisions[SuiteOf[jobs[k].digest]])'
  BY <1>1, <1>6
<1> QED
  BY <1>1, <1>3, <1>7, <1>8, <1>9 DEF PlaneInv

\* A submission comes to the insert only from inputs that resolve.
LEMMA InsertIsResolved ==
  ASSUME TypeOK, NEW p \in Processes, Known(p), pc'[p] = "insert",
         Serve(p) \/ Abandon(p) \/ \E request \in Request : Receive(p, request)
  PROVE  requests[p].content \in inputs /\ requests' = requests
<1>1. ASSUME NEW request \in Request, Receive(p, request)
      PROVE  FALSE
  BY <1>1 DEF Receive, TypeOK
<1>2. ASSUME NEW answer, End(p, answer)
      PROVE  FALSE
  BY <1>2 DEF End, TypeOK
<1>3. ASSUME NEW label \in {"resolve", "reread"}, Goto(p, label)
      PROVE  FALSE
  BY <1>3 DEF Goto, TypeOK
<1>4. CASE Replay(p)
  BY <1>2, <1>3, <1>4 DEF Replay, AnswerFrom, Says
<1>5. CASE Resolve(p)
  BY <1>2, <1>5 DEF Resolve, Says, Goto
<1>6. CASE BeginJob(p)
  BY <1>2, <1>3, <1>6 DEF BeginJob, Says
<1>7. CASE Reread(p) \/ Abandon(p)
  BY <1>2, <1>7 DEF Reread, Abandon, AnswerFrom, Says
<1> QED
  BY <1>1, <1>4, <1>5, <1>6, <1>7 DEF Serve

\* A submission that changes the table inserts the job of its request, after the
\* inputs have resolved.
LEMMA InsertedByRequest ==
  ASSUME TypeOK, NEW p \in Processes, Known(p), NEW k \in Keys, jobs'[k] # jobs[k],
         Serve(p) \/ Abandon(p) \/ \E request \in Request : Receive(p, request)
  PROVE  /\ pc[p] = "insert" /\ requests[p] \in Request
         /\ jobs'[k] \in Job /\ jobs'[k].digest = requests[p].content
<1>1. BeginJob(p)
  BY DEF Serve, Replay, Resolve, Reread, Abandon, Receive
<1>2. pc[p] = "insert" /\ requests[p] \in Request
  BY <1>1 DEF BeginJob, TypeOK, Known
<1>3. PICK job \in Job : /\ job.digest = requests[p].content
                         /\ jobs' = [jobs EXCEPT ![requests[p].name] = job]
  BY <1>1, <1>2, BeginJobFacts
<1> QED
  BY <1>2, <1>3 DEF TypeOK

\* Submissions keep the invariant of the control plane.
LEMMA SubmitStep ==
  ASSUME PlaneInv, NEW p \in Processes, Submit(p)
  PROVE  PlaneInv'
<1>1. TypeOK /\ \A q \in Processes : Known(q) /\ Pinned(q)
  BY DEF PlaneInv, IInv
<1>2. /\ Serve(p) \/ Abandon(p) \/ \E request \in Request : Receive(p, request)
      /\ inputs' = inputs /\ UNCHANGED registryVars
  BY DEF Submit, Serve, Replay, Resolve, BeginJob, Reread, Abandon, Receive
<1>3. /\ resolved' = [resolved EXCEPT ![p] =
            IF pc'[p] = "insert" THEN revisions[SuiteOf[requests[p].content]] ELSE None]
      /\ payloads' = [k \in Keys |-> IF jobs'[k] = jobs[k] THEN payloads[k] ELSE resolved[p]]
  BY DEF Submit
<1>4. /\ resolved \in [Processes -> Contents \cup {None}]
      /\ payloads \in [Keys -> Contents \cup {None}]
      /\ Reg!TypeOK
  BY DEF PlaneInv, Reg!IInv
<1>5. IInv' /\ Reg!IInv' /\ revisions' = revisions
  <2>1. [Next]_vars
    BY <1>2 DEF Next
  <2> QED
    BY <1>2, <2>1, IInvStep, RegistryUnchanged DEF PlaneInv, registryVars
<1>6. (\A digest \in inputs : Registered(digest))'
  BY <1>2, <1>5 DEF PlaneInv, Registered
<1>7. ASSUME pc'[p] = "insert"
      PROVE  /\ resolved'[p] = revisions[SuiteOf[requests[p].content]]
             /\ resolved'[p] \in Contents /\ requests' = requests
  <2>1. requests[p].content \in inputs /\ requests' = requests
    BY <1>1, <1>2, <1>7, InsertIsResolved
  <2>2. requests[p].content \in Digests /\ Registered(requests[p].content)
    BY <1>1, <2>1 DEF PlaneInv, TypeOK
  <2>3. revisions[SuiteOf[requests[p].content]] \in Contents
    BY <1>4, <2>2, ControlPlaneAssumption, RegistryFacts DEF Registered, Reg!TypeOK
  <2> QED
    BY <1>3, <1>4, <1>7, <2>1, <2>3
<1>8. resolved' \in [Processes -> Contents \cup {None}]
  BY <1>3, <1>4, <1>7
<1>9. payloads' \in [Keys -> Contents \cup {None}]
  BY <1>3, <1>4
<1>10. ASSUME NEW q \in Processes
       PROVE  Pinned(q)'
  <2>1. CASE q = p
    BY <1>5, <1>7, <2>1, RegistryFacts DEF Pinned
  <2>2. CASE q # p
    <3>1. pc'[q] = pc[q] /\ requests'[q] = requests[q]
      BY <1>1, <1>2, <2>2, OthersStand
    <3>2. resolved'[q] = resolved[q]
      BY <1>3, <1>4, <2>2
    <3> QED
      BY <1>1, <1>5, <3>1, <3>2 DEF Pinned
  <2> QED
    BY <2>1, <2>2
<1>11. ASSUME NEW k \in Keys, jobs'[k] # None
       PROVE  payloads'[k] # None /\ payloads'[k] = revisions[SuiteOf[jobs'[k].digest]]
  <2>1. CASE jobs'[k] = jobs[k]
    BY <1>3, <1>11, <2>1 DEF PlaneInv
  <2>2. CASE jobs'[k] # jobs[k]
    <3>1. pc[p] = "insert" /\ jobs'[k].digest = requests[p].content
      BY <1>1, <1>2, <2>2, InsertedByRequest
    <3>2. payloads'[k] = resolved[p]
      BY <1>3, <2>2
    <3> QED
      BY <1>1, <3>1, <3>2 DEF Pinned
  <2> QED
    BY <2>1, <2>2
<1>12. (\A q \in Processes : Pinned(q))'
  BY <1>10
<1>13. (\A k \in Keys : jobs[k] # None =>
          payloads[k] # None /\ payloads[k] = revisions[SuiteOf[jobs[k].digest]])'
  BY <1>5, <1>11
<1> QED
  BY <1>5, <1>6, <1>8, <1>9, <1>12, <1>13 DEF PlaneInv

\* Adapters may come and go as long as what they resolve is registered.
LEMMA DeployStep ==
  ASSUME PlaneInv, Deploy
  PROVE  PlaneInv'
<1>1. /\ jobs' = jobs /\ pc' = pc /\ requests' = requests /\ resolved' = resolved
      /\ payloads' = payloads /\ UNCHANGED registryVars /\ revisions' = revisions
      /\ \A digest \in inputs' : Registered(digest)
  BY DEF Deploy, ChangeInputs, registryVars
<1>2. IInv' /\ Reg!IInv'
  <2>1. [Next]_vars
    BY DEF Deploy, Next
  <2> QED
    BY <1>1, <2>1, IInvStep, RegistryUnchanged DEF PlaneInv
<1>3. (\A digest \in inputs : Registered(digest))'
  BY <1>1 DEF Registered
<1>4. (\A p \in Processes : Pinned(p))'
  BY <1>1 DEF PlaneInv, Pinned
<1> QED
  BY <1>1, <1>2, <1>3, <1>4 DEF PlaneInv

\* The invariant of the control plane is inductive.
LEMMA PlaneStep == PlaneInv /\ [PlaneNext]_allVars => PlaneInv'
<1> SUFFICES ASSUME PlaneInv, [PlaneNext]_allVars
             PROVE  PlaneInv'
  OBVIOUS
<1>1. ASSUME NEW p \in Processes, Register(p)
      PROVE  PlaneInv'
  <2>1. Reg!IInv' /\ RowsStay
    BY <1>1, RegistryStep DEF Register, PlaneInv
  <2> QED
    BY <1>1, <2>1, RegistrationKeepsPins DEF Register
<1>2. CASE UNCHANGED allVars
  <2>1. UNCHANGED registryVars /\ UNCHANGED <<vars, resolved, payloads>>
    BY <1>2 DEF allVars, registryVars, vars
  <2>2. Reg!IInv' /\ RowsStay
    BY <2>1, RegistryUnchanged DEF PlaneInv
  <2> QED
    BY <2>1, <2>2, RegistrationKeepsPins
<1> QED
  BY <1>1, <1>2, SubmitStep, DeployStep DEF PlaneNext

\* The inductive invariant holds in every reachable state.
THEOREM PlaneInvariantHolds == PlaneSpec => []PlaneInv
  BY InitPlane, PlaneStep, PTL DEF PlaneSpec

\* What is stored can be used for good (submit_suite_run, validate_suite_registration):
\* a suite stands on a stored dataset within the limits, and a job on the suite its
\* request named, whatever is registered, submitted and deployed at the same time.
THEOREM JobsCanBeRun == PlaneSpec => []JobsStandOnRegistry
<1>1. PlaneInv => JobsStandOnRegistry
  <2> SUFFICES ASSUME PlaneInv
               PROVE  JobsStandOnRegistry
    OBVIOUS
  <2>1. ASSUME NEW s \in Suites, revisions[s] # None
        PROVE  /\ revisions[PinOf[revisions[s]].dataset] = PinOf[revisions[s]].content
               /\ PinOf[revisions[s]].content \notin Invalid
    <3> DEFINE pin == PinOf[revisions[s]]
    <3>1. s \in Reg!Revisions /\ s \notin Datasets /\ revisions[s] \in Contents
      BY <2>1, RegistryFacts DEF PlaneInv, Reg!IInv, Reg!TypeOK
    <3>2. revisions[pin.dataset] = pin.content
      BY <2>1, <3>1 DEF PlaneInv, Reg!IInv, Reg!Sound
    <3>3. pin.dataset \in Datasets /\ pin.dataset \in Reg!Revisions /\ pin.content # None
      BY <3>1, RegistryFacts
    <3>4. pin.content \notin Invalid
      BY <3>2, <3>3 DEF PlaneInv, Reg!IInv, Reg!Sound
    <3> QED
      BY <3>2, <3>4
  <2>2. Reg!SuitesStandOnDatasets
    BY <2>1 DEF Reg!SuitesStandOnDatasets
  <2> QED
    BY <2>2 DEF PlaneInv, JobsStandOnRegistry
<1> QED
  BY <1>1, PlaneInvariantHolds, PTL

\* Beside the registry submissions are what they are alone.
THEOREM PlaneImplementsSubmission == PlaneSpec => Spec
<1>1. PlaneInit => Init
  BY DEF PlaneInit
<1> QED
  BY <1>1, PlaneProjects, PTL DEF PlaneSpec, Spec

\* So they decide each call in one step, in the control plane as well.
THEOREM PlaneImplementsCreateOnce == PlaneSpec => ImplementsCreateOnce
  BY PlaneImplementsSubmission, SubmissionImplementsCreateOnce, PTL

\* The registry decides each registration in one step, although register_dataset and
\* register_suite look and insert in several and submissions run beside them.
THEOREM RegistryDecidesOnce == PlaneSpec => RegistryImplementsCreateOnce
<1>1. PlaneInit => Reg!Once!OnceInit
  BY InitRegisters DEF PlaneInit
<1>2. PlaneInv /\ [PlaneNext]_allVars => [Reg!Once!OnceNext]_(Reg!Once!onceVars)
  <2>1. ASSUME PlaneInv, NEW p \in Processes, Register(p)
        PROVE  Reg!Once!OnceNext \/ UNCHANGED Reg!Once!onceVars
    BY <2>1, RegistryRefines DEF PlaneInv, Register
  <2>2. UNCHANGED registryVars => UNCHANGED Reg!Once!onceVars
    BY DEF registryVars, Reg!Once!onceVars
  <2> QED
    BY <2>1, <2>2 DEF PlaneNext, Submit, Deploy, allVars
<1> QED
  BY <1>1, <1>2, PlaneInvariantHolds, PTL
     DEF PlaneSpec, RegistryImplementsCreateOnce, Reg!ImplementsCreateOnce, Reg!Once!OnceSpec
=============================================================================
