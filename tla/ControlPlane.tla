----------------------------- MODULE ControlPlane -----------------------------
(***************************************************************************)
(* ControlPlaneService in API processes that register datasets and suites  *)
(* (Registry) and accept submissions (Submission) over one database.  The  *)
(* handlers do not await while they call the repository, so a process is   *)
(* in one of them at a time.                                               *)
(*                                                                         *)
(* A submission names a suite revision.  What it resolves to is pinned in  *)
(* the payload that is stored with the job, an insert later.               *)
(***************************************************************************)
EXTENDS Submission

CONSTANTS
    Datasets, Suites, Contents, PinOf, Invalid, \* as in Registry
    SuiteOf     \* the suite revision each request digest names

ASSUME ControlPlaneAssumption ==
    /\ PinOf \in [Contents -> [dataset : Datasets, content : Contents]]
    /\ Invalid \subseteq Contents
    /\ SuiteOf \in [Digests -> Suites]
    /\ Datasets \cap Suites = {}
    /\ None \notin Contents \cup Datasets \cup Suites
    /\ None \notin [name : Datasets \cup Suites, content : Contents]

VARIABLES
    revisions, stage, registrations, vacant, receipts,  \* the variables of Registry
    resolved,   \* the suite document a submission has resolved to
    payloads    \* the suite document pinned with each job

registryVars == <<revisions, stage, registrations, vacant, receipts>>
allVars == <<vars, registryVars, resolved, payloads>>

Reg == INSTANCE Registry WITH
    stored <- revisions, pc <- stage, request <- registrations, free <- vacant,
    answer <- receipts

\* submit_*; the payload is made of what was resolved before the insert.
Submit(p) ==
    /\ stage[p] = "idle"
    /\ Serve(p) \/ Abandon(p) \/ \E request \in Request : Receive(p, request)
    /\ resolved' = [resolved EXCEPT ![p] =
          IF pc'[p] = "insert" THEN revisions[SuiteOf[requests[p].content]] ELSE None]
    /\ payloads' = [k \in Keys |-> IF jobs'[k] = jobs[k] THEN payloads[k] ELSE resolved[p]]
    /\ UNCHANGED registryVars

\* register_dataset and register_suite
Register(p) ==
    /\ pc[p] = "idle"
    /\ Reg!Serve(p)
    /\ UNCHANGED <<vars, resolved, payloads>>

\* get_suite and get_dataset
Registered(digest) == revisions[SuiteOf[digest]] # None

\* Adapters and targets are deployed and withdrawn.
Deploy ==
    /\ ChangeInputs
    /\ \A digest \in inputs' : Registered(digest)
    /\ UNCHANGED <<registryVars, resolved, payloads>>

PlaneInit ==
    /\ Init /\ inputs = {}
    /\ Reg!Init
    /\ resolved = [p \in Processes |-> None]
    /\ payloads = [k \in Keys |-> None]

PlaneNext ==
    \/ \E p \in Processes : Submit(p) \/ Register(p)
    \/ Deploy

PlaneSpec == PlaneInit /\ [][PlaneNext]_allVars

(***************************************************************************)
(* Properties                                                              *)
(***************************************************************************)

\* An accepted job can be run for good: its payload is the suite revision its
\* request names, and that suite pins a dataset revision that is stored with exactly
\* the content the suite was made for and within the limits of the service
\* (submit_suite_run, validate_suite_registration).
JobsStandOnRegistry ==
    /\ Reg!SuitesStandOnDatasets
    /\ \A k \in Keys : jobs[k] # None =>
          payloads[k] # None /\ payloads[k] = revisions[SuiteOf[jobs[k].digest]]

\* What a submission is about to store is what the registry holds for good.
Pinned(p) ==
    pc[p] = "insert" =>
        resolved[p] # None /\ resolved[p] = revisions[SuiteOf[requests[p].content]]

\* The inductive invariant: those of the two services and what ties them together.
PlaneInv ==
    /\ IInv /\ Reg!IInv
    /\ resolved \in [Processes -> Contents \cup {None}]
    /\ payloads \in [Keys -> Contents \cup {None}]
    /\ \A digest \in inputs : Registered(digest)
    /\ \A p \in Processes : Pinned(p)
    /\ \A k \in Keys : jobs[k] # None =>
          payloads[k] # None /\ payloads[k] = revisions[SuiteOf[jobs[k].digest]]

\* To its callers the registry, beside submissions, decides each registration in one
\* step: the first creates the revision for good, the others are told whether theirs
\* is the same, and only a dataset over the limits is refused where one is stored.
RegistryImplementsCreateOnce == Reg!ImplementsCreateOnce
=============================================================================
