------------------------------- MODULE Registry -------------------------------
(***************************************************************************)
(* The registry of dataset and suite revisions: register_dataset and       *)
(* register_suite (application/control_plane.py) in several API processes  *)
(* over put_dataset, get_dataset, put_suite and get_suite                  *)
(* (adapters/control_plane_db.py).                                         *)
(*                                                                         *)
(* A handler runs from one repository call to the next; a repository call  *)
(* is one statement and takes effect at once.  Rows are never updated nor  *)
(* deleted.                                                                *)
(***************************************************************************)
EXTENDS Naturals

CONSTANTS
    Processes,
    Datasets,       \* dataset revisions: a name and a number
    Suites,         \* suite revisions
    Contents,       \* documents, of datasets and of suites
    PinOf,          \* the dataset revision and the document a suite document pins
    Invalid,        \* documents that exceed the service's limits
    None

Revisions == Datasets \cup Suites

VARIABLES
    stored,     \* the document of each revision, or None
    pc,         \* the call each process is about to make
    request,    \* the request each process serves
    free,       \* history variable: its revision was free when it arrived
    answer      \* the answer each process gave last

vars == <<stored, pc, request, free, answer>>

Request == [name : Revisions, content : Contents]

Answer ==
    [call : Request, outcome : {"created", "existing", "conflict"}, record : Contents]
        \cup [call : Request, outcome : {"refused"}, record : {None}]

TypeOK ==
    /\ stored \in [Revisions -> Contents \cup {None}]
    /\ pc \in [Processes -> {"idle", "bounds", "lookup", "dataset", "insert", "reread"}]
    /\ request \in [Processes -> Request \cup {None}]
    /\ free \in [Processes -> BOOLEAN]
    /\ answer \in [Processes -> Answer \cup {None}]

Revision(p) == request[p].name
Row(p) == stored[request[p].name]

Goto(p, label) ==
    /\ pc' = [pc EXCEPT ![p] = label]
    /\ UNCHANGED <<stored, request, free, answer>>

\* The handler returns or raises, or its process dies: no answer.
Ends(p, what) ==
    /\ pc' = [pc EXCEPT ![p] = "idle"]
    /\ request' = [request EXCEPT ![p] = None]
    /\ answer' = [answer EXCEPT ![p] = what]
    /\ UNCHANGED free

Says(p, outcome, document) ==
    Ends(p, [call |-> request[p], outcome |-> outcome, record |-> document])

\* DatasetRecord or SuiteRecord, or ResourceConflictError.
Compared(p) == IF Row(p) = request[p].content THEN "existing" ELSE "conflict"

Receive(p, r, c) ==
    /\ pc[p] = "idle"
    /\ pc' = [pc EXCEPT ![p] = IF r \in Datasets THEN "bounds" ELSE "lookup"]
    /\ request' = [request EXCEPT ![p] = [name |-> r, content |-> c]]
    /\ free' = [free EXCEPT ![p] = stored[r] = None]
    /\ answer' = [answer EXCEPT ![p] = None]
    /\ UNCHANGED stored

\* _validate_dataset_bounds, a function of the document alone, before anything is looked
\* up: InvalidSubmissionError, also for a revision that exists.
ValidateBounds(p) ==
    /\ pc[p] = "bounds"
    /\ IF request[p].content \in Invalid
          THEN Says(p, "refused", None) /\ UNCHANGED stored
          ELSE Goto(p, "insert")

\* Mutant: a suite that exists is returned without comparing it.
LookupUncompared(p) ==
    /\ pc[p] = "lookup"
    /\ IF Row(p) = None THEN Goto(p, "dataset")
       ELSE Says(p, "existing", Row(p)) /\ UNCHANGED stored

\* get_suite: a suite that exists is answered before its dataset and its adapter are
\* looked at.
Lookup(p) ==
    /\ pc[p] = "lookup"
    /\ IF Row(p) = None THEN Goto(p, "dataset")
       ELSE Says(p, Compared(p), Row(p)) /\ UNCHANGED stored

\* get_dataset, validate_suite and validate_suite_registration: the dataset must be
\* the pinned one; the adapter of this process may not support the suite.
Resolve(p) ==
    /\ pc[p] = "dataset"
    /\ LET pin == PinOf[request[p].content]
       IN  \/ stored[pin.dataset] = pin.content /\ Goto(p, "insert")
           \/ Says(p, "refused", None) /\ UNCHANGED stored

\* Mutant: a revision that is registered again is updated.
InsertUpdates(p) ==
    /\ pc[p] = "insert"
    /\ stored' = [stored EXCEPT ![Revision(p)] = request[p].content]
    /\ Says(p, "created", request[p].content)

\* put_dataset, put_suite: the primary key lets one insert through.  The answer of a
\* committed insert may be lost.
Insert(p) ==
    /\ pc[p] = "insert"
    /\ \/ /\ Row(p) = None
          /\ stored' = [stored EXCEPT ![Revision(p)] = request[p].content]
          /\ Says(p, "created", request[p].content) \/ Ends(p, None)
       \/ Row(p) # None /\ Goto(p, "reread")

\* put_dataset, put_suite after the IntegrityError.
Reread(p) ==
    /\ pc[p] = "reread"
    /\ Says(p, Compared(p), Row(p))
    /\ UNCHANGED stored

\* The store fails, or the process.
Abandon(p) == pc[p] # "idle" /\ Ends(p, None) /\ UNCHANGED stored

Init ==
    /\ stored = [r \in Revisions |-> None]
    /\ pc = [p \in Processes |-> "idle"]
    /\ request = [p \in Processes |-> None]
    /\ free = [p \in Processes |-> FALSE]
    /\ answer = [p \in Processes |-> None]

Serve(p) ==
    \/ \E r \in Revisions, c \in Contents : Receive(p, r, c)
    \/ ValidateBounds(p) \/ Lookup(p) \/ Resolve(p) \/ Insert(p) \/ Reread(p)
    \/ Abandon(p)

Next == \E p \in Processes : Serve(p)

(***************************************************************************)
(* Properties                                                              *)
(***************************************************************************)

\* Every suite pins a dataset revision that is stored with exactly the content the
\* suite was made for and within the limits of the service, and keeps doing so, so
\* that every suite can be run (validate_suite_registration).
SuitesStandOnDatasets ==
    \A s \in Suites :
        stored[s] # None =>
            LET pin == PinOf[stored[s]]
            IN  stored[pin.dataset] = pin.content /\ pin.content \notin Invalid

\* A document that may be stored under a revision, and stays so: a dataset within the
\* limits, a suite over the stored dataset.
Sound(r, c) ==
    IF r \in Datasets THEN c \notin Invalid
    ELSE stored[PinOf[c].dataset] = PinOf[c].content

\* Registrations of a dataset document that exceeds the limits.
OverLimits == {r \in Request : r.name \in Datasets /\ r.content \in Invalid}

\* Where a process stands agrees with what it knows about its request.
Known(p) ==
    /\ pc[p] = "idle" <=> request[p] = None
    /\ pc[p] # "idle" /\ ~free[p] => Row(p) # None
    /\ pc[p] = "bounds" => Revision(p) \in Datasets
    /\ pc[p] \notin {"idle", "bounds"} => request[p] \notin OverLimits
    /\ pc[p] \in {"lookup", "dataset"} => Revision(p) \notin Datasets
    /\ pc[p] = "dataset" => free[p]
    /\ pc[p] = "insert" => Sound(Revision(p), request[p].content)
    /\ pc[p] = "reread" => Row(p) # None

\* The inductive invariant.
IInv ==
    /\ TypeOK
    /\ \A p \in Processes : Known(p)
    /\ \A r \in Revisions : stored[r] # None => Sound(r, stored[r])

\* To its callers the registry decides each registration in one step: the first one
\* creates the revision for good, the others are told whether theirs is the same; a
\* dataset over the limits is refused whatever is stored.
Once == INSTANCE CreateOnce WITH
    Names <- Revisions, Records <- Contents, Nothing <- None,
    Content <- [c \in Contents |-> c], Unacceptable <- OverLimits,
    calls <- request, answers <- answer

ImplementsCreateOnce == Once!OnceSpec
=============================================================================
