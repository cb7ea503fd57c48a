# A verification of the evaluation control plane

This directory holds TLA+ models of the LLM evaluation control plane, the TLC
runs that check them on small instances, and theorems about them that the TLA+
proof system checks for every instance.  It is written for a reader who has the
repository: file names are relative to its root, and
`adapters/...`, `api/...`, `application/...`, `domain/...`, `cli.py` and `worker.py` are
below `src/llm_eval_control_plane/`.

## The system

The control plane records datasets and evaluation suites, takes requests to run
an evaluation or to compare two runs, executes them in worker processes, and
publishes immutable evidence.  PostgreSQL is the only channel between the
processes: the API writes jobs, workers claim them under leases.  The same
runner and comparator also work without the service, at the command line, where
`databridge run` evaluates an agent that answers with SQL by replaying its
statements against a PostgreSQL fixture.

| Component | State it keeps | Operations | What makes it correct |
|---|---|---|---|
| Job store (`adapters/control_plane_db.py`) | rows of jobs, attempts, runs and decisions; the database clock | `begin_job`, `cancel_job`, `claim_next_job`, `heartbeat_job`, `retry_job`, `fail_job`, `acknowledge_cancellation`, `complete_run`, `complete_release_decision`, `reap_expired_jobs` | one owner at a time on the database clock; bounded attempts with a history that explains the job; evidence exactly for succeeded jobs and from the attempt that owned them; cancellation wins; ended jobs never change |
| Domain state machine (`domain/control_plane.py`) | a `JobRecord` value | `transition_to`, `request_cancellation` | only allowed transitions; times never move backwards |
| Worker (`worker.py`, `application/worker.py`) | readiness, the claim in hand, an execution task and a heartbeat task | `serve`, `run_once`, `_process`, `_publish`, `_retry_or_exhaust`, `_fail`, `_handle_heartbeat_signal` | what it reports is true; it never contradicts the queue after a lost answer; every job ends |
| Submission service (`application/control_plane.py`) | none of its own; unique indexes of the job table | `submit_run`, `submit_comparison`, `submit_suite_run`, `submit_suite_comparison` | one job per idempotency key; same request, same job; a replay does not depend on inputs |
| Dataset and suite registry (`application/control_plane.py`, `adapters/control_plane_db.py`) | rows of datasets and suites | `register_dataset`, `register_suite`, `put_dataset`, `put_suite` | a revision is created once and never changes; a suite stands on the dataset revision it was made for |
| Execution contracts and release evidence (`application/control_plane.py`, `domain/control_plane.py`, `worker.py`) | contracts pinned in payloads; the evidence that cites them | resolution in the API and again in a worker; the checks of `submit_*comparison`, of the worker and of `compare_runs` | whatever is deployed in between, evidence was made with what was pinned, and only like is compared with like |
| Release gate (`application/comparison.py`, `domain/comparison.py`) | none (a pure function) | `compare_runs` | a release passes only if every gate passes on comparable evidence |
| Decision distributions (`application/dashboard.py`, `domain/analytics.py`) | none (derived at each read) | `build_release_decision_distributions` | what is shown of a gate agrees with its verdict, and can always be shown |
| Runner (`application/runner.py`) | results of one run | `run`, `_summarize` | every case counted once; summaries agree with the comparison's |
| Scorers (`adapters/scorers.py`, `adapters/fake_target.py`, `adapters/databridge_scorer.py`) | none | one `evaluate` each | a measure is fair to both runs of a case: whether it applies does not depend on the answer |
| DataBridge target (`adapters/databridge/target.py`) | none | `invoke` | a broken response is a technical failure, a refusal is an answer |
| PostgreSQL sandbox (`adapters/postgres_sandbox.py`, `adapters/sql_policy.py`) | a connection and a transaction while a statement is replayed | `execute`, `fingerprint_fixture` | the fixture is never changed; every replay ends; a result is within its limits or an error |
| Local commands (`cli.py`) | files of runs | `databridge run`, `run`, `compare` | a stored run can be reproduced; a command that cannot vouch for its evidence stores none |
| Filesystem run store (`adapters/filesystem.py`) | one file per run | `save`, `get` | create-once under concurrent savers; whole runs or none after a crash; what a save promised is kept |
| History queries (`adapters/control_plane_db.py`) | opaque cursors | `list_*` | a walk returns each item once and passes over none that was there when it began |
| Dashboard live release session (`dashboard/src/features/release-decisions/use-live-release.ts`, `dashboard/app/release-dashboard.tsx`) | what the live view shows, the request generation, the credential vault | `connect`, `reconnect`, `selectDecision`, `reviewHistoricalDecision`, `selectGate`, `selectCaseChange`, `loadMoreCases`, two retries, `disconnect` | what is shown belongs to one decision, gate and filter, and is what the user asked for last; nothing is shown without a credential |
| API boundary and request metrics (`api/`, `observability.py`) | a request's scope state; a gauge and counters | telemetry, authorization, reading of the body, routing, error handlers | an operation runs only with its permission and on a whole body; the metrics count what clients were answered |
| Worker readiness file, dashboard panels and API clients, suite commands, reports, settings, canonical JSON, migrations and scripts | a marker file; otherwise none that outlives a request | | |

The hard parts are the interleavings of several API and worker processes over
one database, and of clicks and answers over one screen: leases that run out while
their owner is only slow, cancellation requests that race completion, answers that
are lost after a commit, crashes between an execution and its publication, attempt
limits and backoff, and the clocks of the API and of the database; deployments
between the steps of one evaluation; a fixture that changes or breaks under a
replay; the answers of superseded reads; power failures between two system calls.
`PROJECT.json` lists them line by line.

## What is modelled where

The modules, in the order they are best read.

| Module | Models | Correspondence |
|---|---|---|
| `JobStore` | the job, attempt and evidence tables | one action per repository method; `jobs`, `attempts`, `evidence` are the tables, `now` is `statement_timestamp()` |
| `LeaseQueue` | what the `ControlPlaneRepository` port promises about a job | per job a status, a count of tries, the token of its latest attempt, whether its lease is live and the job due; no rows and no clock |
| `JobStoreRefinement` | `JobStore` seen as `LeaseQueue` | the refinement mapping |
| `WorkerFleet` | `WorkerRuntime.serve` and `WorkerService.run_once` | `pc` is the place between two repository calls, `claim` the `ClaimedJob`, `work` the execution task, `result` the `WorkerResult`; extends `LeaseQueue` |
| `Submission` | the four `submit_*` methods over `begin_job` | `pc` is the place between two repository calls of a handler; `inputs` are the requests whose datasets, suites, runs and adapters resolve now |
| `Registry` | `register_dataset` and `register_suite` over `put_dataset` and `put_suite` | `pc` as in `Submission`; `stored` are the dataset and suite tables |
| `ControlPlane` | `ControlPlaneService`: `Submission` and `Registry` in the same processes over one database | extends `Submission`, instantiates `Registry`; `resolved` is what a handler has in hand between resolution and insert, `payloads` what is stored with the job |
| `CreateOnce` | what a caller of a create-once operation sees | each call is decided in one step; `Submission`, `Registry` and `RunFileStore` are shown to implement it |
| `ReleaseEvidence` | what is pinned and checked between a suite and a decision, across versions of the code | `suites`, `jobs`, `runs`, `decisions` are the rows; a version is what `Offers` says it builds |
| `Evaluation` | `InProcessRunner.run` and `compare_runs` | `cases` and `runs` are the two `RunResult`s, `decision` the `ReleaseDecision` |
| `DashboardView` | `build_release_decision_distributions` and the models that validate it | operators on the states of `Evaluation`, which it extends |
| `Scorers` | what the built-in evaluators and the DataBridge one observe, and the deterministic target | one operator per evaluator |
| `PostgresSandbox` | a replay of a statement, step by step | `replay` is the execution of each client, `database` the contents of the tables |
| `LocalRun` | the commands, over `Evaluation`, `Scorers` and `PostgresSandbox` | `process` is the phase of each command, `dataset` the file it reads, `answers` the outputs it stores |
| `RunFileStore` | `FilesystemRunStore.save` and `get` | `pc` is the next system call; `entries` is the directory, `synced` what of it is on the disk, `files` the inodes |
| `History` | the `list_*` operations | `time` are the rows with their `created_at`, `cursors` the cursors handed out |
| `LiveRelease` | `useLiveRelease` and the page that drives it | `view` is the hook's state, `ready` its `readyRef`, `generation` its `generationRef`, `calls` the handlers that await an answer |
| `ApiBoundary` | `ApiTelemetryMiddleware`, `ApiBoundaryMiddleware`, the router and the error handlers | `pc` is the place of a request in the stack; `inProgress`, `errors`, `decisions` are the metrics |
| `MC...` | small instances for TLC | constants, symmetry and, in `MCJobStore`, a bound |
| `JobStoreProofs` | theorems about `JobStore` | and that it implements `LeaseQueue` |
| `ControlPlaneProofs` | theorems about `Submission`, `Registry` and `ControlPlane` | and that they implement `CreateOnce` |
| `ExecutionProofs` | theorems about `WorkerFleet` and `ReleaseEvidence` | who executes a job, and with what |
| `EvaluationProofs` | theorems about `Evaluation` and `DashboardView` | and about sums over a finite set |
| `LocalRunProofs` | theorems about `LocalRun` | with `Scorers` and `PostgresSandbox`, and that it implements `Evaluation` |
| `ApiProofs` | theorems about `ApiBoundary` and `History` | what stands behind an endpoint |
| `RunFileStoreProofs`, `LiveReleaseProofs` | theorems about the module each is named after | |

Definitions marked "Mutant" in a module are plausible bugs of the definition
that follows them.  No specification uses them; each shows that a property
would notice that bug, and `PROJECT.json` says which.

### Job store

Every repository method runs in one transaction that locks the job row first, so
a method is one atomic step; methods of two jobs commute.  Points that need an
argument:

- *One clock reading per step.*  A method reads `statement_timestamp()` more than
  once.  A later reading can only make the lease appear expired, which ends in
  `LeaseLostError` and a rollback: the same as a tick followed by a refused call.
- *`SKIP LOCKED`.*  `claim_next_job` and `reap_expired_jobs` pass over rows that
  other transactions hold.  A claim takes the first row outside an arbitrary set
  of locked ones, and the reaper takes an arbitrary batch within its limit.
- *Callers.*  Whoever was issued a lease token may use it for ever, with any
  attempt number and any document.  A call the code refuses changes no row and is
  a disabled action.
- *Clocks.*  The API process stamps a new job with a clock that is off by at most
  `ClockSkew`; every other time is the database's.
- *Idempotent completion.*  `complete_*` repeated after success, and
  `acknowledge_cancellation` repeated after the reaper, change nothing and are
  stutters.  A document that differs from stored evidence is refused.
- All jobs have the same `max_attempts`, as one deployment gives them.

Left out are the worker's name and the error codes (labels), the payload row
(written once with its job) and the `version` column, whose compare-and-set
cannot fail while the row is locked.  `put_run` and `put_release_decision`, which
write evidence without a job, are called by tests only.

### Worker fleet

A repository call is one step with three possible ends: its answer, an error
before it took effect, or an effect whose answer is lost.  The worker cannot
tell the last two apart and drops the claim.  Crashes can happen anywhere; a
graceful stop is a crash at `"poll"`.  A lease may run out while its worker is
merely slow.  Evidence that is not what the job asked for is a conflict to the
repository, which the worker answers by failing the job.  Heartbeats and the execution are two tasks of one event loop:
`Monitor` may fire any number of times while the execution runs, and a signal it
returns wins over an execution that has just ended.  Evidence that is too large
is a store error for the worker: it gives the claim up, and the attempts are used
up by the reaper.

### Submission

The handlers call the repository synchronously, so a process serves one
submission at a time and the interleaving is that of processes, in four steps:
replay lookup, resolution, insert, and the second lookup after the unique index
refused the insert.  Any step can end without an answer, and the answer of an
insert can be lost after its commit.  `free` is a history variable: whether the
key was free when the request arrived.  Identifiers are 128 random bits and
assumed fresh.

### Registry and control plane

A registration looks up the dataset a suite pins, in a transaction of its own,
before the insert; a suite that exists is answered before anything is checked.  A
dataset over the limits of the service is refused before the register is looked at,
whether its revision is free or not; `CreateOnce` allows it for the contents it is
told are `Unacceptable`.
`ControlPlane` puts registrations and submissions side by side: a handler does not
await while it calls the repository, so a process is in one of them at a time.
A submission resolves its suite first and stores the document it has in hand with
the job an insert later, possibly after other registrations.  Rows are never
deleted, which is why that document is still the registered one; `Deploy` stands
for everything else that decides whether a request resolves.

### Run file store

A save is one step for each system call.  An entry of the directory is lost or kept
by a power failure on its own unless the directory was synced since, and a file
that was not synced may be cut short.  A save that finds its run already stored
returns without syncing, so its promise ends with the next power failure:
`PromisesAreKept` says this of both kinds of return.  The first save makes `runs/` and
the directories above it (`_ensure_directory`), and `_sync_directory` syncs `runs/`
only: its entry in the directory above is not known to be on the disk until a power
failure has spared it.  One that does not takes the directory and every run in it,
whatever was synced; `swept` remembers when, and a promise made before is void.
Permissions, symbolic links
and the size limit are left out; errors of the calls outside of the `try`
statement end a save as a crash does.

### History

One operation stands for the ten `list_*` methods: each is an order (oldest first,
newest first, or by the identity of a group) and a set of filters.  Rows may
commit at any place in the order of time, because `created_at` is set before the
commit, in part by API clocks.  `docs/evaluation-suites.md` says that pages are
not a frozen snapshot; `WalksAreExact` says what they are: nothing is returned twice,
and nothing that was there when the walk began is passed over unless it ceased to
match.  A row that becomes visible behind the cursor is passed, and this is not held
against the code.

### Live release session

A handler runs to its next `await` in one step and its answer comes at any time,
also after it was superseded.  `loadEvidence` has two reads in flight that share a
controller.  While a view loads, the pickers, the filter, the retries and "load
more" are disabled, the gate rows and the history review are not: the guards of
the user's actions say which.  The suite history panel takes part as far as the
session is concerned, since its refusal ends it.

### API boundary

All requests share one event loop, so a step goes from one `await` to the next.
Authorization reads the path by suffix before the router matches it; the paths of
the model are one for each way the two can read a path.  The framework places the
handler of unexpected errors outside of every other middleware.  One path stands
for all read and one for all write routes.  Left out are `HTTPException`s other
than 404 and 405, which no route raises, failures of the telemetry itself, which are
suppressed, and failures to send.

### Release evidence

A submission resolves evaluators and a target in an API process and pins their
names, revisions and digests in the payload of its job.  Everything after that may
happen in another version of the code: a worker resolves again and refuses to
execute what differs, the comparison of two runs checks the evidence when it is
accepted and once more when it is executed, and a read joins a decision with its
two runs.  A version is an arbitrary offer of evaluators, targets and an execution
mode, and each step chooses its version freely, so a rolling deployment in any order
and back is covered.  A job is one step here; leases, retries and cancellation are
in `JobStore` and `WorkerFleet`.  Rows are added and never changed, as `JobStore`
and `Registry` show, so a suite or a dataset stands for the name, revision and
digest that cite it.  The store refuses documents above `MaxDocumentBytes`: a decision
lists the cases of each gate, so its size follows from the policy and the dataset
(`Fits`); the size of a run depends on what its target answers, so a run may be
refused at any time (`RefuseRun`).  Either way the worker takes it for an outage until
the attempts are used up.  The digest of an evaluator does not cover the names of the
metrics it reports, and the model keeps them apart.

### Evaluation

Targets and evaluators are arbitrary: the properties hold of any `TargetPort` and
`EvaluatorPort`, not only of the ones in `adapters/`.  Scores are integers and
means are compared by cross-multiplication.  The code compares doubles with a tolerance
of `1e-12`, which makes up for the rounding of two means as long as scores stay below
4096; the verdicts of the model are those of the code in that range, for scores that do
not differ by less than the tolerance.  Above it rounding decides: the mean of three scores of
52142.8 is 52142.80000000001 and fails a ceiling of 52142.8 that each score meets.
`LatencyEvaluator` and `UsageEvaluator` have such scores.
Of the comparator's preconditions those that concern identities are in
`ReleaseEvidence`; an unknown slice and disagreeing summaries remain.

`_validate_observations` compares sets of metrics.  An evaluator that returns a
metric twice passes it and is refused by `CaseResult`, outside of the `try`: the run
ends in an exception instead of recording `INVALID_EVALUATOR_OUTPUT` for that case.
That is the action `Abort`, which leaves nothing of the run; no evaluator of the
repository behaves so, but a command that fails for any reason ends likewise.

The coverage check counts cases, so with arbitrary evaluators a release could pass
although the baseline skipped one case and the candidate another.  That the
evaluators of the program cannot do this is a property of theirs, and `local_run`
checks it.

### Dashboard view

Of a gate the dashboard shows distributions of scores, of deltas between comparable
cases and of latencies and usage.  They are computed from the evidence at every
read, by other code than the verdict.  `Distributions` is that code, `Valid...` the
model validators that would refuse to show what it returns, and `SmallSample` stands
for `MIN_OPERATIONAL_AGGREGATE_SIZE`, below which measurements are withheld.

Here means are rounded as in the code.  `Floats` are the doubles, in units of the
smallest difference between them; `Mean` rounds a sum and then its quotient to the
nearest double, as `math.fsum(...) / len(...)` does; `Difference` is the subtraction of
two scores as the comparator stores it.  `ValidQuantiles` holds the rounded mean against
the unrounded ends of the range, so the mean of equal scores may be refused, and with
it the evidence of the decision: `DashboardAgrees` says that nothing else can be.

### Scorers, sandbox and local commands

`Scorers` gives what each evaluator observes as a case over what the case expects and
what the target answered: not applicable is decided first, then errors, then the
verdict.  A JSON value is a type, a content and a spelling that normalization
removes.

`PostgresSandbox` divides `execute` where another session can step in between: the
policy check, then the connection with the start of the read-only transaction and its
settings, then the statement with the reading of its result and the release.  Each
of the last two may break.  The server is external; what is taken of it is that a
read-only transaction refuses writes, that a statement timeout ends what does not
end, and that one statement reads one snapshot.  The policy also admits statements
whose answer is not the same twice on the same contents (`TABLESAMPLE`, a cast of
`'now'`, `LIMIT` without an order): they are the set `Volatile`.  Parsing is a constant: `FlawsOf`
says what the policy finds in a statement.

`LocalRun` runs two `databridge run` commands over one fixture and then `compare`.
Others may change the fixture at any time and put it back, and a replay may break at
any of its steps.  The code takes the fingerprint of the fixture before and after the
evaluation.  A change that is undone in between escapes both, so
`EvidenceIsReproducible` excepts it: the history variable `restored` says that it
happened.  It excepts cases with a volatile statement too, since nothing in the code
tells them from others.  `run`, the offline command, touches no database and is one step.

`Commanded` is the evaluation that an observer of the stored runs sees.  A run counts
from the moment its command has stored it, so its last case and its result appear in
one step; of a command that failed nothing remains; and the refusal to compare runs of
different modes, which the comparator never gets to see, is no decision.

## What the runs show

States are distinct states; every run is exhaustive within its bounds.

| Run | Bounds | States | What it shows |
|---|---|---|---|
| `job_store` (`MCJobStore`) | 2 jobs, 3 tokens, 2 documents, 3 attempts, leases of 2 ticks, clock skew 1, batches of 2, 9 ticks; two jobs for 3 ticks only | 586,589 | the rows of a job explain each other and pass their own validators, attempts do not overlap, backoff is served, evidence is the owner's, cancellation wins; and the tables implement `LeaseQueue`, on which the worker model builds |
| `fleet` (`WorkerFleet`) | 2 workers, 1 job, 3 attempts, 3 faults, no symmetry | 38,846 | what a worker reports is true of the queue; a job fails for a cause only; every job ends and every cancellation is carried out |
| `control_plane` (`MCControlPlane`) | 2 processes, 1 key, 2 digests, 2 identifiers, 1 dataset, 1 suite, 3 contents | 950,500 | replays served whatever became of their inputs, payloads that stand on registered revisions; submissions and registrations implement `CreateOnce` |
| `release_evidence` (`MCReleaseEvidence`) | 2 versions, 4 suites, 2 datasets, 3 targets, 2 runs and a comparison | 95,702 | runs keep their pins, decisions compare like with like and can be shown, an accepted comparison of a suite is decided unless its decision is too large |
| `evaluation` (`MCEvaluation`) | 2 cases, 2 evaluators, scores 0 and 2 among 7 doubles, gates of both directions over dataset and slice, measurements withheld below 2 | 1,905,184 | a failure blocks the release; verdicts on means follow from the cases; what the runner stores is what the comparator recomputes and what the dashboard derives |
| `local_run` (`MCLocalRun`) | 2 commands one after the other, 2 cases, 7 statements, 2 tables, results of up to 2 rows, columns and cells | 564,124 | stored runs are reproducible, unsafe SQL never counts as executed, missing evidence fails closed, the built-in measures are fair, commands end |
| `live_release` (`MCLiveRelease`) | 2 projects, 3 decisions, 2 gates, 2 filters, 3 pages of which 2 are displayed, 5 requests | 127,267 | the screen shows one decision's evidence, the selection asked for last, nothing without a credential; loading ends |
| `run_store` (`MCRunFileStore`) | 2 savers, 1 run, 2 contents, 3 files, 1 power failure | 2,305,964 | reads are whole, promises are kept until the directory itself is lost; implements `CreateOnce` but for runs a power failure takes away |
| `history` (`MCHistory`) | 3 rows, 2 times, 3 orders, pages of 1 and 2, 2 cursors | 174,875 | a walk repeats nothing and passes over nothing |
| `api_boundary` (`MCApiBoundary`) | 2 requests, 4 principals, 6 paths, bodies of up to 2 in pieces | 123,753 | operations are permitted, bodies whole, metrics true |
| `sandbox_outage` (`MCLocalRun`) | as `local_run` | counterexample | finding, below |
| `uncacheable_errors` (`MCApiBoundary`) | as `api_boundary` | counterexample | finding, below |

The bounds are the smallest at which the interesting cases exist.  `job_store`: three
attempts make a first, a middle and a last one, with leases of two ticks so that
a heartbeat matters, and nine ticks are what it takes for three expired attempts with
their backoffs.  A second job is what a claim's order, a reaper's batch, a set of
locked rows and shared tokens need; the constraint `TwoJobsAreShort` follows two jobs
for three ticks, until both leases have run out and one batch has reaped them, and a
single job to the end.  `fleet`: two workers
and a lost answer, a crash or a stall is what it takes to have a stale owner beside
a current one; jobs are independent of each other in `LeaseQueue`.
`control_plane`: a winner, a loser and a later replay under one key; that keys do
not disturb each other is what `ControlPlaneProofs` shows for any number.
`release_evidence`: a comparison has two runs, and a second version is enough for every
step to differ from the one before; one suite does not fit its dataset, one policy
exceeds the limit on case records, and one suite leads to a decision that is too large.  The theorems hold for any number.
`evaluation`: with scores 0 and 2 and a threshold of 1 a mean of two cases is on
either side of it or on the boundary; the doubles are dense near 0 and sparse above 2, so that
a sum or a mean is rounded away from its values; two evaluators show that a failure of one
leaves the other alone; with two cases a sample is withheld or not according to the
failures.  `local_run`: one command at a time (`MaxCommands = 1`), since a replay
only reads and two commands meet in nothing but the fixture, which others change at
any time; the statements are one of each kind the properties tell apart: two that
answer, one refused by the policy, one that writes, one that does not end, one whose
answer differs in how often a row occurs and one whose answer is not the same twice.  `live_release`: a session needs two requests
before evidence is shown, so five allow two more that supersede each other; user actions
stop at the bound, answers do not.  `run_store`: one saver that publishes, one that
loses the race or comes later, a third file after a crash; a power failure may come
between any two calls and take the directory or spare it.  `history`: three rows at two times make ties and rows that
appear before, at and behind a cursor.  `api_boundary`: one principal for each scope,
two requests because they meet in the counters.

### Two findings

`sandbox_outage`: ADR 0005 says that "evaluator infrastructure failure is an error
observation and fails release coverage".  The evaluator replays the reference and
then each statement of the candidate in sessions of their own, and takes every
exception of a candidate's replay for a failed execution of the candidate: a
connection that breaks there is scored 0 like a mistake, and coverage passes.  A
candidate may so fail for an outage; an outage during the baseline hides a
regression.

`uncacheable_errors`: ADR 0009 says that "All API responses use `Cache-Control:
no-store`".  The boundary adds the header to what is sent through it; the answer
to an unexpected error is sent by the framework outside of it and has neither
that header nor a request identifier.  Its body is a fixed message.

### What the properties except

Three properties name a case in which the code does not do what one would wish for; no
document of the repository promises otherwise.

- *The run directory* (`PromisesAreKept`).  A power failure after the first saves have
  returned may take `runs/` and the runs with it, since no directory above `runs/` is
  ever synced.
- *Large decisions* (`SuiteComparisonsAreDecided`).  The limits that a submission
  checks (64 gates, 50,000 case records) are not those of the store (64 MiB): a suite
  of 64 gates over 780 cases with many long slices passes the first and exceeds the
  second.  Its comparison is accepted, executed in every attempt and failed.
- *Means of equal scores* (`DashboardAgrees`).  Three scores of 1.4 have the mean
  1.3999999999999997 in doubles.  `QuantileSummary` refuses a mean below the minimum, so
  the distributions of that decision end in an error at every read
  (`domain/analytics.py:48`, `application/dashboard.py:216`,
  `application/control_plane.py:740`).  Evaluators of latency and usage
  (`adapters/scorers.py:346-406`) give such scores.  The summaries of latencies in the
  same answer are computed alike; their values are not modelled.

## Fairness

`WorkerFleet`, `LocalRun` and `LiveRelease` have liveness properties.  In
`WorkerFleet`:

- `Restart`, `Poll`, `Idle`, `Process` are weakly fair per worker: the container is
  restarted unless it was stopped (`compose.yaml`, `restart: unless-stopped`),
  `serve` loops without end, and executions are assumed to terminate.
- Reaping and claiming *a given job* are strongly fair: row locks hide it now and
  then but transactions are short, and an error of the store or a lost answer can
  interrupt them only as often as `MaxFaults` allows.
- An abandoned lease runs out and a delayed job comes due, because time passes.
  A lease somebody extends need not run out.

Nothing is assumed of clients, and no fairness makes a fault happen.  Claiming a
given job is strongly fair although claims are ordered: the queue has finitely
many jobs, so those before it end or are delayed.

In `LocalRun` a command that has started takes its next step.  The code bounds each
of them: the target's HTTP client has timeouts, connecting has one, and
`statement_timeout` is set inside the transaction, without which `CommandsEnd` fails
(its mutant).  That a server which accepted a connection goes on answering is assumed:
the code has no bound of its own on one that falls silent.  Nothing is assumed of breaking replays or of those who change the
fixture.

In `LiveRelease` each request that was sent is answered, if only by a failure:
the code sets no timeout of its own and relies on the browser's `fetch` to settle.
Nothing is assumed of the user.

## What is proved

All theorems hold for every value of the constants that satisfies the `ASSUME`
of the component's module.

*Job store* (`JobStoreProofs`).  `TypeCorrect` is inductive by itself; the others are
not.  That evidence belongs to the owner needs that a running attempt is the job's
latest; that attempts do not overlap needs that no time in a row is ahead of the
database clock once the job was claimed, which `Clock` says and which is the only
place where `ClockSkew` could hurt; and that a queued job's last attempt ended
before the job is due.  The invariant `IInv` is a conjunction over the jobs, since
each action changes the rows of one job and the reaper those of a batch, each on its
own.  The proof has one lemma for each way a job's rows change: left alone while
time passes, submitted, claimed, extended, asked to stop, settled.  From one step
under `IInv` follow the action properties `TerminalIsFinal`, `CancellationWins` and
`ExpiredOwnerIsPowerless`.  That the constraints of the tables and the validators
accept every row (`RowsAreAccepted`) needs more than `IInv`: the order of the time
columns of a job and of each attempt, and that no two attempts of a job share a
token (`AcceptedIInv`).

*Refinement* (`JobStoreProofs`).  Every method of `JobStore` is shown to
be one step of `LeaseQueue` or none: the view of the rows before and after it is
worked out job by job, the reaper's batch being the rows its transaction writes.
The proof stands on `IInv` and on one more fact, that an attempt that does not
exist has no token (`RInv`): without it a token that the claim is about to use
could already be in a row, and the claim would not be a fresh one.

*Submission* (`ControlPlaneProofs`).  A stored job never changes, so what a process
has read under its key still holds when it answers, and every answer stays true.
The invariant adds to the properties where a process may stand with respect to
its key (`Known`) and that answers name the stored job (`Stands`), without which
`ConflictsAreReal` would not survive an insert.  `SubmissionImplementsCreateOnce`
proves the refinement: the insert, or the lookup that is answered from, is the
step at which a call is decided.

*Registry and control plane* (`ControlPlaneProofs`).  A registered row neither leaves
nor changes, and a suite's row names a dataset that is registered.  So what a
registration has read still holds when it inserts, and what a submission has
resolved still holds when its job is stored: `PlaneInv` says this of the document a
handler has in hand and of the payload stored with each job, and `JobsCanBeRun`
follows.  `PlaneImplementsSubmission` shows that the composition adds nothing to
`Submission`, which carries its theorems over; `PlaneImplementsCreateOnce` and
`RegistryDecidesOnce` are the two refinements for the composed system.

*Worker fleet* (`ExecutionProofs`).  The fleet's safety is proved over
`LeaseQueue`, for any number of workers and any bound on faults; with the
refinement it holds over the tables.  The invariant `FleetInv` says what is known
under a token once it was issued (a job that has left the token never returns to
it, and the verdict it ended with stays), that no two workers have the same
token, and that whatever a worker believes or has reported is one of these facts.
`FailuresHaveCause` adds why a job failed: a worker that fails one has either found
its input or its evidence at fault, or counted the attempts, and its count is the
queue's (`ClaimsAreCurrent`).
It has one lemma per place where a worker calls the repository, each for the
answer that arrives, the one that is lost and the call that fails, and one for
what everybody else may do meanwhile.

*Release evidence* (`ExecutionProofs`).  Rows are added and never changed, so
what a comparison pinned when it was accepted is what it finds when it is executed;
`IInv` says so (`ComparisonsArePinned`) next to what registration has checked of
every suite (`SuitesAreValid`) and which job stands behind each row (`RunsHaveJobs`,
`DecisionsHaveJobs`).  The heart of `SuiteComparisonsAreDecided` is one lemma: the
checks of the service on two runs of a suite imply every check of the comparison,
which needs that a suite has one implementation of each metric.  What is left is the
size of the decision.  That suites are not
changed by a deployment is not assumed: resolution in each version is arbitrary.

*Run file store* (`RunFileStoreProofs`).  A file with a name in the directory was
written and synced as a whole before it was linked, and nobody writes to it again
(`EntriesAreDurable`); a file that is being written belongs to one saver
(`OneWriterPerFile`).  Together with what each saver knows at its place (`Knows`)
these survive a power failure that loses any part of what was not synced, and a
promise (`Stands`) holds until the failure it is limited to, or until the directory
itself is lost.
`StoreImplementsCreateOnce` shows that a save is decided when the link succeeds or
finds a name, and that a power failure takes away runs but changes none.

*Live release session* (`LiveReleaseProofs`).  Of all the handlers that await an
answer at most one is not superseded, and it works for what was asked last
(`Faithful`); an answer to any other changes nothing.  What the page shows and what
the hook believes to show are the same, and every projection on the screen belongs
to the decision, gate and filter that are selected (`Together`, `Wants`).  The proof
treats the answer of each request on its own, then each action of the user.

*API boundary* (`ApiProofs`).  For each request on its own, `Decided` says
what has been established at its place: who it is from, whether the scope the path
was read to need was granted, how much of the body arrived.  The router reads the
path in another way than authorization did; `ScopeOfOperation` compares the two
readings for every path and method.  Metrics are proved by counting: each of them is
the number of requests in a certain state, a request enters or leaves such a set in one
step, and a step of one request leaves the others where they are.  The assumption
used is that requests are finitely many.

*History* (`ApiProofs`).  Keys are ordered linearly in each direction, a page is an
initial part of what lies behind the cursor, and the cursor points to its last row.
`Placed` says of each open cursor that it stands behind everything that was returned
and before everything that is still owed; rows that appear anywhere, and rows that
cease to match, do not disturb that.  That a page has a last row is an induction
over finite sets in disguise; here it follows from the inclusion of the sets of
predecessors, which is well-founded on a finite set.

*Evaluation* (`EvaluationProofs`).  For any targets and evaluators, any number of cases
and any gates.  `EvaluationInv` says that each measure of a case was observed by the
evaluator that owns it unless that evaluator failed (`ObservedByOwners`), that what
the runner stores follows from the cases (`RunFollowsCases`), and that a decision is
taken on two stored runs, records what each gate came to on their cases and passes only
with coverage (`DecisionFollowsRuns`).  The
owners are what `FailuresBlockRelease` lacks by itself: a metric has one of them, so a
failure of another evaluator cannot stand for an observation of this one.
`SummariesAgree` compares two ways of counting the same cases, metric by metric.

*Means and distributions* (`EvaluationProofs`).  `ThresholdFollowsCases`,
`RegressionHasACause` and `DashboardAgrees` compare sums over the cases with the cases.
The sum of a finite family is a fold, which picks one element after the other.  That
it has a value at all is shown for the parts of the family by their size: the least
size for which it would have none cannot exist.  In the same way a claim about all
parts of a set fails, if it does, for a smallest one (`PartByPart`), and from this
follow the bounds of a sum (`SumAtLeast`, `SumAtMost`) and that differences add up
(`SumOfDifferences`).  Both verdicts compare products, as the model avoids fractions; a
sum of as many values as the boundary is scaled by is on the side of the boundary on
which all of the values are.  For a regression the two runs scored the same cases, so
the difference of their sums is the sum of the differences, and one of them must have
the sign of the whole.  A percentile is the least value that enough of the values do
not exceed; a value that is high enough for the 95th is high enough for the 50th, so
that the summary is in order.  Rounding to the nearest double is monotone
(`NearestIsMonotone`) and leaves doubles alone, so a rounded mean lies between the
rounded means of as many smallest and as many largest values: it is in range unless
those two are rounded away from their value, which is the exception of
`DashboardAgrees`.

*Local commands* (`LocalRunProofs`).  The invariant `LocalInv` is one for each command
(`SideInv`) and some for what they share.  Of a command it says which phase it is in
and which replay it waits for (`Progress`, `ReplayIsDue`); that an open transaction is
read-only, has its time limit and holds a statement the policy passed
(`ReplayIsSafe`); that whether a measure is skipped was decided by the case alone
(`SkippedAsDue`); and that everything observed so far is what the reviewed fixture
gives, unless a statement is volatile (`Steady`), *or* some table was changed and the
second fingerprint will still see it (`EvidenceIsGenuine`).  The last disjunct is what makes `EvidenceIsReproducible`
inductive: in the middle of a run a change is not noticed yet, but it stays visible as
long as no table is changed back, which `restored` records.
A step of one command preserves its own `SideInv`; of the other it needs only that no
table was changed back under it (`BystanderSide`).  `UnsafeSqlNeverSucceeds` rests on
`ReplayIsSafe`, whatever the target answers.  `MissingEvidenceFailsClosed` combines
`SkippedAsDue` with the coverage of `Evaluation`: the comparator counts skipped cases
only, and it is the program's evaluators that skip the same ones in both runs.
`BuiltInsAreFair` is about the offline command, with no state but its result.  Assumed
of the constants (`LocalAssumption`, `SandboxAssumption`, `EvaluationAssumption`) is
what validation establishes before a command starts: a dataset has cases, a gate
names a known metric and slice, no metric has two owners, a reference is a statement,
a tolerance is not negative.  `CompositeAssumption` is no restriction on inputs: the
DataBridge evaluator is the only one a command builds, and its scores include 0 and 1.
What a statement returns, what the policy finds in it and
what the target answers are arbitrary.

*The commands as an evaluation* (`LocalRunProofs`).  `CommandsImplementEvaluation` says
that `LocalRun` implements `Evaluation` under the mapping of `Commanded`: recording a
case that is not the last is the runner's step, saving is its last case together with
the result, a failure at any phase is `Abort`, a comparison is `Compare`, and everything
else, replays and changes of the fixture included, is a stutter.  Each case that is
recorded must be one that the runner could have taken of some target and some
evaluators, which is where `SideInv` is used.  `CommandInv` adds to `LocalInv` that a
run is stored as what follows from its cases, and that without a decision no gate has a
result.  So every theorem about `Evaluation` holds of the stored runs and of the
decision, for instance that one technical failure keeps a release from passing.

Some theorems state properties that no run lists, because a stronger one that is
run covers their ground or because they hold of the model alone: `TypeOK`,
`RunningAttemptIsCurrent`, `ClockIsTheDatabases`, `TerminalIsFinal` and
`ExpiredOwnerIsPowerless` of `JobStore`, `AcceptedAgree` and `ConflictsAreReal` of
`Submission` (implied for callers by `ImplementsCreateOnce`), that `ControlPlane`
implements `Submission`, and `ClaimIsCurrent` of `WorkerFleet`.
`ImplementsEvaluation` of `LocalRun` is stated by a theorem only: to check a step of
`Evaluation`, TLC would enumerate every observation of ten metrics that a case could
have.

## What is only model-checked

- Liveness (`EveryJobEnds`, `CancellationCompletes`, `LoadingEnds`, `CommandsEnd`):
  TLAPS does not prove formulas with `ENABLED` here.
- The two findings, which are counterexamples.

## What is not modelled

The components table of `PROJECT.json` has a reason for each.

- *Dashboard panels and API clients*: rendering and the validation of responses.  The
  history panel takes part in `LiveRelease` as far as it ends the session or hands
  over a decision.
- *Worker readiness file*: a worker that is killed between polls leaves its marker
  behind until it is started again.
- *Canonical JSON, artifacts, dataset and suite files*: validation and encoding of data
  without control state.  Digests are taken to be equal exactly for equal content.
- *Suite commands and reports*: sequential composition of what is modelled, and
  formatting.
- *Schema migrations and scripts*: run once, while the services are stopped.

Of the components that are modelled in part, what is missing is: the routes that differ
from the modelled ones only in what they call (API boundary); spans, logs and the
operational snapshot, which do not influence control flow (observability); formats of
fields and response documents (contracts and settings); the parsing of SQL (policy);
`show`, the import of datasets and the commands that call the service (local
commands).

A corrupt payload in the job table would make every claim that meets it fail.  The
models assume that rows are what the program wrote.

## Plan

Done, in this order, because the lease protocol carries everything else:
`JobStore`, `LeaseQueue`, `WorkerFleet`, `Submission`, `CreateOnce`, `Evaluation`,
`RunFileStore`, `Registry`, `LiveRelease`, `History`, `ControlPlane`, `ApiBoundary`,
`Scorers`, `PostgresSandbox`, `LocalRun`, `ReleaseEvidence`, `DashboardView`.
Next, most important first:

1. `SuiteHistory`: the dashboard's history panel (pages, its own generations, the
   handing over of a decision to `LiveRelease`), composed with the session.
2. `JobTransactions`: statements and row locks of the repository, against
   `JobStore`, to check that a method is one step.
3. `RunSubmission`: the run panel's form, which repeats a submission under the
   same key, against `Submission`.
4. `Readiness`: the worker's marker file across crashes, as part of the fleet.
5. The migration that moves pending jobs to leases (`0002`).

The number of runs should not grow with the modules: a module that composes two
takes the place of the runs of its parts, as `control_plane` and `local_run` do.
