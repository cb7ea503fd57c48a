---------------------------- MODULE ReleaseEvidence ----------------------------
(***************************************************************************)
(* From a registered suite to a release decision across versions of the    *)
(* code.  A submission resolves the evaluators and the target in an API    *)
(* process and pins them in the payload of its job; a worker resolves them *)
(* again, executes and checks what it got; a comparison pins two stored    *)
(* runs and is checked when it is accepted and again when it is executed.  *)
(* During a deployment each of these steps may run in a different version. *)
(*                                                                         *)
(* A job is one step of a worker here: leases, retries and cancellation    *)
(* are in JobStore and WorkerFleet, what a run observes and how a gate is  *)
(* judged in Evaluation, races between requests in ControlPlane.  Datasets *)
(* and suites are stored once and never change (Registry), so each of them *)
(* stands for the name, revision and digest that refer to it.  Tuples with *)
(* a canonical order are sets and functions.                               *)
(***************************************************************************)
EXTENDS Integers, FiniteSets, FiniteSetsExt, Functions

CONSTANTS
    Versions,       \* of the code
    Offers,         \* what each version builds: evaluators, targets, execution mode
    Selectors,      \* executor names
    SuiteDocuments, \* suites that authors write
    Datasets,       \* registered dataset revisions
    CasesOf,        \* cases in each slice of a dataset, and in the whole of it
    BytesOf,        \* bytes of a decision about those cases, for each gate over them
    Whole,          \* the slice of a gate that covers the dataset
    Targets,        \* targets with their scenario overrides
    KeyOf,          \* the name and revision of each
    Policies,       \* gates of a comparison without a suite
    None,
    MaxCaseRecords, \* _MAX_COMPARISON_CASE_RECORDS
    MaxDocumentBytes,   \* _DEFAULT_MAX_DOCUMENT_BYTES
    JobIds,         \* identifiers
    MaxOf           \* bound: jobs of each kind

ASSUME ReleaseEvidenceAssumption ==
    /\ \A v \in Versions :
          /\ DOMAIN Offers[v].evaluators \subseteq Selectors
          /\ DOMAIN Offers[v].targets = Targets
    /\ \A d \in Datasets :
          /\ Whole \in DOMAIN CasesOf[d]
          /\ \A slice \in DOMAIN CasesOf[d] : CasesOf[d][slice] \in Nat \ {0}
    /\ None \notin SuiteDocuments
    /\ \A d \in Datasets : BytesOf[d] \in [DOMAIN CasesOf[d] -> Nat]
    /\ MaxCaseRecords \in Nat /\ MaxDocumentBytes \in Nat
    /\ MaxOf \in [{"run", "comparison"} -> Nat]

VARIABLES
    suites,     \* the registered suites
    jobs,       \* the payload and the status of each submitted job
    runs,       \* the results stored by jobs
    decisions   \* the decisions stored by jobs

vars == <<suites, jobs, runs, decisions>>

\* A table with one more row.
With(table, i, row) == [j \in DOMAIN table \cup {i} |-> IF j = i THEN row ELSE table[j]]

(***************************************************************************)
(* What a version of the code resolves                                     *)
(***************************************************************************)

\* _evaluator_kinds: every selector names a built-in evaluator.
Supports(v, names) == names # {} /\ names \subseteq DOMAIN Offers[v].evaluators

\* build_evaluators
Built(v, names) == Restrict(Offers[v].evaluators, names)

\* _evaluator_ref: the digest tells the implementation, and not its metrics.
Reference(evaluators, name) == [name |-> name, digest |-> evaluators[name].digest]

References(evaluators) == {Reference(evaluators, name) : name \in DOMAIN evaluators}

\* The evaluator of each metric.
MetricReferences(evaluators) ==
    UNION {{[metric |-> m, evaluator |-> Reference(evaluators, name)] :
               m \in evaluators[name].metrics} : name \in DOMAIN evaluators}

\* DeterministicFakeTarget.ref: the digest covers the overrides.
TargetRef(v, target) == [key |-> KeyOf[target], digest |-> Offers[v].targets[target]]

\* DeterministicEvaluationExecutor.validate
Contract(v, names, target) ==
    [names |-> names, target |-> TargetRef(v, target),
     evaluators |-> References(Built(v, names)), mode |-> Offers[v].mode]

\* DeterministicEvaluationExecutor.validate_suite
SuiteContract(v, names) == [evaluators |-> Built(v, names), mode |-> Offers[v].mode]

(***************************************************************************)
(* Suites                                                                  *)
(***************************************************************************)

Names(suite) == DOMAIN suite.evaluators

SuiteMetrics(suite) == {r.metric : r \in MetricReferences(suite.evaluators)}

\* EvaluationSuiteVersion.validate_suite
ValidSuite(suite) ==
    /\ Names(suite) # {} /\ suite.gates # {}
    /\ \A m, n \in Names(suite) :
          m # n => suite.evaluators[m].metrics \cap suite.evaluators[n].metrics = {}
    /\ \A gate \in suite.gates :
          gate.metric \in SuiteMetrics(suite) /\ gate.slice \in suite.slices \cup {Whole}

\* validate_suite_registration
ValidRegistration(suite, contract) ==
    /\ suite.slices \subseteq DOMAIN CasesOf[suite.dataset]
    /\ contract.mode = suite.mode
    /\ contract.evaluators = suite.evaluators

Honors(v, suite) ==
    Supports(v, Names(suite)) /\ ValidRegistration(suite, SuiteContract(v, Names(suite)))

\* register_suite
RegisterSuite(v, suite) ==
    /\ suite \notin suites
    /\ suite.dataset \in Datasets
    /\ ValidSuite(suite)
    /\ Honors(v, suite)
    /\ suites' = suites \cup {suite}
    /\ UNCHANGED <<jobs, runs, decisions>>

(***************************************************************************)
(* Runs                                                                    *)
(***************************************************************************)

Job(payload, status) == [payload |-> payload, status |-> status]

Enqueue(payload) ==
    /\ LET same == {i \in DOMAIN jobs : jobs[i].payload.kind = payload.kind}
       IN  Cardinality(same) < MaxOf[payload.kind]
    /\ \E i \in JobIds \ DOMAIN jobs : jobs' = With(jobs, i, Job(payload, "queued"))
    /\ UNCHANGED <<suites, runs, decisions>>

\* RunJobPayload.validate_payload
ValidRunPayload(payload) ==
    LET suite == payload.suite
        contract == payload.contract
    IN  /\ contract.names = payload.names
        /\ contract.target.key = KeyOf[payload.target]
        /\ suite # None =>
              /\ suite.dataset = payload.dataset
              /\ contract.mode = suite.mode
              /\ contract.names = Names(suite)
              /\ contract.evaluators = References(suite.evaluators)

SubmitRunPayload(v, suite, dataset, names, target) ==
    LET payload == [kind |-> "run", suite |-> suite, dataset |-> dataset, names |-> names,
                    target |-> target, contract |-> Contract(v, names, target)]
    IN  ValidRunPayload(payload) /\ Enqueue(payload)

\* submit_run
SubmitRun(v, dataset, names, target) ==
    /\ dataset \in Datasets
    /\ Supports(v, names)
    /\ SubmitRunPayload(v, None, dataset, names, target)

\* submit_suite_run: the suite decides everything but the target.
SubmitSuiteRun(v, suite, target) ==
    /\ suite \in suites
    /\ Honors(v, suite)
    /\ SubmitRunPayload(v, suite, suite.dataset, Names(suite), target)

\* InProcessRunner.run on the evaluators and the target of this version
Result(v, payload) ==
    LET evaluators == Built(v, payload.names)
    IN  [suite |-> payload.suite, dataset |-> payload.dataset,
         target |-> TargetRef(v, payload.target), mode |-> Offers[v].mode,
         evaluators |-> References(evaluators), metrics |-> MetricReferences(evaluators)]

\* Mutant: the worker goes by what it resolves itself.
ResolvesUnpinned(v, payload) ==
    /\ Supports(v, payload.names)
    /\ payload.suite # None => Honors(v, payload.suite)

\* _resolve_run_contract, and execute_suite once more
Resolves(v, payload) ==
    /\ Supports(v, payload.names)
    /\ Contract(v, payload.names, payload.target) = payload.contract
    /\ payload.suite # None =>
          SuiteContract(v, payload.names) =
              [evaluators |-> payload.suite.evaluators, mode |-> payload.suite.mode]

\* validate_run_result
ValidRunResult(result, dataset, contract, suite) ==
    /\ result.suite = suite /\ result.dataset = dataset
    /\ result.target = contract.target
    /\ result.evaluators = contract.evaluators
    /\ {r.evaluator : r \in result.metrics} \subseteq contract.evaluators
    /\ result.mode = contract.mode
    /\ suite # None =>
          /\ suite.dataset = dataset
          /\ ValidRegistration(suite, [evaluators |-> suite.evaluators, mode |-> suite.mode])
          /\ result.evaluators = References(suite.evaluators)
          /\ result.mode = suite.mode
          /\ contract.names = Names(suite)
          /\ result.metrics = MetricReferences(suite.evaluators)

Queued(i, kind) ==
    jobs[i].status = "queued" /\ jobs[i].payload.kind = kind

Ends(i, status) == jobs' = [jobs EXCEPT ![i] = Job(@.payload, status)]

\* fail_job with "invalid_job_payload", as every refusal is a ValueError, or the end of
\* the last attempt of a job whose evidence the store refuses.
FailJob(i) ==
    /\ Ends(i, "failed")
    /\ UNCHANGED <<suites, runs, decisions>>

\* _build_evidence of a run, and complete_run
ExecuteRun(v, i) ==
    /\ Queued(i, "run")
    /\ LET payload == jobs[i].payload
           result == Result(v, payload)
           contract == Contract(v, payload.names, payload.target)
       IN  IF Resolves(v, payload)
              /\ ValidRunResult(result, payload.dataset, contract, payload.suite)
           THEN /\ Ends(i, "succeeded")
                /\ runs' = With(runs, i, result)
                /\ UNCHANGED <<suites, decisions>>
           ELSE FailJob(i)

\* complete_run refuses a result whose document or usage is too large, in every attempt.
\* What the targets answer decides about it.
RefuseRun(i) == Queued(i, "run") /\ FailJob(i)

(***************************************************************************)
(* Comparisons                                                             *)
(***************************************************************************)

\* EvaluationSpec.validate_references
ValidSpec(spec) ==
    /\ spec.baseline.key # spec.candidate.key
    /\ spec.gates # {}
    /\ \A g, h \in spec.gates : g.metric = h.metric /\ g.slice = h.slice => g = h

\* EvaluationSuiteVersion.to_evaluation_spec
SuiteSpec(suite, baseline, candidate) ==
    [dataset |-> suite.dataset, baseline |-> baseline, candidate |-> candidate,
     gates |-> suite.gates]

\* The cases a gate looks at.
InScope(dataset, gate) ==
    IF gate.slice \in DOMAIN CasesOf[dataset] THEN CasesOf[dataset][gate.slice] ELSE 0

\* The limits of a comparison, of which the case records stand for all.
WithinLimits(dataset, spec) ==
    MapThenSumSet(LAMBDA gate : InScope(dataset, gate), spec.gates) <= MaxCaseRecords

\* validate_comparison_inputs.  Without a suite it does not look at the datasets and
\* the evaluators of the runs.
ValidComparison(dataset, spec, baseline, candidate, suite) ==
    /\ WithinLimits(dataset, spec)
    /\ spec.dataset = dataset
    /\ spec.baseline = baseline.target /\ spec.candidate = candidate.target
    /\ baseline.suite = suite /\ candidate.suite = suite
    /\ suite # None =>
          /\ spec = SuiteSpec(suite, baseline.target, candidate.target)
          /\ \A run \in {baseline, candidate} :
                ValidRunResult(run, dataset,
                               [names |-> Names(suite), target |-> run.target,
                                evaluators |-> References(suite.evaluators),
                                mode |-> suite.mode],
                               suite)

\* ComparisonJobPayload.validate_payload, with the digests of the runs.
EnqueueComparison(suite, spec, b, c) ==
    /\ b # c
    /\ Enqueue([kind |-> "comparison", suite |-> suite, dataset |-> spec.dataset, spec |-> spec,
                baseline |-> b, candidate |-> c,
                baseline_result |-> runs[b], candidate_result |-> runs[c]])

\* submit_comparison: the client writes the policy and names the targets.
SubmitComparison(spec, b, c) ==
    /\ spec.dataset \in Datasets
    /\ {b, c} \subseteq DOMAIN runs
    /\ ValidSpec(spec)
    /\ ValidComparison(spec.dataset, spec, runs[b], runs[c], None)
    /\ EnqueueComparison(None, spec, b, c)

\* Mutant: the inputs are left to the worker to check.
SubmitSuiteComparisonUnchecked(suite, b, c) ==
    /\ suite \in suites
    /\ {b, c} \subseteq DOMAIN runs
    /\ LET spec == SuiteSpec(suite, runs[b].target, runs[c].target)
       IN  ValidSpec(spec) /\ EnqueueComparison(suite, spec, b, c)

\* submit_suite_comparison
SubmitSuiteComparison(suite, b, c) ==
    /\ suite \in suites
    /\ {b, c} \subseteq DOMAIN runs
    /\ LET spec == SuiteSpec(suite, runs[b].target, runs[c].target)
       IN  /\ ValidSpec(spec)
           /\ ValidComparison(suite.dataset, spec, runs[b], runs[c], suite)
           /\ EnqueueComparison(suite, spec, b, c)

\* _validate_suite_inputs
ValidSuiteInputs(suite, spec, dataset, baseline, candidate) ==
    /\ baseline.suite = suite /\ candidate.suite = suite
    /\ suite # None =>
          /\ suite.dataset = dataset
          /\ \A run \in {baseline, candidate} :
                /\ run.evaluators = References(suite.evaluators)
                /\ run.metrics = MetricReferences(suite.evaluators)
                /\ run.mode = suite.mode
          /\ suite.slices \subseteq DOMAIN CasesOf[dataset]
          /\ spec = SuiteSpec(suite, baseline.target, candidate.target)

MetricNames(run) == {r.metric : r \in run.metrics}

\* Mutant: the metrics are compared by name only.
SameMetricsByName(baseline, candidate) == MetricNames(baseline) = MetricNames(candidate)

\* The runs have the same metrics, each from one implementation.
SameMetrics(baseline, candidate) ==
    /\ MetricNames(baseline) = MetricNames(candidate)
    /\ \A r \in baseline.metrics, s \in candidate.metrics :
          r.metric = s.metric => r.evaluator = s.evaluator

\* Mutant: a gate over a slice without cases is let through.
GatesFoundByMetric(spec, dataset, run) == \A gate \in spec.gates : gate.metric \in MetricNames(run)

\* Every gate finds its metric and its slice among the aggregates.
GatesFound(spec, dataset, run) ==
    \A gate \in spec.gates :
        gate.metric \in MetricNames(run) /\ gate.slice \in DOMAIN CasesOf[dataset]

\* _validate_inputs and the refusals of compare_runs
Comparable(spec, dataset, baseline, candidate, suite) ==
    /\ ValidSuiteInputs(suite, spec, dataset, baseline, candidate)
    /\ baseline.mode = candidate.mode
    /\ baseline.dataset = dataset /\ candidate.dataset = dataset
    /\ spec.dataset = dataset
    /\ spec.baseline = baseline.target /\ spec.candidate = candidate.target
    /\ SameMetrics(baseline, candidate)
    /\ GatesFound(spec, dataset, baseline)

\* ReleaseDecision.create: the evidence it rests on, and the gates.
Decision(payload, baseline) ==
    [suite |-> payload.suite, dataset |-> payload.dataset, mode |-> baseline.mode,
     spec |-> payload.spec, baseline |-> payload.baseline, candidate |-> payload.candidate,
     baseline_result |-> payload.baseline_result,
     candidate_result |-> payload.candidate_result]

\* The bytes of the cases a gate looks at, each of which a decision lists.
Bytes(dataset, gate) ==
    IF gate.slice \in DOMAIN CasesOf[dataset] THEN BytesOf[dataset][gate.slice] ELSE 0

\* _require_document_size
Fits(dataset, spec) ==
    MapThenSumSet(LAMBDA gate : Bytes(dataset, gate), spec.gates) <= MaxDocumentBytes

\* _compare_job, and complete_release_decision.  No evaluator is built.
CompareJob(i) ==
    /\ Queued(i, "comparison")
    /\ LET payload == jobs[i].payload
           baseline == runs[payload.baseline]
           candidate == runs[payload.candidate]
       IN  IF /\ baseline = payload.baseline_result /\ candidate = payload.candidate_result
              /\ ValidComparison(payload.dataset, payload.spec, baseline, candidate,
                                 payload.suite)
              /\ Comparable(payload.spec, payload.dataset, baseline, candidate, payload.suite)
              /\ Fits(payload.dataset, payload.spec)
           THEN /\ Ends(i, "succeeded")
                /\ decisions' = With(decisions, i, Decision(payload, baseline))
                /\ UNCHANGED <<suites, runs>>
           ELSE FailJob(i)

\* get_release_decision_distributions and the checks of
\* build_release_decision_distributions: the evidence of a gate can be shown.
Shown(decision, gate) ==
    LET baseline == runs[decision.baseline]
        candidate == runs[decision.candidate]
    IN  /\ {decision.baseline, decision.candidate} \subseteq DOMAIN runs
        /\ baseline = decision.baseline_result /\ candidate = decision.candidate_result
        /\ baseline.dataset = decision.dataset /\ candidate.dataset = decision.dataset
        /\ baseline.target = decision.spec.baseline
        /\ candidate.target = decision.spec.candidate
        /\ baseline.mode = decision.mode /\ candidate.mode = decision.mode
        /\ InScope(decision.dataset, gate) > 0

Init ==
    /\ suites = {}
    /\ jobs = [i \in {} |-> None]
    /\ runs = jobs /\ decisions = jobs

\* The policy of a client for two of its runs.
ClientSpec(dataset, gates, b, c) ==
    [dataset |-> dataset, baseline |-> runs[b].target, candidate |-> runs[c].target,
     gates |-> gates]

Next ==
    \/ \E v \in Versions :
          \/ \E suite \in SuiteDocuments :
                \/ RegisterSuite(v, suite)
                \/ \E target \in Targets : SubmitSuiteRun(v, suite, target)
          \/ \E dataset \in Datasets, names \in SUBSET Selectors, target \in Targets :
                SubmitRun(v, dataset, names, target)
          \/ \E i \in DOMAIN jobs : ExecuteRun(v, i)
    \/ \E b, c \in DOMAIN runs :
          \/ \E suite \in SuiteDocuments : SubmitSuiteComparison(suite, b, c)
          \/ \E dataset \in Datasets, gates \in Policies :
                SubmitComparison(ClientSpec(dataset, gates, b, c), b, c)
    \/ \E i \in DOMAIN jobs : RefuseRun(i) \/ CompareJob(i)

Spec == Init /\ [][Next]_vars

(***************************************************************************)
(* Properties                                                              *)
(***************************************************************************)

\* Whatever was deployed between the submission of a run and its execution, the run
\* was made with the evaluators and the target its submission resolved, and a run of a
\* suite observed exactly the metrics of the suite.
RunsKeepTheirPins ==
    \A i \in DOMAIN runs :
        LET payload == jobs[i].payload
        IN  /\ runs[i].evaluators = payload.contract.evaluators
            /\ runs[i].target = payload.contract.target
            /\ payload.suite # None =>
                  runs[i].metrics = MetricReferences(payload.suite.evaluators)

\* A decision compares like with like: two revisions of a target on one dataset, with
\* each metric from one implementation, both under the suite of the decision or both
\* without one, even if the runs were made by different versions of the code.
DecisionsCompareLikeWithLike ==
    \A i \in DOMAIN decisions :
        LET baseline == runs[decisions[i].baseline]
            candidate == runs[decisions[i].candidate]
        IN  /\ baseline.target.key # candidate.target.key
            /\ baseline.dataset = candidate.dataset
            /\ baseline.metrics = candidate.metrics
            /\ baseline.suite = decisions[i].suite /\ candidate.suite = decisions[i].suite

\* A comparison that was accepted for a suite fails for one reason only, the size of its
\* decision, which nobody measures when it is accepted.  Nothing that is deployed or
\* stored afterwards makes it fail.
SuiteComparisonsAreDecided ==
    \A i \in DOMAIN jobs :
        LET payload == jobs[i].payload
        IN  payload.kind = "comparison" /\ payload.suite # None /\ jobs[i].status = "failed"
                => ~ Fits(payload.dataset, payload.spec)

\* The runs behind a stored decision are always there, as the decision pinned them, and
\* every gate has cases to show.  What is computed from the cases is in DashboardView.
DecisionsStayExplained ==
    \A i \in DOMAIN decisions :
        \A gate \in decisions[i].spec.gates : Shown(decisions[i], gate)

(***************************************************************************)
(* The inductive invariant behind them                                     *)
(***************************************************************************)

\* Registration has checked every suite, alone and against its dataset.
SuitesAreValid ==
    \A suite \in suites :
        /\ suite \in SuiteDocuments /\ suite.dataset \in Datasets
        /\ ValidSuite(suite)

\* A result is the evidence of a run that succeeded, and its metrics are pairs.
RunsHaveJobs ==
    \A i \in DOMAIN runs :
        /\ i \in DOMAIN jobs
        /\ jobs[i].payload.kind = "run" /\ jobs[i].status = "succeeded"
        /\ \A r \in runs[i].metrics : r = [metric |-> r.metric, evaluator |-> r.evaluator]

\* The runs of a comparison are still what it pinned, and what it pinned is valid.
Pinned(payload) ==
    /\ {payload.baseline, payload.candidate} \subseteq DOMAIN runs
    /\ runs[payload.baseline] = payload.baseline_result
    /\ runs[payload.candidate] = payload.candidate_result
    /\ payload.dataset \in Datasets
    /\ payload.suite \in suites \cup {None}
    /\ ValidSpec(payload.spec)
    /\ ValidComparison(payload.dataset, payload.spec, payload.baseline_result,
                       payload.candidate_result, payload.suite)

ComparisonsArePinned ==
    \A i \in DOMAIN jobs :
        /\ jobs[i].payload.kind \in {"run", "comparison"}
        /\ jobs[i].payload.kind = "comparison" => Pinned(jobs[i].payload)

\* A decision belongs to a comparison that succeeded.
DecisionsHaveJobs ==
    \A i \in DOMAIN decisions :
        /\ i \in DOMAIN jobs
        /\ jobs[i].payload.kind = "comparison" /\ jobs[i].status = "succeeded"
        /\ {decisions[i].baseline, decisions[i].candidate} \subseteq DOMAIN runs

IInv ==
    /\ SuitesAreValid /\ RunsHaveJobs /\ ComparisonsArePinned /\ DecisionsHaveJobs
    /\ RunsKeepTheirPins /\ DecisionsCompareLikeWithLike
    /\ SuiteComparisonsAreDecided /\ DecisionsStayExplained
===============================================================================
