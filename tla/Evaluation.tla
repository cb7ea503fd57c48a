------------------------------ MODULE Evaluation ------------------------------
(***************************************************************************)
(* An evaluation from the first case to the release decision: two runs by  *)
(* InProcessRunner (application/runner.py), the summaries stored with      *)
(* them, and compare_runs (application/comparison.py) over both.           *)
(*                                                                         *)
(* Targets and evaluators are arbitrary: a target may fail or answer, an   *)
(* evaluator may raise, return something invalid, or return any outcome    *)
(* for each of its metrics.  Both runs use the dataset, the evaluators and *)
(* the metrics of the policy, so the comparator's checks of identities     *)
(* pass.                                                                   *)
(*                                                                         *)
(* Scores are integers and a mean is kept as a sum and a count, so a       *)
(* boundary is met exactly; the code rounds, and its tolerance of 1e-12    *)
(* lets a rounded mean meet the boundary as well, of scores below 4096: a  *)
(* mean of larger ones, such as latencies in milliseconds, may be rounded  *)
(* by more.  The means that are shown are rounded in DashboardView.  Left  *)
(* out are outputs, latencies, reason codes and digests.                   *)
(***************************************************************************)
EXTENDS Integers, Sequences, FiniteSets, Functions, Scorers

CONSTANTS
    CaseCount,  \* the cases of the dataset, numbered in their order
    Slices,     \* labels that gates may name
    SlicesOf,   \* the labels of each case
    Whole,      \* the slice of a gate that covers the whole dataset
    Evaluators,
    MetricsOf,  \* the metric_names of each evaluator
    Values,     \* scores
    Policies    \* the gates of a policy

Cases == 1 .. CaseCount

Metrics == UNION {MetricsOf[e] : e \in Evaluators}

Gate ==
    [metric : Metrics, slice : Slices \cup {Whole}, direction : {"higher", "lower"},
     threshold : Int, allowed : Nat]

ASSUME EvaluationAssumption ==
    /\ CaseCount \in Nat \ {0}
    /\ Whole \notin Slices
    /\ SlicesOf \in [Cases -> SUBSET Slices]
    /\ \A e \in Evaluators : MetricsOf[e] # {}
    /\ \A e, f \in Evaluators : e # f => MetricsOf[e] \cap MetricsOf[f] = {}
    /\ Values \subseteq Int
    /\ \A policy \in Policies : policy # {} /\ policy \subseteq Gate

Sides == {"baseline", "candidate"}

VARIABLES
    policy,     \* the gates the comparison will apply
    cases,      \* the case results of each run, in the order of the dataset
    runs,       \* the status and the metric summaries of each run
    decision    \* what compare_runs returned

vars == <<policy, cases, runs, decision>>

(***************************************************************************)
(* The runner                                                              *)
(***************************************************************************)

Outcome == {Scored(value) : value \in Values} \cup {Skipped, Error}

\* A case result: the target failed, or it answered, some evaluators raised or
\* returned something invalid, and the others observed each of their metrics.
CaseResult(failed, failures, observations) ==
    [failed |-> failed, failures |-> failures, observations |-> observations]

\* CaseResultStatus.COMPLETED
Completed(case) ==
    /\ ~case.failed
    /\ case.failures = {}
    /\ \A m \in DOMAIN case.observations : case.observations[m] # Error

\* Counts and sum of a family of outcomes; the mean is sum / scored.
Tally(outcomes) ==
    LET with(status) == {c \in DOMAIN outcomes : outcomes[c].status = status}
    IN  [attempted |-> Cardinality(DOMAIN outcomes),
         scored |-> Cardinality(with("scored")),
         skipped |-> Cardinality(with("skipped")),
         errors |-> Cardinality(with("error")),
         sum |-> SumFunction([c \in with("scored") |-> outcomes[c].value])]

\* Mutant: evaluator failures are not counted as errors.
SummarizedOutcomeSkips(case, e, m) ==
    IF case.failed THEN Error
    ELSE IF e \in case.failures THEN Skipped
    ELSE IF m \in DOMAIN case.observations THEN case.observations[m] ELSE Error

\* What _summarize counts a case as, for a metric of an evaluator.
SummarizedOutcome(case, e, m) ==
    IF ~case.failed /\ e \notin case.failures /\ m \in DOMAIN case.observations
    THEN case.observations[m] ELSE Error

\* _summarize
Summaries(results) ==
    [m \in Metrics |->
        LET e == CHOOSE f \in Evaluators : m \in MetricsOf[f]
        IN  Tally([c \in Cases |-> SummarizedOutcome(results[c], e, m)])]

\* RunResult.create
RunStatus(results) ==
    IF \A c \in Cases : Completed(results[c])
       /\ \A m \in Metrics : Summaries(results)[m].errors = 0
    THEN "completed" ELSE "completed_with_failures"

Running == [status |-> "running", metrics |-> <<>>]
Aborted == [status |-> "aborted", metrics |-> <<>>]

\* The result of one case is appended; after the last one the run is stored.
AppendCase(side, case) ==
    /\ runs[side].status = "running"
    /\ cases' = [cases EXCEPT ![side] = Append(@, case)]
    /\ runs' = IF Len(cases'[side]) < CaseCount THEN runs
               ELSE [runs EXCEPT ![side] = [status |-> RunStatus(cases'[side]),
                                            metrics |-> Summaries(cases'[side])]]
    /\ UNCHANGED <<policy, decision>>

\* The target raises, or its answer fails validation.
InvokeFails(side) == AppendCase(side, CaseResult(TRUE, {}, <<>>))

\* The target answers and every evaluator has its turn.
Evaluate(side) ==
    \E failures \in SUBSET Evaluators :
        \E observations \in
              [UNION {MetricsOf[e] : e \in Evaluators \ failures} -> Outcome] :
            AppendCase(side, CaseResult(FALSE, failures, observations))

\* An evaluator returned a metric twice.  _validate_observations compares sets
\* of metrics and accepts that; the CaseResult built from it does not, and its
\* ValidationError leaves run(), and with it go the cases so far.
Abort(side) ==
    /\ runs[side].status = "running"
    /\ cases' = [cases EXCEPT ![side] = <<>>]
    /\ runs' = [runs EXCEPT ![side] = Aborted]
    /\ UNCHANGED <<policy, decision>>

(***************************************************************************)
(* The comparator                                                          *)
(***************************************************************************)

Scope(slice) == IF slice = Whole THEN Cases ELSE {c \in Cases : slice \in SlicesOf[c]}

\* _case_value
CaseValue(case, m) ==
    IF ~case.failed /\ m \in DOMAIN case.observations
    THEN case.observations[m] ELSE Error

\* _aggregate
Aggregate(results, slice, m) == Tally([c \in Scope(slice) |-> CaseValue(results[c], m)])

\* Mutant: only the candidate's errors count.
CoveragePassesOneSided(b, c) ==
    /\ c.errors = 0
    /\ b.scored > 0
    /\ b.scored = c.scored

\* _coverage_passes
CoveragePasses(b, c) ==
    /\ b.errors = 0 /\ c.errors = 0
    /\ b.scored > 0
    /\ b.scored = c.scored
    /\ b.skipped = c.skipped

\* _passes: a value, or a sum of as many values as the boundary is scaled by.
Passes(value, boundary, direction) ==
    IF direction = "higher" THEN value >= boundary ELSE value <= boundary

\* Mutant: the sum of the scores is divided by the number of cases.
ThresholdPassesOfAll(gate, c) ==
    c.scored > 0 /\ Passes(c.sum, gate.threshold * c.attempted, gate.direction)

\* The mean of the candidate exists and meets the threshold.
ThresholdPasses(gate, c) ==
    c.scored > 0 /\ Passes(c.sum, gate.threshold * c.scored, gate.direction)

\* Mutant: the budget has the same sign in both directions.
RegressionPassesUnsigned(gate, b, c) ==
    LET scale == b.scored * c.scored
        delta == c.sum * b.scored - b.sum * c.scored
    IN  /\ scale > 0
        /\ Passes(delta, gate.allowed * scale, gate.direction)

\* _regression_passes on delta, the difference of two means that exist.
RegressionPasses(gate, b, c) ==
    LET scale == b.scored * c.scored
        delta == c.sum * b.scored - b.sum * c.scored
    IN  /\ scale > 0
        /\ IF gate.direction = "higher" THEN delta >= -(gate.allowed * scale)
           ELSE delta <= gate.allowed * scale

Comparable(b, c) == b.status = "scored" /\ c.status = "scored"

\* _compare_case: the pass states and the delta exist for comparable values.
CompareCase(gate, b, c) ==
    LET passed(value) == Passes(value.value, gate.threshold, gate.direction)
    IN  [baseline |-> b, candidate |-> c,
         delta |-> IF Comparable(b, c) THEN {c.value - b.value} ELSE {},
         change |-> IF ~Comparable(b, c) THEN "incomparable"
                    ELSE CASE passed(b) /\ passed(c)  -> "unchanged_passing"
                           [] passed(b) /\ ~passed(c) -> "newly_failing"
                           [] ~passed(b) /\ passed(c) -> "newly_passing"
                           [] OTHER                   -> "unchanged_failing"]

GateResult(gate) ==
    LET b == Aggregate(cases["baseline"], gate.slice, gate.metric)
        c == Aggregate(cases["candidate"], gate.slice, gate.metric)
    IN  [baseline |-> b, candidate |-> c,
         coverage |-> CoveragePasses(b, c),
         threshold |-> ThresholdPasses(gate, c),
         regression |-> RegressionPasses(gate, b, c),
         cases |-> [i \in Scope(gate.slice) |->
                      CompareCase(gate, CaseValue(cases["baseline"][i], gate.metric),
                                        CaseValue(cases["candidate"][i], gate.metric))]]

Undecided == [status |-> "undecided", gates |-> <<>>]

\* The checks that can fail although the identities agree: a gate names a slice
\* no case carries, or stored summaries differ from the recomputed aggregates.
Refused ==
    \/ \E gate \in policy : Scope(gate.slice) = {}
    \/ \E side \in Sides, m \in Metrics :
          runs[side].metrics[m] # Aggregate(cases[side], Whole, m)

\* compare_runs
CompareRuns ==
    /\ decision.status = "undecided"
    /\ \A side \in Sides : runs[side].status \in {"completed", "completed_with_failures"}
    /\ decision' =
          IF Refused THEN [status |-> "refused", gates |-> <<>>]
          ELSE LET results == [gate \in policy |-> GateResult(gate)]
               IN  [status |-> IF \A gate \in policy :
                                    /\ results[gate].coverage
                                    /\ results[gate].threshold
                                    /\ results[gate].regression
                               THEN "passed" ELSE "failed",
                    gates |-> results]
    /\ UNCHANGED <<policy, cases, runs>>

Init ==
    /\ policy \in Policies
    /\ cases = [side \in Sides |-> <<>>]
    /\ runs = [side \in Sides |-> Running]
    /\ decision = Undecided

Next ==
    \/ \E side \in Sides : InvokeFails(side) \/ Evaluate(side) \/ Abort(side)
    \/ CompareRuns

Spec == Init /\ [][Next]_vars

(***************************************************************************)
(* Properties                                                              *)
(***************************************************************************)

Stored(side) == runs[side].status \in {"completed", "completed_with_failures"}

\* What the runner stores, the comparator recomputes: two separate counts of
\* the same evidence never disagree, so no comparison is refused for it.
SummariesAgree ==
    decision.status = "refused" => \E gate \in policy : Scope(gate.slice) = {}

\* A technical failure of either run on any case of any gate's scope, whether
\* of the target or of an evaluator, keeps the release from passing.
FailuresBlockRelease ==
    decision.status = "passed" =>
        \A gate \in policy, side \in Sides : \A i \in Scope(gate.slice) :
            LET case == cases[side][i]
            IN  /\ ~case.failed
                /\ \A e \in case.failures : gate.metric \notin MetricsOf[e]
                /\ case.observations[gate.metric] # Error

\* The verdict on the mean agrees with the verdicts on the cases: it passes when
\* the candidate passes in each case that was scored, fails when it passes in
\* none, and the cases that were not scored make no difference.
ThresholdFollowsCases ==
    \A gate \in DOMAIN decision.gates :
        LET value(i) == CaseValue(cases["candidate"][i], gate.metric)
            scored == {i \in Scope(gate.slice) : value(i).status = "scored"}
            passing == {i \in scored : Passes(value(i).value, gate.threshold, gate.direction)}
        IN  /\ scored # {} /\ passing = scored => decision.gates[gate].threshold
            /\ passing = {} => ~decision.gates[gate].threshold

\* A regression has a cause: when every case was scored by both runs or skipped
\* by both, the candidate is worse in at least one of them.
RegressionHasACause ==
    \A gate \in DOMAIN decision.gates :
        LET value(side, i) == CaseValue(cases[side][i], gate.metric)
            comparable == \A i \in Scope(gate.slice) :
                             value("baseline", i).status = value("candidate", i).status
            worse(i) == /\ value("baseline", i).status = "scored"
                        /\ IF gate.direction = "higher"
                           THEN value("candidate", i).value < value("baseline", i).value
                           ELSE value("candidate", i).value > value("baseline", i).value
        IN  (comparable /\ decision.gates[gate].coverage
                /\ ~decision.gates[gate].regression) =>
                    \E i \in Scope(gate.slice) : worse(i)

\* What ADR 0004 says of the coverage check.  It counts cases, so arbitrary evaluators
\* may break this; LocalRun shows that the evaluators of the program do not.
\* Asymmetric missing evidence fails closed: a release passes only on cases that
\* both runs scored or both skipped.
MissingEvidenceFailsClosed ==
    decision.status = "passed" =>
        \A gate \in policy : \A i \in Scope(gate.slice) :
            CaseValue(cases["baseline"][i], gate.metric).status
                = CaseValue(cases["candidate"][i], gate.metric).status

(***************************************************************************)
(* The inductive invariant                                                 *)
(***************************************************************************)

CaseResults ==
    [failed : BOOLEAN, failures : SUBSET Evaluators,
     observations : {<<>>} \cup UNION {[observed -> Outcome] : observed \in SUBSET Metrics}]

EvaluationTypes ==
    /\ policy \in Policies
    /\ cases \in [Sides -> Seq(CaseResults)]
    /\ runs = [side \in Sides |-> runs[side]]

\* Each metric of an evaluator that did its work was observed, and no other.
ObservedByOwners(case) ==
    ~case.failed =>
        DOMAIN case.observations = UNION {MetricsOf[e] : e \in Evaluators \ case.failures}

\* A run is under way, was given up, or is stored with what its cases sum up to.
RunFollowsCases(side) ==
    \/ runs[side].status = "running" /\ Len(cases[side]) < CaseCount
    \/ runs[side].status = "aborted"
    \/ /\ Stored(side) /\ Len(cases[side]) = CaseCount
       /\ runs[side].metrics = Summaries(cases[side])

\* A decision stands on stored runs, which do not change any more, and keeps what they
\* come to for each gate.
DecisionFollowsRuns ==
    /\ decision.status \in {"undecided", "refused", "passed", "failed"}
    /\ decision.status # "undecided" => \A side \in Sides : Stored(side)
    /\ decision.status = "refused" => Refused
    /\ decision.status \in {"undecided", "refused"} => decision.gates = <<>>
    /\ decision.status \in {"passed", "failed"} =>
          ~Refused /\ decision.gates = [gate \in policy |-> GateResult(gate)]
    /\ decision.status = "passed" =>
          \A gate \in policy :
              CoveragePasses(Aggregate(cases["baseline"], gate.slice, gate.metric),
                             Aggregate(cases["candidate"], gate.slice, gate.metric))

EvaluationInv ==
    /\ EvaluationTypes
    /\ \A side \in Sides :
          /\ \A c \in DOMAIN cases[side] : ObservedByOwners(cases[side][c])
          /\ RunFollowsCases(side)
    /\ DecisionFollowsRuns
=============================================================================
