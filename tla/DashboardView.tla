----------------------------- MODULE DashboardView -----------------------------
(***************************************************************************)
(* What the dashboard is told of a release decision: the distributions of  *)
(* a gate, built from the case comparisons in the decision and from the    *)
(* two runs it pins (application/dashboard.py), and the models that        *)
(* validate them (domain/analytics.py).  A read derives them from stored   *)
(* evidence and stores nothing, so they are operators on the states of     *)
(* Evaluation.                                                             *)
(*                                                                         *)
(* Evaluation keeps a mean as a sum and a count.  Here it is the double    *)
(* that is stored and shown, because a validator compares it with others:  *)
(* scores are doubles, and so are the results of each operation on them,   *)
(* rounded to a nearest one.  The unit of all numbers is the least double  *)
(* above zero, so that doubles are integers.                               *)
(*                                                                         *)
(* The percentiles of 50 and 95 are nearest ranks.  Of the operational     *)
(* measurements there is one for all: usage, which an answer has and a     *)
(* failure of the target has not.  Its values are left out, their count is *)
(* not; so is the latency, which a failure may have or not.                *)
(***************************************************************************)
EXTENDS Evaluation, FiniteSetsExt

CONSTANTS
    SmallSample,    \* MIN_OPERATIONAL_AGGREGATE_SIZE
    Floats,         \* the doubles
    Largest,        \* the greatest of them
    Difference      \* _difference of two scores, computed from their decimal renderings

(***************************************************************************)
(* Arithmetic of doubles                                                   *)
(***************************************************************************)

Distance(x, y) == IF x < y THEN y - x ELSE x - y

\* A double nearest to a quotient, the same whenever it is asked for.
Nearest(num, den) ==
    CHOOSE f \in Floats :
        \A g \in Floats : Distance(den * f, num) <= Distance(den * g, num)

Span == -Largest .. Largest

\* A sum that is rounded once (math.fsum)
Rounded == [x \in Span |-> Nearest(x, 1)]

\* math.fsum(values) / len(values), of n values with this sum
Mean == [n \in Cases |-> [sum \in Span |-> Nearest(Rounded[sum], n)]]

\* Scores and their differences are doubles, and no sum of them overflows.
ASSUME DashboardAssumption ==
    /\ SmallSample \in Nat /\ Largest \in Nat
    /\ IsFiniteSet(Floats) /\ Floats \subseteq Span /\ 0 \in Floats
    /\ Values \subseteq Floats
    /\ Difference \in [Values -> [Values -> Floats]]
    /\ \A x, y \in Values, n \in Cases : n * x \in Span /\ n * Difference[x][y] \in Span

(***************************************************************************)
(* Quantiles of a family of values                                         *)
(***************************************************************************)

\* nearest_rank: the least value that this percentage of the family does not exceed.
NearestRank(values, percent) ==
    LET rank == (percent * Cardinality(DOMAIN values) + 99) \div 100
        reached(x) == Cardinality({i \in DOMAIN values : values[i] <= x}) >= rank
    IN  Min({x \in Range(values) : reached(x)})

Withheld(values, suppressed) ==
    [sample_count |-> Cardinality(DOMAIN values), suppressed |-> suppressed]

\* _quantiles
Quantiles(values) ==
    IF DOMAIN values = {} THEN Withheld(values, FALSE)
    ELSE [sample_count |-> Cardinality(DOMAIN values), suppressed |-> FALSE,
          minimum |-> Min(Range(values)), p50 |-> NearestRank(values, 50),
          p95 |-> NearestRank(values, 95), maximum |-> Max(Range(values)),
          mean |-> Mean[Cardinality(DOMAIN values)][SumFunction(values)]]

\* _quantiles of measurements: a few of them are not summarized.
OperationalQuantiles(values) ==
    IF DOMAIN values # {} /\ Cardinality(DOMAIN values) < SmallSample
    THEN Withheld(values, TRUE) ELSE Quantiles(values)

\* QuantileSummary.validate_summary
ValidQuantiles(q) ==
    IF q.sample_count = 0 \/ q.suppressed
    THEN (q.sample_count = 0 => ~q.suppressed) /\ DOMAIN q = {"sample_count", "suppressed"}
    ELSE /\ q.minimum <= q.p50 /\ q.p50 <= q.p95 /\ q.p95 <= q.maximum
         /\ q.minimum <= q.mean /\ q.mean <= q.maximum

(***************************************************************************)
(* The distributions of a gate                                             *)
(***************************************************************************)

\* The scores of a family of outcomes.
ScoresIn(values) ==
    [i \in {j \in DOMAIN values : values[j].status = "scored"} |-> values[i].value]

\* Mutant: what is not scored counts as skipped.
ScoreValuesOfScored(values) ==
    LET scored == {i \in DOMAIN values : values[i].status = "scored"}
    IN  [attempted |-> Cardinality(DOMAIN values), scored |-> Cardinality(scored),
         skipped |-> Cardinality(DOMAIN values \ scored), errors |-> 0,
         statistics |-> Quantiles(ScoresIn(values))]

\* _score_values
ScoreValues(values) ==
    LET with(status) == {i \in DOMAIN values : values[i].status = status}
    IN  [attempted |-> Cardinality(DOMAIN values), scored |-> Cardinality(with("scored")),
         skipped |-> Cardinality(with("skipped")), errors |-> Cardinality(with("error")),
         statistics |-> Quantiles(ScoresIn(values))]

\* ScoreValueDistribution.validate_coverage
ValidScoreValues(d) ==
    /\ d.attempted = d.scored + d.skipped + d.errors
    /\ d.statistics.sample_count = d.scored
    /\ ValidQuantiles(d.statistics)

ComparedIn(comparisons) == {i \in DOMAIN comparisons : comparisons[i].delta # {}}

\* The deltas of a family of case comparisons, if nothing were rounded.
ExactDeltas(comparisons) ==
    [i \in ComparedIn(comparisons) |-> CHOOSE delta \in comparisons[i].delta : TRUE]

\* The deltas of _compare_case, as the decision stores them.
DeltasIn(comparisons) ==
    [i \in ComparedIn(comparisons) |->
        Difference[comparisons[i].candidate.value][comparisons[i].baseline.value]]

\* The deltas of a gate's cases, in _score_distribution
Deltas(comparisons) ==
    LET compared == ComparedIn(comparisons)
    IN  [attempted |-> Cardinality(DOMAIN comparisons), compared |-> Cardinality(compared),
         incomparable |-> Cardinality(DOMAIN comparisons) - Cardinality(compared),
         statistics |-> Quantiles(DeltasIn(comparisons))]

\* DeltaDistribution.validate_coverage
ValidDeltas(d) ==
    /\ d.attempted = d.compared + d.incomparable
    /\ d.statistics.sample_count = d.compared
    /\ ValidQuantiles(d.statistics)

\* _score_distribution
ScoreDistribution(comparisons) ==
    [baseline |-> ScoreValues([i \in DOMAIN comparisons |-> comparisons[i].baseline]),
     candidate |-> ScoreValues([i \in DOMAIN comparisons |-> comparisons[i].candidate]),
     delta |-> Deltas(comparisons)]

\* _operational_distribution, of the usage of one run over the cases of the gate
UsageDistribution(results, ids) ==
    LET failures == {i \in ids : results[i].failed}
    IN  [attempted |-> Cardinality(ids),
         measured |-> Cardinality(ids \ failures),
         unavailable |-> Cardinality(failures),
         target_failures |-> Cardinality(failures),
         statistics |-> OperationalQuantiles([i \in ids \ failures |-> 0])]

\* MeasurementDistribution.validate_coverage
ValidMeasurement(d) ==
    /\ d.attempted = d.measured + d.unavailable
    /\ d.target_failures <= d.attempted
    /\ d.statistics.sample_count = d.measured
    /\ ValidQuantiles(d.statistics)

\* build_release_decision_distributions, for a gate of the decision
Distributions(gate) ==
    LET comparisons == decision.gates[gate].cases
    IN  [score |-> ScoreDistribution(comparisons),
         usage |-> [side \in Sides |-> UsageDistribution(cases[side], DOMAIN comparisons)]]

ValidDistributions(d) ==
    /\ ValidScoreValues(d.score.baseline) /\ ValidScoreValues(d.score.candidate)
    /\ ValidDeltas(d.score.delta)
    /\ \A side \in Sides : ValidMeasurement(d.usage[side])

\* GateCaseComparison.validate_change, AggregateComparison.validate_comparison and
\* MetricAggregate.validate_counts, when a stored decision is read
ValidGateResult(result) ==
    /\ \A aggregate \in {result.baseline, result.candidate} :
          /\ aggregate.attempted = aggregate.scored + aggregate.skipped + aggregate.errors
          /\ aggregate.attempted > 0
    /\ result.baseline.attempted = result.candidate.attempted
    /\ \A i \in DOMAIN result.cases :
          LET case == result.cases[i]
          IN  /\ case.delta # {} <=> Comparable(case.baseline, case.candidate)
              /\ case.change = "incomparable" <=> ~Comparable(case.baseline, case.candidate)

(***************************************************************************)
(* Properties                                                              *)
(***************************************************************************)

\* The counts and the mean an aggregate and a distribution have in common.
Agree(aggregate, d) ==
    /\ \A count \in {"attempted", "scored", "skipped", "errors"} : aggregate[count] = d[count]
    /\ d.scored > 0 => Mean[aggregate.scored][aggregate.sum] = d.statistics.mean

\* As many equal values as there are in the family have that value as their mean.
MeansReproduce(values) ==
    LET n == Cardinality(DOMAIN values)
    IN  \A x \in Range(values) : Mean[n][n * x] = x

\* The families of a gate whose means a validator compares with their values.
Families(comparisons) ==
    {ScoresIn([i \in DOMAIN comparisons |-> comparisons[i].baseline]),
     ScoresIn([i \in DOMAIN comparisons |-> comparisons[i].candidate]),
     DeltasIn(comparisons)}

\* The evidence shown behind a gate agrees with its verdict.  A gate of a decision can be
\* shown, with one exception: the mean of equal values may be rounded to a neighbour of
\* theirs, and the validator of a summary refuses a mean outside its range.  Families
\* that are rounded otherwise, of any mixture of values, pass it.  The distributions
\* count what the aggregates do and have their means; a target failure shows as an error
\* of every metric; behind a verdict that the coverage is complete there is an answer and
\* a measurement for every case; and deltas that are exact have the mean of the difference
\* of the aggregates.
DashboardAgrees ==
    \A gate \in DOMAIN decision.gates :
        LET result == decision.gates[gate]
            d == Distributions(gate)
        IN  /\ ValidGateResult(result)
            /\ (\A family \in Families(result.cases) : MeansReproduce(family)) =>
                  ValidDistributions(d)
            /\ Agree(result.baseline, d.score.baseline)
            /\ Agree(result.candidate, d.score.candidate)
            /\ d.usage["baseline"].target_failures <= d.score.baseline.errors
            /\ d.usage["candidate"].target_failures <= d.score.candidate.errors
            /\ result.coverage =>
                  \A side \in Sides : d.usage[side].measured = d.usage[side].attempted
            /\ (d.score.delta.incomparable = d.score.baseline.skipped /\ result.coverage
                  /\ DeltasIn(result.cases) = ExactDeltas(result.cases)) =>
                  d.score.delta.statistics.mean
                     = Mean[d.score.delta.compared]
                           [result.candidate.sum - result.baseline.sum]
===============================================================================
