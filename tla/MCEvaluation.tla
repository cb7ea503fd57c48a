----------------------------- MODULE MCEvaluation -----------------------------
\* Evaluation on small datasets.
EXTENDS DashboardView

CONSTANTS accuracy, latency, sql, timer, narrow, unused

\* The second case carries a label that gates name.
TwoCases == [c \in 1 .. 2 |-> IF c = 1 THEN {} ELSE {narrow}]

TwoMetrics == [e \in {sql, timer} |-> IF e = sql THEN {accuracy} ELSE {latency}]

G(m, slice, direction, threshold, allowed) ==
    [metric |-> m, slice |-> slice, direction |-> direction,
     threshold |-> threshold, allowed |-> allowed]

\* A floor with a budget over the dataset, a floor without one over the slice and a
\* ceiling with a budget.  The second policy names a slice no case carries.
GatePolicies ==
    {{G(accuracy, Whole, "higher", 1, 1), G(accuracy, narrow, "higher", 1, 0),
      G(latency, Whole, "lower", 1, 1)},
     {G(latency, unused, "lower", 1, 0)}}

\* Two scores of 2 add up to 4, which is rounded to 2, and have a mean of 1: what happens
\* to three scores of 1.4 in doubles.
Coarse == {-16, -2, -1, 0, 1, 2, 16}

Exact == [x \in Values |-> [y \in Values |-> x - y]]

\* Nobody is shown a gate with such scores.
ASSUME ~ ValidQuantiles(Quantiles([i \in Cases |-> 2]))
=============================================================================
