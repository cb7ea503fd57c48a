--------------------------- MODULE MCReleaseEvidence ---------------------------
\* ReleaseEvidence with a version that is replaced by a second one.
EXTENDS ReleaseEvidence, TLC

CONSTANTS
    old, new,           \* versions
    match, usage,       \* selectors
    score, input, total,    \* metrics
    small, large,       \* datasets
    hard,               \* a slice
    first, second, third,   \* jobs
    stable, tuned, next \* targets; the second is the first with an override

Evaluator(digest, metrics) == [digest |-> digest, metrics |-> metrics]

\* The new version scores matches in another way and reports one more usage metric.
TwoVersions == [v \in {old, new} |->
    [evaluators |-> [name \in {match, usage} |->
        IF name = match THEN Evaluator(v, {score})
        ELSE Evaluator(old, IF v = old THEN {input} ELSE {input, total})],
     targets |-> [t \in {stable, tuned, next} |-> <<t, old>>],
     mode |-> "offline_mock"]]

G(m, slice) == [metric |-> m, slice |-> slice]

Suite(v, names, slices, gates) ==
    [dataset |-> large, mode |-> "offline_mock", slices |-> slices, gates |-> gates,
     evaluators |-> [name \in names |-> TwoVersions[v].evaluators[name]]]

\* A suite of each version, one whose decision is larger than the store keeps, although
\* its case records are few enough, and one whose slice is not in its dataset.
SomeSuites ==
    {Suite(old, {match, usage}, {hard}, {G(score, hard), G(input, hard)}),
     Suite(old, {match, usage}, {hard}, {G(score, hard), G(input, Whole)}),
     Suite(new, {match}, {}, {G(score, Whole)}),
     [Suite(old, {match}, {hard}, {G(score, hard)}) EXCEPT !.dataset = small]}

Sizes == [d \in {small, large} |->
    IF d = small THEN [s \in {Whole} |-> 1]
    ELSE [s \in {Whole, hard} |-> IF s = hard THEN 1 ELSE 2]]

\* The hard case is a long one.
Lengths == [d \in {small, large} |->
    IF d = small THEN [s \in {Whole} |-> 1]
    ELSE [s \in {Whole, hard} |-> IF s = hard THEN 3 ELSE 4]]

Keys == [t \in {stable, tuned, next} |-> IF t = next THEN next ELSE stable]

\* The last one asks for more case records than the service compares.
SomePolicies ==
    {{G(score, Whole)}, {G(input, hard)}, {G(score, Whole), G(input, Whole)}}

OneComparison == [kind \in {"run", "comparison"} |-> IF kind = "run" THEN 2 ELSE 1]

AnyIdentifiers == Permutations(JobIds)
===============================================================================
