--------------------------- MODULE EvaluationProofs ---------------------------
(***************************************************************************)
(* The safety of an evaluation, for any numbers of cases and gates and any *)
(* targets and evaluators: the runs and the comparison (Evaluation), and   *)
(* the distributions behind a decision (DashboardView).                    *)
(*                                                                         *)
(* Verdicts on means are about sums over all cases.  A sum is a fold, so   *)
(* the first part shows that the fold is defined for every finite family   *)
(* of integers and what bounds it.  The inductions are over the parts of   *)
(* the family, by the least part that breaks the claim.                    *)
(***************************************************************************)
EXTENDS DashboardView, FiniteSetTheorems, WellFoundedInduction, TLAPS

(***************************************************************************)
(* Sums                                                                    *)
(***************************************************************************)

\* The element that a fold takes out of a set next.
Picked(s) == CHOOSE x \in s : TRUE

\* A set that is not empty has one.
LEMMA PickedIsIn ==
    ASSUME NEW s, s # {}
    PROVE  Picked(s) \in s
  BY DEF Picked

\* What holds of the empty set, and of a set if it holds of the set without the element
\* picked, holds of every part of a finite set.
LEMMA PartByPart ==
    ASSUME NEW S, IsFiniteSet(S), NEW Good, {} \in Good,
           \A t \in SUBSET S : t # {} /\ t \ {Picked(t)} \in Good => t \in Good
    PROVE  SUBSET S \subseteq Good
  <1> DEFINE R == StrictSubsetOrdering(S)
             Bad == (SUBSET S) \ Good
  <1>1. SUFFICES ASSUME Bad # {} PROVE FALSE
    OBVIOUS
  <1>2. IsWellFoundedOn(R, SUBSET S) /\ Bad \subseteq SUBSET S
    BY FS_StrictSubsetOrderingWellFounded, FS_FiniteSubsetsOfFinite
  <1>3. PICK t \in Bad : \A u \in Bad : <<u, t>> \notin R
    <2> HIDE DEF R, Bad
    <2> QED
      BY <1>1, <1>2, WFMin
  <1>4. t # {} /\ Picked(t) \in t
    BY PickedIsIn
  <1>5. <<t \ {Picked(t)}, t>> \in R
    <2>1. t \in SUBSET S /\ t \ {Picked(t)} \in SUBSET S /\ t \ {Picked(t)} # t
      BY <1>4
    <2> QED
      BY <2>1 DEF StrictSubsetOrdering
  <1>6. t \ {Picked(t)} \in Good
    <2>1. t \ {Picked(t)} \notin Bad
      BY <1>3, <1>5
    <2>2. t \ {Picked(t)} \in SUBSET S
      OBVIOUS
    <2> QED
      BY <2>1, <2>2
  <1> QED
    BY <1>4, <1>6

\* The sum of a part, given those of the smaller ones.
Partial(v, t, g) == IF t = {} THEN 0 ELSE v[Picked(t)] + g[t \ {Picked(t)}]

\* There are parts of each size for which the sums are defined.
LEMMA PartsHaveSums ==
    ASSUME NEW S, IsFiniteSet(S), NEW v \in [S -> Int]
    PROVE  \E g \in [SUBSET S -> Int] : \A t \in SUBSET S : g[t] = Partial(v, t, g)
  <1> DEFINE N == Cardinality(S)
  <1> DEFINE UpTo(n) == {t \in SUBSET S : Cardinality(t) <= n}
  <1> DEFINE Bad == {n \in Nat : ~ \E g \in [UpTo(n) -> Int] :
                                      \A t \in UpTo(n) : g[t] = Partial(v, t, g)}
  <1>1. N \in Nat /\ UpTo(N) = SUBSET S
        /\ \A t \in SUBSET S : IsFiniteSet(t) /\ Cardinality(t) \in Nat
    BY FS_CardinalityType, FS_Subset
  <1>2. ASSUME Bad # {} PROVE FALSE
    <2>1. IsWellFoundedOn(OpToRel(<, Nat), Nat) /\ Bad \subseteq Nat
      BY NatLessThanWellFounded
    <2>2. PICK n \in Bad : \A k \in Bad : <<k, n>> \notin OpToRel(<, Nat)
      <3> HIDE DEF Bad
      <3> QED
        BY <1>2, <2>1, WFMin
    <2>3. n # 0
      <3>1. ASSUME n = 0 PROVE FALSE
        <4> DEFINE g == [t \in UpTo(0) |-> 0]
        <4>1. \A t \in UpTo(0) : t = {}
          BY <1>1, FS_EmptySet
        <4>2. g \in [UpTo(0) -> Int] /\ \A t \in UpTo(0) : g[t] = Partial(v, t, g)
          BY <4>1 DEF Partial
        <4> QED
          BY <3>1, <4>2
      <3> QED
        BY <3>1
    <2>4. n - 1 \in Nat /\ n - 1 \notin Bad
      <3>1. n \in Nat /\ n - 1 \in Nat /\ n - 1 < n
        BY <2>3
      <3>2. <<n - 1, n>> \in OpToRel(<, Nat)
        BY <3>1 DEF OpToRel
      <3> HIDE DEF Bad
      <3> QED
        BY <2>2, <3>1, <3>2
    <2>5. PICK g \in [UpTo(n - 1) -> Int] : \A t \in UpTo(n - 1) : g[t] = Partial(v, t, g)
      BY <2>4
    <2> DEFINE h == [t \in UpTo(n) |-> Partial(v, t, g)]
    <2>6. \A t \in UpTo(n) : t # {} => /\ Picked(t) \in S /\ t \ {Picked(t)} \in UpTo(n - 1)
      <3> TAKE t \in UpTo(n)
      <3> HAVE t # {}
      <3>1. Picked(t) \in t
        BY PickedIsIn
      <3>2. t \ {Picked(t)} \in SUBSET S /\ Cardinality(t \ {Picked(t)}) = Cardinality(t) - 1
        BY <1>1, <3>1, FS_RemoveElement
      <3> QED
        BY <1>1, <2>4, <3>1, <3>2
    <2>7. h \in [UpTo(n) -> Int]
      BY <2>5, <2>6 DEF Partial
    <2>8. \A t \in UpTo(n - 1) : t \in UpTo(n) /\ h[t] = g[t]
      BY <1>1, <2>4, <2>5
    <2>9. \A t \in UpTo(n) : h[t] = Partial(v, t, h)
      BY <2>6, <2>8 DEF Partial
    <2> QED
      BY <2>7, <2>9
  <1> QED
    BY <1>1, <1>2

\* The fold has a value at every part of the set, and its value at the whole is the sum.
LEMMA SumIsPartial ==
    ASSUME NEW S, IsFiniteSet(S), NEW v \in [S -> Int]
    PROVE  \E g \in [SUBSET S -> Int] :
              /\ \A t \in SUBSET S : g[t] = Partial(v, t, g)
              /\ SumFunction(v) = g[S]
  <1> DEFINE Sums(g) == [t \in SUBSET S |-> Partial(v, t, g)]
  <1> DEFINE iter == CHOOSE g : g = Sums(g)
  <1>1. \E g : g = Sums(g)
    <2>1. PICK g \in [SUBSET S -> Int] : \A t \in SUBSET S : g[t] = Partial(v, t, g)
      BY PartsHaveSums
    <2>2. g = Sums(g)
      BY <2>1
    <2> QED
      BY <2>2
  <1>2. iter = Sums(iter)
    BY <1>1
  <1>3. SumFunction(v) = iter[S]
    BY DEF SumFunction, SumFunctionOnSet, FoldFunctionOnSet, MapThenFoldSet, Partial, Picked
  <1> HIDE DEF iter
  <1>4. \A t \in SUBSET S : iter[t] = Partial(v, t, iter)
    BY <1>2
  <1> DEFINE Good == {t \in SUBSET S : iter[t] \in Int}
  <1>5. SUBSET S \subseteq Good
    <2>1. {} \in Good
      <3>1. {} \in SUBSET S /\ Partial(v, {}, iter) = 0
        BY DEF Partial
      <3> QED
        BY <1>4, <3>1
    <2>2. ASSUME NEW t \in SUBSET S, t # {}, t \ {Picked(t)} \in Good PROVE t \in Good
      BY <1>4, <2>2, PickedIsIn DEF Partial
    <2> HIDE DEF Good
    <2> QED
      BY <2>1, <2>2, PartByPart
  <1>6. iter \in [SUBSET S -> Int]
    BY <1>2, <1>5
  <1> QED
    BY <1>3, <1>4, <1>6

\* A sum is a number.
LEMMA SumIsInt ==
    ASSUME NEW S, IsFiniteSet(S), NEW v \in [S -> Int]
    PROVE  SumFunction(v) \in Int
  <1>1. \E g \in [SUBSET S -> Int] : SumFunction(v) = g[S]
    BY SumIsPartial
  <1> QED
    BY <1>1

\* Multiples of a boundary, one by one.
LEMMA OneMore ==
    ASSUME NEW b \in Int, NEW n \in Int
    PROVE  b * (n - 1) + b = b * n /\ b * n \in Int
  OBVIOUS

\* A boundary of all values is one of their mean: from below,
LEMMA SumAtLeast ==
    ASSUME NEW S, IsFiniteSet(S), NEW v \in [S -> Int], NEW b \in Int,
           \A i \in S : v[i] >= b
    PROVE  SumFunction(v) >= b * Cardinality(S)
  <1>1. PICK g \in [SUBSET S -> Int] :
              /\ \A t \in SUBSET S : g[t] = Partial(v, t, g)
              /\ SumFunction(v) = g[S]
    BY SumIsPartial
  <1> DEFINE Good == {t \in SUBSET S : g[t] >= b * Cardinality(t)}
  <1>2. {} \in Good
    <2>1. {} \in SUBSET S /\ g[{}] = 0 /\ Cardinality({}) = 0
      BY <1>1, FS_EmptySet DEF Partial
    <2> QED
      BY <2>1
  <1>3. ASSUME NEW t \in SUBSET S, t # {}, t \ {Picked(t)} \in Good PROVE t \in Good
    <2> DEFINE rest == t \ {Picked(t)}
               x == Picked(t)
    <2>1. x \in t /\ x \in S
      BY <1>3, PickedIsIn
    <2>2. Cardinality(t) \in Nat /\ Cardinality(rest) = Cardinality(t) - 1
      BY <2>1, FS_Subset, FS_CardinalityType, FS_RemoveElement
    <2>3. g[t] = v[x] + g[rest] /\ v[x] \in Int /\ v[x] >= b /\ g[rest] \in Int
          /\ rest \in SUBSET S
      BY <1>1, <1>3, <2>1 DEF Partial
    <2>4. g[rest] >= b * (Cardinality(t) - 1)
      BY <1>3, <2>2
    <2> HIDE DEF rest, x
    <2>5. g[t] >= b * Cardinality(t)
      BY <2>2, <2>3, <2>4, OneMore
    <2> QED
      BY <2>5
  <1>4. S \in Good
    <2> HIDE DEF Good
    <2> QED
      BY <1>2, <1>3, PartByPart
  <1> QED
    BY <1>1, <1>4

\* and from above.
LEMMA SumAtMost ==
    ASSUME NEW S, IsFiniteSet(S), NEW v \in [S -> Int], NEW b \in Int,
           \A i \in S : v[i] <= b
    PROVE  SumFunction(v) <= b * Cardinality(S)
  <1>1. PICK g \in [SUBSET S -> Int] :
              /\ \A t \in SUBSET S : g[t] = Partial(v, t, g)
              /\ SumFunction(v) = g[S]
    BY SumIsPartial
  <1> DEFINE Good == {t \in SUBSET S : g[t] <= b * Cardinality(t)}
  <1>2. {} \in Good
    <2>1. {} \in SUBSET S /\ g[{}] = 0 /\ Cardinality({}) = 0
      BY <1>1, FS_EmptySet DEF Partial
    <2> QED
      BY <2>1
  <1>3. ASSUME NEW t \in SUBSET S, t # {}, t \ {Picked(t)} \in Good PROVE t \in Good
    <2> DEFINE rest == t \ {Picked(t)}
               x == Picked(t)
    <2>1. x \in t /\ x \in S
      BY <1>3, PickedIsIn
    <2>2. Cardinality(t) \in Nat /\ Cardinality(rest) = Cardinality(t) - 1
      BY <2>1, FS_Subset, FS_CardinalityType, FS_RemoveElement
    <2>3. g[t] = v[x] + g[rest] /\ v[x] \in Int /\ v[x] <= b /\ g[rest] \in Int
          /\ rest \in SUBSET S
      BY <1>1, <1>3, <2>1 DEF Partial
    <2>4. g[rest] <= b * (Cardinality(t) - 1)
      BY <1>3, <2>2
    <2> HIDE DEF rest, x
    <2>5. g[t] <= b * Cardinality(t)
      BY <2>2, <2>3, <2>4, OneMore
    <2> QED
      BY <2>5
  <1>4. S \in Good
    <2> HIDE DEF Good
    <2> QED
      BY <1>2, <1>3, PartByPart
  <1> QED
    BY <1>1, <1>4

\* The sum of differences is the difference of the sums.
LEMMA SumOfDifferences ==
    ASSUME NEW S, IsFiniteSet(S), NEW v \in [S -> Int], NEW w \in [S -> Int]
    PROVE  SumFunction([i \in S |-> w[i] - v[i]]) = SumFunction(w) - SumFunction(v)
  <1> DEFINE d == [i \in S |-> w[i] - v[i]]
  <1>1. d \in [S -> Int] /\ \A i \in S : d[i] = w[i] - v[i]
    OBVIOUS
  <1> HIDE DEF d
  <1>2. PICK g \in [SUBSET S -> Int] :
              /\ \A t \in SUBSET S : g[t] = Partial(v, t, g)
              /\ SumFunction(v) = g[S]
    BY SumIsPartial
  <1>3. PICK h \in [SUBSET S -> Int] :
              /\ \A t \in SUBSET S : h[t] = Partial(w, t, h)
              /\ SumFunction(w) = h[S]
    BY SumIsPartial
  <1>4. PICK k \in [SUBSET S -> Int] :
              /\ \A t \in SUBSET S : k[t] = Partial(d, t, k)
              /\ SumFunction(d) = k[S]
    BY <1>1, SumIsPartial
  <1> DEFINE Good == {t \in SUBSET S : k[t] = h[t] - g[t]}
  <1>5. {} \in Good
    <2>1. {} \in SUBSET S /\ g[{}] = 0 /\ h[{}] = 0 /\ k[{}] = 0
      BY <1>2, <1>3, <1>4 DEF Partial
    <2> QED
      BY <2>1
  <1>6. ASSUME NEW t \in SUBSET S, t # {}, t \ {Picked(t)} \in Good PROVE t \in Good
    <2> DEFINE rest == t \ {Picked(t)}
               x == Picked(t)
    <2>1. x \in S /\ rest \in SUBSET S
      BY <1>6, PickedIsIn
    <2>2. g[t] = v[x] + g[rest] /\ h[t] = w[x] + h[rest] /\ k[t] = d[x] + k[rest]
      BY <1>2, <1>3, <1>4, <1>6 DEF Partial
    <2>3. k[rest] = h[rest] - g[rest]
      BY <1>6
    <2> HIDE DEF rest, x
    <2>4. k[t] = h[t] - g[t]
      BY <1>1, <2>1, <2>2, <2>3
    <2> QED
      BY <2>4
  <1>7. S \in Good
    <2> HIDE DEF Good
    <2> QED
      BY <1>5, <1>6, PartByPart
  <1> QED
    BY <1>2, <1>3, <1>4, <1>7 DEF d

(***************************************************************************)
(* Evaluation                                                              *)
(***************************************************************************)

\* A dataset has cases.
LEMMA CaseCountNat == CaseCount \in Nat \ {0}
  BY EvaluationAssumption

\* A sequence that grows by one element.
LEMMA Appended ==
    ASSUME NEW S, NEW s \in Seq(S), NEW x \in S
    PROVE  /\ Append(s, x) \in Seq(S)
           /\ Len(s) \in Nat /\ Len(Append(s, x)) = Len(s) + 1
           /\ DOMAIN s = 1 .. Len(s) /\ DOMAIN Append(s, x) = 1 .. Len(s) + 1
           /\ \A i \in DOMAIN s : Append(s, x)[i] = s[i]
           /\ Append(s, x)[Len(s) + 1] = x
  OBVIOUS

\* An append to the cases of one run leaves the rest of the invariant to the new case.
LEMMA AppendStep ==
    ASSUME EvaluationInv, NEW side \in Sides, NEW case \in CaseResults,
           ObservedByOwners(case), AppendCase(side, case)
    PROVE  EvaluationInv'
  <1> DEFINE appended == Append(cases[side], case)
  <1>1. /\ cases[side] \in Seq(CaseResults) /\ runs[side].status = "running"
        /\ cases' = [cases EXCEPT ![side] = appended]
        /\ runs' = IF Len(appended) < CaseCount THEN runs
                   ELSE [runs EXCEPT ![side] = [status |-> RunStatus(appended),
                                                metrics |-> Summaries(appended)]]
        /\ UNCHANGED <<policy, decision>>
    BY DEF AppendCase, EvaluationInv, EvaluationTypes
  <1>2. /\ appended \in Seq(CaseResults)
        /\ Len(cases[side]) \in Nat /\ Len(appended) = Len(cases[side]) + 1
        /\ \A c \in DOMAIN appended : 
              appended[c] = case \/ (c \in DOMAIN cases[side] /\ appended[c] = cases[side][c])
    <2> HIDE DEF appended
    <2>1. DOMAIN appended = 1 .. Len(cases[side]) + 1 /\ DOMAIN cases[side] = 1 .. Len(cases[side])
      BY <1>1, Appended DEF appended
    <2> QED
      BY <1>1, <2>1, Appended DEF appended
  <1> HIDE DEF appended
  <1>3. Len(cases[side]) < CaseCount
    BY <1>1 DEF EvaluationInv, RunFollowsCases, Stored
  <1>4. EvaluationTypes'
    BY <1>1, <1>2 DEF EvaluationInv, EvaluationTypes
  <1>5. ASSUME NEW other \in Sides
        PROVE  /\ \A c \in DOMAIN cases'[other] : ObservedByOwners(cases'[other][c])
               /\ RunFollowsCases(other)'
    <2>1. CASE other # side
      <3>1. cases'[other] = cases[other] /\ runs'[other] = runs[other]
        BY <1>1, <2>1 DEF EvaluationInv, EvaluationTypes
      <3> QED
        BY <3>1 DEF EvaluationInv, RunFollowsCases, Stored
    <2>2. CASE other = side
      <3>1. cases'[side] = appended
        BY <1>1 DEF EvaluationInv, EvaluationTypes
      <3>2. \A c \in DOMAIN appended : ObservedByOwners(appended[c])
        BY <1>2 DEF EvaluationInv
      <3>3. RunFollowsCases(side)'
        <4>1. CASE Len(appended) < CaseCount
          BY <1>1, <3>1, <4>1 DEF RunFollowsCases
        <4>2. CASE ~(Len(appended) < CaseCount)
          <5>1. runs'[side] = [status |-> RunStatus(appended), metrics |-> Summaries(appended)]
            BY <1>1, <4>2 DEF EvaluationInv, EvaluationTypes
          <5>2. RunStatus(appended) \in {"completed", "completed_with_failures"}
            BY DEF RunStatus
          <5>3. Len(appended) = CaseCount
            BY <1>2, <1>3, <4>2, EvaluationAssumption
          <5> QED
            BY <3>1, <5>1, <5>2, <5>3 DEF RunFollowsCases, Stored
        <4> QED
          BY <4>1, <4>2
      <3> QED
        BY <2>2, <3>1, <3>2, <3>3
    <2> QED
      BY <2>1, <2>2
  <1>6. DecisionFollowsRuns'
    <2>1. decision.status = "undecided" /\ decision.gates = <<>>
      BY <1>1 DEF EvaluationInv, DecisionFollowsRuns, Stored
    <2> QED
      BY <1>1, <2>1 DEF DecisionFollowsRuns
  <1> QED
    BY <1>4, <1>5, <1>6 DEF EvaluationInv

\* One case: the target fails, or the evaluators have their turn.
LEMMA CaseSteps ==
    ASSUME EvaluationInv, NEW side \in Sides, InvokeFails(side) \/ Evaluate(side)
    PROVE  EvaluationInv'
  <1>1. CASE InvokeFails(side)
    <2>1. CaseResult(TRUE, {}, <<>>) \in CaseResults
      BY DEF CaseResult, CaseResults
    <2>2. ObservedByOwners(CaseResult(TRUE, {}, <<>>))
      BY DEF CaseResult, ObservedByOwners
    <2> QED
      BY <1>1, <2>1, <2>2, AppendStep DEF InvokeFails
  <1>2. CASE Evaluate(side)
    <2>1. PICK failures \in SUBSET Evaluators :
             \E observations \in [UNION {MetricsOf[e] : e \in Evaluators \ failures} -> Outcome] :
                AppendCase(side, CaseResult(FALSE, failures, observations))
      BY <1>2 DEF Evaluate
    <2> DEFINE observed == UNION {MetricsOf[e] : e \in Evaluators \ failures}
    <2>2. PICK observations \in [observed -> Outcome] :
             AppendCase(side, CaseResult(FALSE, failures, observations))
      BY <2>1
    <2>3. observed \in SUBSET Metrics
      BY DEF Metrics
    <2>4. CaseResult(FALSE, failures, observations) \in CaseResults
      <3> HIDE DEF observed
      <3> QED
        BY <2>3 DEF CaseResult, CaseResults
    <2>5. ObservedByOwners(CaseResult(FALSE, failures, observations))
      BY DEF CaseResult, ObservedByOwners
    <2> QED
      BY <2>2, <2>4, <2>5, AppendStep
  <1> QED
    BY <1>1, <1>2

\* A run that is given up leaves the other one and the decision as they are.
LEMMA AbortStep ==
    ASSUME EvaluationInv, NEW side \in Sides, Abort(side)
    PROVE  EvaluationInv'
  <1>1. /\ runs[side].status = "running"
        /\ cases' = [cases EXCEPT ![side] = <<>>]
        /\ runs' = [runs EXCEPT ![side] = Aborted]
        /\ UNCHANGED <<policy, decision>>
    BY DEF Abort
  <1>2. EvaluationTypes'
    <2>1. <<>> \in Seq(CaseResults)
      OBVIOUS
    <2> QED
      BY <1>1, <2>1 DEF EvaluationInv, EvaluationTypes
  <1>3. ASSUME NEW other \in Sides
        PROVE  /\ \A c \in DOMAIN cases'[other] : ObservedByOwners(cases'[other][c])
               /\ RunFollowsCases(other)'
    <2>1. CASE other = side
      <3>1. cases'[side] = <<>> /\ runs'[side].status = "aborted"
        BY <1>1 DEF EvaluationInv, EvaluationTypes, Aborted
      <3> QED
        BY <2>1, <3>1 DEF RunFollowsCases, Stored
    <2>2. CASE other # side
      <3>1. cases'[other] = cases[other] /\ runs'[other] = runs[other]
        BY <1>1, <2>2 DEF EvaluationInv, EvaluationTypes
      <3> QED
        BY <3>1 DEF EvaluationInv, RunFollowsCases, Stored
    <2> QED
      BY <2>1, <2>2
  <1>4. DecisionFollowsRuns'
    <2>1. decision.status = "undecided" /\ decision.gates = <<>>
      BY <1>1 DEF EvaluationInv, DecisionFollowsRuns, Stored
    <2> QED
      BY <1>1, <2>1 DEF DecisionFollowsRuns
  <1> QED
    BY <1>2, <1>3, <1>4 DEF EvaluationInv

\* What compare_runs returns when it accepts two runs: it passes only if each gate has
\* its coverage.
LEMMA ComparedRuns ==
    ASSUME CompareRuns
    PROVE  /\ decision'.status \in {"refused", "passed", "failed"}
           /\ decision'.status = "refused" => Refused /\ decision'.gates = <<>>
           /\ decision'.status \in {"passed", "failed"} =>
                 ~Refused /\ decision'.gates = [gate \in policy |-> GateResult(gate)]
           /\ decision'.status = "passed" =>
                 \A gate \in policy :
                    CoveragePasses(Aggregate(cases["baseline"], gate.slice, gate.metric),
                                   Aggregate(cases["candidate"], gate.slice, gate.metric))
           /\ \A side \in Sides : Stored(side)
           /\ decision.status = "undecided"
           /\ UNCHANGED <<policy, cases, runs>>
  <1> DEFINE results == [gate \in policy |-> GateResult(gate)]
             passes == \A gate \in policy : /\ results[gate].coverage
                                            /\ results[gate].threshold
                                            /\ results[gate].regression
  <1>1. decision' = IF Refused THEN [status |-> "refused", gates |-> <<>>]
                    ELSE [status |-> IF passes THEN "passed" ELSE "failed", gates |-> results]
    BY DEF CompareRuns
  <1>2. ASSUME passes, NEW gate \in policy
        PROVE  CoveragePasses(Aggregate(cases["baseline"], gate.slice, gate.metric),
                              Aggregate(cases["candidate"], gate.slice, gate.metric))
    <2>1. results[gate] = GateResult(gate) /\ results[gate].coverage
      BY <1>2
    <2> HIDE DEF results, passes
    <2> QED
      BY <2>1 DEF GateResult
  <1> HIDE DEF results, passes
  <1>3. CASE Refused
    BY <1>1, <1>3 DEF CompareRuns, Stored
  <1>4. CASE ~Refused
    <2>1. decision'.status = IF passes THEN "passed" ELSE "failed"
      BY <1>1, <1>4
    <2>2. decision'.status = "passed" => passes
      BY <2>1
    <2>3. decision'.gates = [gate \in policy |-> GateResult(gate)]
      BY <1>1, <1>4 DEF results
    <2> QED
      BY <1>2, <1>4, <2>1, <2>2, <2>3 DEF CompareRuns, Stored
  <1> QED
    BY <1>3, <1>4

\* The decision is made once, over runs that stay.
LEMMA CompareStep ==
    ASSUME EvaluationInv, CompareRuns
    PROVE  EvaluationInv'
  <1>1. EvaluationTypes'
    BY ComparedRuns DEF EvaluationInv, EvaluationTypes
  <1>2. \A side \in Sides : RunFollowsCases(side)'
    BY ComparedRuns DEF EvaluationInv, RunFollowsCases, Stored
  <1>3. Refused' <=> Refused
    BY ComparedRuns DEF Refused
  <1>4. \A side \in Sides : Stored(side)' <=> Stored(side)
    BY ComparedRuns DEF Stored
  <1>5. [gate \in policy |-> GateResult(gate)]' = [gate \in policy |-> GateResult(gate)]
    BY ComparedRuns DEF GateResult
  <1>6. DecisionFollowsRuns'
    BY ComparedRuns, <1>3, <1>4, <1>5 DEF DecisionFollowsRuns
  <1> QED
    BY ComparedRuns, <1>1, <1>2, <1>6 DEF EvaluationInv

\* Nothing is evaluated yet.
LEMMA InitEvaluation == Init => EvaluationInv
  <1> SUFFICES ASSUME Init PROVE EvaluationInv
    OBVIOUS
  <1>1. cases = [side \in Sides |-> <<>>] /\ runs = [side \in Sides |-> Running]
    BY DEF Init
  <1>2. EvaluationTypes
    BY DEF Init, EvaluationTypes
  <1>3. \A side \in Sides : cases[side] = <<>> /\ runs[side].status = "running"
    BY <1>1 DEF Running
  <1>4. \A side \in Sides : Len(cases[side]) < CaseCount /\ DOMAIN cases[side] = {}
    BY <1>3, EvaluationAssumption
  <1>5. DecisionFollowsRuns
    BY DEF Init, Undecided, DecisionFollowsRuns
  <1> QED
    BY <1>2, <1>3, <1>4, <1>5 DEF EvaluationInv, RunFollowsCases

\* Every step of the runs and of the comparison preserves the invariant.
LEMMA NextEvaluation == EvaluationInv /\ [Next]_vars => EvaluationInv'
  <1> SUFFICES ASSUME EvaluationInv, [Next]_vars PROVE EvaluationInv'
    OBVIOUS
  <1>1. ASSUME NEW side \in Sides, InvokeFails(side) \/ Evaluate(side) PROVE EvaluationInv'
    BY <1>1, CaseSteps
  <1>2. ASSUME NEW side \in Sides, Abort(side) PROVE EvaluationInv'
    BY <1>2, AbortStep
  <1>3. CASE CompareRuns
    BY <1>3, CompareStep
  <1>4. CASE UNCHANGED vars
    <2>1. [gate \in policy |-> GateResult(gate)]' = [gate \in policy |-> GateResult(gate)]
      BY <1>4 DEF vars, GateResult
    <2> QED
      BY <1>4, <2>1 DEF vars, EvaluationInv, EvaluationTypes, RunFollowsCases, Stored,
                        DecisionFollowsRuns, Refused
  <1> QED
    BY <1>1, <1>2, <1>3, <1>4 DEF Next

\* What the runner stored and what was decided follow from the cases, in any interleaving
\* of two runs of any targets and evaluators.
THEOREM EvaluationInvariant == Spec => []EvaluationInv
  <1> QED
    BY InitEvaluation, NextEvaluation, PTL DEF Spec

\* An outcome that is counted nowhere among the errors of an aggregate is none.
LEMMA NoErrors ==
    ASSUME NEW results, NEW slice, NEW m, Aggregate(results, slice, m).errors = 0,
           NEW c \in Scope(slice)
    PROVE  CaseValue(results[c], m).status # "error"
  <1> DEFINE outcomes == [i \in Scope(slice) |-> CaseValue(results[i], m)]
             wrong == {i \in DOMAIN outcomes : outcomes[i].status = "error"}
  <1>1. Aggregate(results, slice, m).errors = Cardinality(wrong)
    <2>1. Aggregate(results, slice, m) = Tally(outcomes)
      BY DEF Aggregate
    <2> HIDE DEF outcomes
    <2> QED
      BY <2>1 DEF Tally
  <1>2. IsFiniteSet(wrong)
    <2>1. wrong \subseteq 1 .. CaseCount
      BY DEF Scope, Cases
    <2>2. IsFiniteSet(1 .. CaseCount)
      BY FS_Interval, CaseCountNat
    <2> HIDE DEF wrong
    <2> QED
      BY <2>1, <2>2, FS_Subset
  <1>3. wrong = {}
    BY <1>1, <1>2, FS_EmptySet
  <1> QED
    BY <1>3

\* A metric belongs to one evaluator.
LEMMA OneOwner ==
    ASSUME NEW e \in Evaluators, NEW f \in Evaluators, NEW m, m \in MetricsOf[e], m \in MetricsOf[f]
    PROVE  e = f
  BY EvaluationAssumption

\* A value is an error if its case failed or its evaluator did.
LEMMA SoundValue ==
    ASSUME NEW case, ObservedByOwners(case), NEW m, CaseValue(case, m) # Error
    PROVE  /\ ~case.failed /\ case.observations[m] # Error
           /\ \A e \in case.failures : e \in Evaluators => m \notin MetricsOf[e]
  <1>1. ~case.failed /\ m \in DOMAIN case.observations /\ CaseValue(case, m) = case.observations[m]
    BY DEF CaseValue
  <1>2. PICK owner \in Evaluators \ case.failures : m \in MetricsOf[owner]
    BY <1>1 DEF ObservedByOwners
  <1>3. \A e \in case.failures : e \in Evaluators => m \notin MetricsOf[e]
    BY <1>2, OneOwner
  <1> QED
    BY <1>1, <1>3

\* A release does not pass over a technical failure: one failure of a target or of an
\* evaluator, in either run, in any case that a gate looks at (compare_runs).
THEOREM FailuresPreventRelease == Spec => []FailuresBlockRelease
  <1>1. ASSUME EvaluationInv PROVE FailuresBlockRelease
    <2> SUFFICES ASSUME decision.status = "passed", NEW gate \in policy, NEW side \in Sides,
                        NEW i \in Scope(gate.slice)
                 PROVE  /\ ~cases[side][i].failed
                        /\ \A e \in cases[side][i].failures : gate.metric \notin MetricsOf[e]
                        /\ cases[side][i].observations[gate.metric] # Error
      BY DEF FailuresBlockRelease
    <2>1. Aggregate(cases[side], gate.slice, gate.metric).errors = 0
      BY <1>1 DEF EvaluationInv, DecisionFollowsRuns, CoveragePasses, Sides
    <2>2. CaseValue(cases[side][i], gate.metric) # Error
      BY <2>1, NoErrors DEF Error
    <2>3. i \in DOMAIN cases[side]
      <3>1. Stored(side) /\ cases[side] \in Seq(CaseResults)
        BY <1>1 DEF EvaluationInv, EvaluationTypes, DecisionFollowsRuns
      <3>2. Len(cases[side]) = CaseCount
        BY <1>1, <3>1 DEF EvaluationInv, RunFollowsCases, Stored
      <3> QED
        BY <3>1, <3>2 DEF Scope, Cases
    <2>4. ObservedByOwners(cases[side][i]) /\ cases[side][i] \in CaseResults
      BY <1>1, <2>3 DEF EvaluationInv, EvaluationTypes
    <2>5. cases[side][i].failures \subseteq Evaluators
      BY <2>4 DEF CaseResults
    <2> QED
      BY <2>2, <2>4, <2>5, SoundValue
  <1> QED
    BY <1>1, EvaluationInvariant, PTL

\* What is counted of a case at the end of a run is what is counted at the comparison.
LEMMA SameOutcome ==
    ASSUME NEW case, ObservedByOwners(case), NEW m \in Metrics, NEW e \in Evaluators,
           m \in MetricsOf[e]
    PROVE  SummarizedOutcome(case, e, m) = CaseValue(case, m)
  <1>1. ~case.failed /\ m \in DOMAIN case.observations => e \notin case.failures
    <2> SUFFICES ASSUME ~case.failed, m \in DOMAIN case.observations, e \in case.failures
                 PROVE  FALSE
      OBVIOUS
    <2>1. PICK f \in Evaluators \ case.failures : m \in MetricsOf[f]
      BY DEF ObservedByOwners
    <2> QED
      BY <2>1, OneOwner
  <1> QED
    BY <1>1 DEF SummarizedOutcome, CaseValue

\* The runner's summaries and the comparator's aggregates are counted by different code
\* from the same cases, and agree: a comparison of stored runs is never refused for them.
THEOREM TwoCountsAgree == Spec => []SummariesAgree
  <1>1. ASSUME EvaluationInv PROVE SummariesAgree
    <2> SUFFICES ASSUME decision.status = "refused"
                 PROVE  \E gate \in policy : Scope(gate.slice) = {}
      BY DEF SummariesAgree
    <2>1. ASSUME NEW side \in Sides, NEW m \in Metrics
          PROVE  runs[side].metrics[m] = Aggregate(cases[side], Whole, m)
      <3> DEFINE e == CHOOSE f \in Evaluators : m \in MetricsOf[f]
      <3>1. e \in Evaluators /\ m \in MetricsOf[e]
        BY DEF Metrics
      <3>2. /\ Len(cases[side]) = CaseCount /\ runs[side].metrics = Summaries(cases[side])
            /\ cases[side] \in Seq(CaseResults)
        BY <1>1 DEF EvaluationInv, EvaluationTypes, DecisionFollowsRuns, RunFollowsCases, Stored
      <3>3. \A c \in Cases : ObservedByOwners(cases[side][c])
        BY <1>1, <3>2 DEF EvaluationInv, Cases
      <3>4. Summaries(cases[side])[m]
              = Tally([c \in Cases |-> SummarizedOutcome(cases[side][c], e, m)])
        BY DEF Summaries
      <3> HIDE DEF e
      <3>5. [c \in Cases |-> SummarizedOutcome(cases[side][c], e, m)]
              = [c \in Scope(Whole) |-> CaseValue(cases[side][c], m)]
        BY <3>1, <3>3, SameOutcome DEF Scope
      <3> QED
        BY <3>2, <3>4, <3>5 DEF Aggregate
    <2> QED
      BY <1>1, <2>1 DEF EvaluationInv, DecisionFollowsRuns, Refused
  <1> QED
    BY <1>1, EvaluationInvariant, PTL

(***************************************************************************)
(* Verdicts on means                                                       *)
(***************************************************************************)

\* An outcome has one of three statuses, and a value if it is scored.
LEMMA OutcomeFacts ==
    ASSUME NEW outcome \in Outcome
    PROVE  /\ outcome.status \in {"scored", "skipped", "error"}
           /\ outcome.status = "scored" => outcome.value \in Int
           /\ outcome.status = "error" <=> outcome = Error
  BY EvaluationAssumption DEF Outcome, Scored, Skipped, Error

\* The members of a family of outcomes that have a status, and the scores of a family.
With(outcomes, status) == {i \in DOMAIN outcomes : outcomes[i].status = status}

ScoresOf(outcomes) == [i \in With(outcomes, "scored") |-> outcomes[i].value]

\* An aggregate counts each outcome once and sums up the scores.
LEMMA TallyFacts ==
    ASSUME NEW S, IsFiniteSet(S), NEW outcomes \in [S -> Outcome]
    PROVE  LET tally == Tally(outcomes)
           IN  /\ tally.attempted = Cardinality(S)
               /\ tally.scored = Cardinality(With(outcomes, "scored"))
               /\ tally.skipped = Cardinality(With(outcomes, "skipped"))
               /\ tally.errors = Cardinality(With(outcomes, "error"))
               /\ tally.scored \in Nat /\ tally.skipped \in Nat /\ tally.errors \in Nat
               /\ Cardinality(S) = tally.scored + tally.skipped + tally.errors
               /\ IsFiniteSet(With(outcomes, "scored"))
               /\ ScoresOf(outcomes) \in [With(outcomes, "scored") -> Int]
               /\ tally.sum = SumFunction(ScoresOf(outcomes))
               /\ tally.sum \in Int
  <1> DEFINE A == With(outcomes, "scored")
             B == With(outcomes, "skipped")
             C == With(outcomes, "error")
  <1>1. /\ Tally(outcomes).attempted = Cardinality(S) /\ Tally(outcomes).scored = Cardinality(A)
        /\ Tally(outcomes).skipped = Cardinality(B) /\ Tally(outcomes).errors = Cardinality(C)
        /\ Tally(outcomes).sum = SumFunction(ScoresOf(outcomes))
    BY DEF Tally, ScoresOf, With
  <1>2. ScoresOf(outcomes) \in [A -> Int]
    BY OutcomeFacts DEF ScoresOf, With
  <1>3. S = (A \cup B) \cup C /\ A \cap B = {} /\ (A \cup B) \cap C = {}
    BY OutcomeFacts DEF With
  <1>4. A \in SUBSET S /\ B \in SUBSET S /\ C \in SUBSET S
    BY DEF With
  <1> HIDE DEF A, B, C
  <1>5. /\ IsFiniteSet(A) /\ IsFiniteSet(B) /\ IsFiniteSet(C)
        /\ Cardinality(A) \in Nat /\ Cardinality(B) \in Nat /\ Cardinality(C) \in Nat
    BY <1>4, FS_Subset, FS_CardinalityType
  <1>6. Cardinality(S) = Cardinality(A) + Cardinality(B) + Cardinality(C)
    <2>1. /\ IsFiniteSet(A \cup B)
          /\ Cardinality(A \cup B) = Cardinality(A) + Cardinality(B) - Cardinality(A \cap B)
      BY <1>5, FS_Union
    <2>2. Cardinality((A \cup B) \cup C)
             = Cardinality(A \cup B) + Cardinality(C) - Cardinality((A \cup B) \cap C)
      BY <1>5, <2>1, FS_Union
    <2>3. Cardinality(A \cap B) = 0 /\ Cardinality((A \cup B) \cap C) = 0
      BY <1>3, FS_EmptySet
    <2>4. Cardinality((A \cup B) \cup C) = Cardinality(S)
      BY <1>3
    <2> QED
      BY <1>5, <2>1, <2>2, <2>3, <2>4
  <1>7. Tally(outcomes).sum \in Int
    BY <1>1, <1>2, <1>5, SumIsInt
  <1> QED
    BY <1>1, <1>2, <1>5, <1>6, <1>7 DEF A, B, C

\* What a metric is observed as for the cases of a gate.
ValuesOf(side, gate) ==
    [i \in Scope(gate.slice) |-> CaseValue(cases[side][i], gate.metric)]

\* What is known of a gate that was decided.
LEMMA DecidedGate ==
    ASSUME EvaluationInv, NEW gate \in DOMAIN decision.gates
    PROVE  /\ gate \in policy /\ gate \in Gate
           /\ decision.gates[gate] = GateResult(gate)
           /\ Scope(gate.slice) \in SUBSET Cases /\ Scope(gate.slice) # {}
           /\ IsFiniteSet(Scope(gate.slice))
           /\ \A side \in Sides, i \in Cases :
                 cases[side][i] \in CaseResults /\ ObservedByOwners(cases[side][i])
           /\ \A side \in Sides : 
                 /\ ValuesOf(side, gate) \in [Scope(gate.slice) -> Outcome]
                 /\ Aggregate(cases[side], gate.slice, gate.metric) = Tally(ValuesOf(side, gate))
  <1>1. decision.status \in {"passed", "failed"}
    BY DEF EvaluationInv, DecisionFollowsRuns
  <1>2. /\ ~Refused /\ decision.gates = [g \in policy |-> GateResult(g)]
        /\ \A side \in Sides : Stored(side)
    BY <1>1 DEF EvaluationInv, DecisionFollowsRuns
  <1>3. gate \in policy /\ decision.gates[gate] = GateResult(gate)
    BY <1>2
  <1>4. gate \in Gate
    BY <1>3, EvaluationAssumption DEF EvaluationInv, EvaluationTypes
  <1>5. Scope(gate.slice) \in SUBSET Cases /\ Scope(gate.slice) # {}
    BY <1>2, <1>3 DEF Refused, Scope
  <1>6. IsFiniteSet(Scope(gate.slice))
    BY <1>5, CaseCountNat, FS_Interval, FS_Subset DEF Cases
  <1>7. ASSUME NEW side \in Sides, NEW i \in Cases
        PROVE  cases[side][i] \in CaseResults /\ ObservedByOwners(cases[side][i])
    <2>1. cases[side] \in Seq(CaseResults) /\ Len(cases[side]) = CaseCount
      BY <1>2 DEF EvaluationInv, EvaluationTypes, RunFollowsCases, Stored
    <2>2. i \in DOMAIN cases[side]
      BY <2>1 DEF Cases
    <2> QED
      BY <2>1, <2>2 DEF EvaluationInv
  <1>8. ASSUME NEW side \in Sides, NEW i \in Cases
        PROVE  CaseValue(cases[side][i], gate.metric) \in Outcome
    <2> DEFINE case == cases[side][i]
    <2>1. case \in CaseResults
      BY <1>7
    <2> HIDE DEF case
    <2>2. ASSUME gate.metric \in DOMAIN case.observations
          PROVE  case.observations[gate.metric] \in Outcome
      <3>1. case.observations # <<>>
        BY <2>2
      <3>2. PICK observed \in SUBSET Metrics : case.observations \in [observed -> Outcome]
        BY <2>1, <3>1 DEF CaseResults
      <3> QED
        BY <2>2, <3>2
    <2>3. Error \in Outcome
      BY DEF Outcome
    <2> QED
      BY <2>2, <2>3 DEF CaseValue, case
  <1>9. ASSUME NEW side \in Sides
        PROVE  /\ ValuesOf(side, gate) \in [Scope(gate.slice) -> Outcome]
               /\ Aggregate(cases[side], gate.slice, gate.metric) = Tally(ValuesOf(side, gate))
    BY <1>5, <1>8 DEF ValuesOf, Aggregate
  <1> QED
    BY <1>3, <1>4, <1>5, <1>6, <1>7, <1>9

\* What is stored of it, in terms of these values.
LEMMA DecidedFields ==
    ASSUME EvaluationInv, NEW gate \in DOMAIN decision.gates
    PROVE  LET S == Scope(gate.slice)
               b == ValuesOf("baseline", gate)
               c == ValuesOf("candidate", gate)
               result == decision.gates[gate]
           IN  /\ gate \in Gate /\ IsFiniteSet(S) /\ S # {} /\ S \in SUBSET Cases
               /\ b \in [S -> Outcome] /\ c \in [S -> Outcome]
               /\ result.baseline = Tally(b) /\ result.candidate = Tally(c)
               /\ result.coverage = CoveragePasses(Tally(b), Tally(c))
               /\ result.threshold = ThresholdPasses(gate, Tally(c))
               /\ result.regression = RegressionPasses(gate, Tally(b), Tally(c))
               /\ result.cases = [i \in S |-> CompareCase(gate, b[i], c[i])]
  <1> DEFINE S == Scope(gate.slice)
             b == ValuesOf("baseline", gate)
             c == ValuesOf("candidate", gate)
             result == decision.gates[gate]
             x == Aggregate(cases["baseline"], gate.slice, gate.metric)
             y == Aggregate(cases["candidate"], gate.slice, gate.metric)
  <1>1. "baseline" \in Sides /\ "candidate" \in Sides
    BY DEF Sides
  <1>2. /\ gate \in Gate /\ IsFiniteSet(S) /\ S # {} /\ S \in SUBSET Cases
        /\ result = GateResult(gate)
    BY DecidedGate
  <1>3. b \in [S -> Outcome] /\ c \in [S -> Outcome] /\ x = Tally(b) /\ y = Tally(c)
    BY <1>1, DecidedGate
  <1>4. \A i \in S : /\ b[i] = CaseValue(cases["baseline"][i], gate.metric)
                     /\ c[i] = CaseValue(cases["candidate"][i], gate.metric)
    BY DEF ValuesOf
  <1>5. [i \in S |-> CompareCase(gate, CaseValue(cases["baseline"][i], gate.metric),
                                       CaseValue(cases["candidate"][i], gate.metric))]
           = [i \in S |-> CompareCase(gate, b[i], c[i])]
    <2> HIDE DEF b, c, S
    <2> QED
      BY <1>4
  <1>6. /\ result.baseline = x /\ result.candidate = y
        /\ result.coverage = CoveragePasses(x, y)
        /\ result.threshold = ThresholdPasses(gate, y)
        /\ result.regression = RegressionPasses(gate, x, y)
        /\ result.cases = [i \in S |->
                             CompareCase(gate, CaseValue(cases["baseline"][i], gate.metric),
                                               CaseValue(cases["candidate"][i], gate.metric))]
    <2> HIDE DEF result
    <2> QED
      BY <1>2 DEF GateResult
  <1> HIDE DEF b, c, S, result, x, y
  <1>7. /\ result.baseline = Tally(b) /\ result.candidate = Tally(c)
        /\ result.coverage = CoveragePasses(Tally(b), Tally(c))
        /\ result.threshold = ThresholdPasses(gate, Tally(c))
        /\ result.regression = RegressionPasses(gate, Tally(b), Tally(c))
        /\ result.cases = [i \in S |-> CompareCase(gate, b[i], c[i])]
    BY <1>3, <1>5, <1>6
  <1> QED
    BY <1>2, <1>3, <1>7 DEF b, c, S, result

\* Of n values that are all below a boundary, n at least 1, so is the mean.
LEMMA BelowBoundary ==
    ASSUME NEW t \in Int, NEW n \in Int, n > 0
    PROVE  /\ (t - 1) * n < t * n /\ (t + 1) * n > t * n
           /\ t * n \in Int /\ (t - 1) * n \in Int /\ (t + 1) * n \in Int
  <1>1. (t - 1) * n = t * n - n /\ (t + 1) * n = t * n + n
    OBVIOUS
  <1>2. t * n \in Int
    OBVIOUS
  <1> QED
    BY <1>1, <1>2

\* The mean of what the candidate scored is compared with the threshold (_passes), for any
\* number of cases: it lies where they all lie.
LEMMA ThresholdOfTally ==
    ASSUME NEW S, IsFiniteSet(S), NEW outcomes \in [S -> Outcome], NEW gate \in Gate
    PROVE  LET scored == With(outcomes, "scored")
               passing == {i \in scored :
                             Passes(outcomes[i].value, gate.threshold, gate.direction)}
           IN  /\ scored # {} /\ passing = scored => ThresholdPasses(gate, Tally(outcomes))
               /\ passing = {} => ~ThresholdPasses(gate, Tally(outcomes))
  <1> DEFINE scored == With(outcomes, "scored")
             passing == {i \in scored :
                           Passes(outcomes[i].value, gate.threshold, gate.direction)}
             v == ScoresOf(outcomes)
             c == Tally(outcomes)
             t == gate.threshold
  <1>1. /\ IsFiniteSet(scored) /\ v \in [scored -> Int] /\ c.sum = SumFunction(v) /\ c.sum \in Int
        /\ c.scored = Cardinality(scored) /\ c.scored \in Nat
    BY TallyFacts
  <1>2. \A i \in scored : v[i] = outcomes[i].value /\ v[i] \in Int
    BY <1>1 DEF ScoresOf
  <1>3. t \in Int /\ gate.direction \in {"higher", "lower"}
    BY DEF Gate
  <1>4. c.scored > 0 <=> scored # {}
    BY <1>1, FS_EmptySet
  <1>5. ASSUME scored # {}, passing = scored PROVE ThresholdPasses(gate, c)
    <2>1. CASE gate.direction = "higher"
      <3>1. \A i \in scored : v[i] >= t
        BY <1>2, <1>5, <2>1 DEF Passes
      <3> HIDE DEF scored, passing, v, c, t
      <3>2. c.sum >= t * c.scored
        BY <1>1, <1>3, <3>1, SumAtLeast
      <3> QED
        BY <1>4, <1>5, <2>1, <3>2 DEF ThresholdPasses, Passes, t
    <2>2. CASE gate.direction = "lower"
      <3>1. \A i \in scored : v[i] <= t
        BY <1>2, <1>5, <2>2 DEF Passes
      <3> HIDE DEF scored, passing, v, c, t
      <3>2. c.sum <= t * c.scored
        BY <1>1, <1>3, <3>1, SumAtMost
      <3> QED
        BY <1>4, <1>5, <2>2, <3>2 DEF ThresholdPasses, Passes, t
    <2> QED
      BY <1>3, <2>1, <2>2
  <1>6. ASSUME passing = {}, scored # {} PROVE ~ThresholdPasses(gate, c)
    <2>1. CASE gate.direction = "higher"
      <3>1. \A i \in scored : v[i] <= t - 1
        BY <1>2, <1>3, <1>6, <2>1 DEF Passes
      <3> HIDE DEF scored, passing, v, c, t
      <3>2. c.sum <= (t - 1) * c.scored
        BY <1>1, <1>3, <3>1, SumAtMost
      <3>3. c.sum < t * c.scored
        BY <1>1, <1>3, <1>4, <1>6, <3>2, BelowBoundary
      <3> QED
        BY <1>1, <1>3, <2>1, <3>3 DEF ThresholdPasses, Passes, t
    <2>2. CASE gate.direction = "lower"
      <3>1. \A i \in scored : v[i] >= t + 1
        BY <1>2, <1>3, <1>6, <2>2 DEF Passes
      <3> HIDE DEF scored, passing, v, c, t
      <3>2. c.sum >= (t + 1) * c.scored
        BY <1>1, <1>3, <3>1, SumAtLeast
      <3>3. c.sum > t * c.scored
        BY <1>1, <1>3, <1>4, <1>6, <3>2, BelowBoundary
      <3> QED
        BY <1>1, <1>3, <2>2, <3>3 DEF ThresholdPasses, Passes, t
    <2> QED
      BY <1>3, <2>1, <2>2
  <1>7. ASSUME scored = {} PROVE ~ThresholdPasses(gate, c)
    BY <1>4, <1>7 DEF ThresholdPasses
  <1> QED
    BY <1>5, <1>6, <1>7

\* The verdict on the mean of the candidate agrees with the verdicts on its cases, whatever
\* the numbers of cases and the scores (compare_runs, _passes).
THEOREM ThresholdVerdictsFollowCases == Spec => []ThresholdFollowsCases
  <1>1. ASSUME EvaluationInv PROVE ThresholdFollowsCases
    <2> SUFFICES ASSUME NEW gate \in DOMAIN decision.gates
                 PROVE  LET value(i) == CaseValue(cases["candidate"][i], gate.metric)
                            scored == {i \in Scope(gate.slice) : value(i).status = "scored"}
                            passing == {i \in scored : Passes(value(i).value, gate.threshold,
                                                              gate.direction)}
                        IN  /\ scored # {} /\ passing = scored =>
                                  decision.gates[gate].threshold
                            /\ passing = {} => ~decision.gates[gate].threshold
      BY DEF ThresholdFollowsCases
    <2> DEFINE outcomes == ValuesOf("candidate", gate)
    <2>1. /\ gate \in Gate /\ IsFiniteSet(Scope(gate.slice))
          /\ outcomes \in [Scope(gate.slice) -> Outcome]
          /\ decision.gates[gate].threshold = ThresholdPasses(gate, Tally(outcomes))
      BY <1>1, DecidedFields
    <2>2. \A i \in Scope(gate.slice) :
             outcomes[i] = CaseValue(cases["candidate"][i], gate.metric)
      BY DEF ValuesOf
    <2> DEFINE scored == With(outcomes, "scored")
               passing == {i \in scored :
                             Passes(outcomes[i].value, gate.threshold, gate.direction)}
    <2>3. /\ scored # {} /\ passing = scored => ThresholdPasses(gate, Tally(outcomes))
          /\ passing = {} => ~ThresholdPasses(gate, Tally(outcomes))
      BY <2>1, ThresholdOfTally
    <2> HIDE DEF outcomes
    <2>4. scored = {i \in Scope(gate.slice) :
                       CaseValue(cases["candidate"][i], gate.metric).status = "scored"}
      BY <2>1, <2>2 DEF With
    <2>5. passing = {i \in scored : Passes(CaseValue(cases["candidate"][i], gate.metric).value,
                                           gate.threshold, gate.direction)}
      BY <2>1, <2>2 DEF With
    <2> HIDE DEF scored, passing
    <2> QED
      BY <2>1, <2>3, <2>4, <2>5
  <1> QED
    BY <1>1, EvaluationInvariant, PTL

\* Sums of the same cases compare as their values do.
LEMMA SumsCompare ==
    ASSUME NEW S, IsFiniteSet(S), NEW v \in [S -> Int], NEW w \in [S -> Int],
           \A i \in S : v[i] <= w[i]
    PROVE  SumFunction(v) <= SumFunction(w)
  <1> DEFINE d == [i \in S |-> w[i] - v[i]]
  <1>1. d \in [S -> Int] /\ \A i \in S : d[i] >= 0
    OBVIOUS
  <1>2. SumFunction(d) = SumFunction(w) - SumFunction(v)
    BY SumOfDifferences
  <1> HIDE DEF d
  <1>3. SumFunction(d) >= 0 * Cardinality(S) /\ Cardinality(S) \in Nat
    BY <1>1, SumAtLeast, FS_CardinalityType
  <1>4. SumFunction(v) \in Int /\ SumFunction(w) \in Int
    BY SumIsInt
  <1> QED
    BY <1>2, <1>3, <1>4

\* A difference of means that is not negative exceeds no budget.
LEMMA ScaledDifference ==
    ASSUME NEW x \in Int, NEW y \in Int, NEW n \in Nat, NEW allowed \in Nat
    PROVE  /\ n * n \in Int /\ allowed * (n * n) \in Int
           /\ x * n \in Int /\ y * n \in Int
           /\ n > 0 => n * n > 0
           /\ y >= x => y * n - x * n >= -(allowed * (n * n))
           /\ y <= x => y * n - x * n <= allowed * (n * n)
  <1>1. n * n \in Nat
    OBVIOUS
  <1>2. allowed * (n * n) \in Nat
    BY <1>1
  <1>3. x * n \in Int /\ y * n \in Int /\ (y - x) * n = y * n - x * n
    OBVIOUS
  <1>4. y >= x => (y - x) * n >= 0
    <2>1. y >= x => y - x \in Nat
      OBVIOUS
    <2>2. \A k \in Nat : k * n >= 0
      OBVIOUS
    <2> QED
      BY <2>1, <2>2
  <1>5. y <= x => (x - y) * n >= 0 /\ (x - y) * n = x * n - y * n
    <2>1. y <= x => x - y \in Nat
      OBVIOUS
    <2>2. \A k \in Nat : k * n >= 0
      OBVIOUS
    <2> QED
      BY <2>1, <2>2
  <1>6. n > 0 => n * n > 0
    OBVIOUS
  <1> QED
    BY <1>1, <1>2, <1>3, <1>4, <1>5, <1>6

\* When both runs scored the same cases, and the candidate none of them worse, the
\* difference of the means is within any budget (_regression_passes).
LEMMA RegressionOfTallies ==
    ASSUME NEW S, IsFiniteSet(S), NEW b \in [S -> Outcome], NEW c \in [S -> Outcome],
           NEW gate \in Gate, \A i \in S : b[i].status = c[i].status,
           Tally(b).scored > 0,
           \A i \in S : b[i].status = "scored" =>
              IF gate.direction = "higher" THEN c[i].value >= b[i].value
              ELSE c[i].value <= b[i].value
    PROVE  RegressionPasses(gate, Tally(b), Tally(c))
  <1> DEFINE scored == With(b, "scored")
             v == ScoresOf(b)
             w == ScoresOf(c)
             n == Tally(b).scored
             x == Tally(b).sum
             y == Tally(c).sum
  <1>1. scored = With(c, "scored")
    BY DEF With
  <1>2. /\ IsFiniteSet(scored) /\ v \in [scored -> Int] /\ x = SumFunction(v) /\ x \in Int
        /\ n = Cardinality(scored) /\ n \in Nat
    BY TallyFacts
  <1>3. w \in [scored -> Int] /\ y = SumFunction(w) /\ y \in Int /\ Tally(c).scored = n
    <2>1. /\ w \in [With(c, "scored") -> Int] /\ y = SumFunction(w) /\ y \in Int
          /\ Tally(c).scored = Cardinality(With(c, "scored"))
      BY TallyFacts
    <2> QED
      BY <1>1, <1>2, <2>1
  <1>4. \A i \in scored :
           v[i] = b[i].value /\ w[i] = c[i].value /\ i \in S /\ b[i].status = "scored"
    BY <1>1 DEF ScoresOf, With
  <1>5. gate.allowed \in Nat /\ gate.direction \in {"higher", "lower"}
    BY DEF Gate
  <1>6. gate.direction = "higher" => x <= y
    <2> SUFFICES ASSUME gate.direction = "higher" PROVE x <= y
      OBVIOUS
    <2>1. \A i \in scored : v[i] <= w[i]
      BY <1>2, <1>3, <1>4
    <2> HIDE DEF scored, v, w, x, y
    <2> QED
      BY <1>2, <1>3, <2>1, SumsCompare
  <1>7. gate.direction = "lower" => y <= x
    <2> SUFFICES ASSUME gate.direction = "lower" PROVE y <= x
      OBVIOUS
    <2>1. \A i \in scored : w[i] <= v[i]
      BY <1>2, <1>3, <1>4
    <2> HIDE DEF scored, v, w, x, y
    <2> QED
      BY <1>2, <1>3, <2>1, SumsCompare
  <1>8. n > 0
    OBVIOUS
  <1>9. RegressionPasses(gate, Tally(b), Tally(c)) <=>
           /\ n * n > 0
           /\ IF gate.direction = "higher" THEN y * n - x * n >= -(gate.allowed * (n * n))
              ELSE y * n - x * n <= gate.allowed * (n * n)
    BY <1>3 DEF RegressionPasses
  <1> HIDE DEF scored, v, w, n, x, y
  <1> QED
    BY <1>2, <1>3, <1>5, <1>6, <1>7, <1>8, <1>9, ScaledDifference

\* A regression has a cause: a case that the candidate scored worse, if both runs scored the
\* same cases (compare_runs, _regression_passes).
THEOREM RegressionsHaveCauses == Spec => []RegressionHasACause
  <1>1. ASSUME EvaluationInv PROVE RegressionHasACause
    <2> SUFFICES ASSUME NEW gate \in DOMAIN decision.gates,
                        \A i \in Scope(gate.slice) :
                           CaseValue(cases["baseline"][i], gate.metric).status
                              = CaseValue(cases["candidate"][i], gate.metric).status,
                        decision.gates[gate].coverage,
                        ~ \E i \in Scope(gate.slice) :
                            /\ CaseValue(cases["baseline"][i], gate.metric).status = "scored"
                            /\ IF gate.direction = "higher"
                               THEN CaseValue(cases["candidate"][i], gate.metric).value
                                       < CaseValue(cases["baseline"][i], gate.metric).value
                               ELSE CaseValue(cases["candidate"][i], gate.metric).value
                                       > CaseValue(cases["baseline"][i], gate.metric).value
                 PROVE  decision.gates[gate].regression
      BY DEF RegressionHasACause
    <2> DEFINE b == ValuesOf("baseline", gate)
               c == ValuesOf("candidate", gate)
               S == Scope(gate.slice)
    <2>1. /\ gate \in Gate /\ IsFiniteSet(S) /\ b \in [S -> Outcome] /\ c \in [S -> Outcome]
          /\ decision.gates[gate].coverage = CoveragePasses(Tally(b), Tally(c))
          /\ decision.gates[gate].regression = RegressionPasses(gate, Tally(b), Tally(c))
      BY <1>1, DecidedFields
    <2>2. \A i \in S : b[i].status = c[i].status
      BY DEF ValuesOf
    <2>3. Tally(b).scored > 0
      BY <2>1 DEF CoveragePasses
    <2>4. ASSUME NEW i \in S, b[i].status = "scored"
          PROVE  IF gate.direction = "higher" THEN c[i].value >= b[i].value
                 ELSE c[i].value <= b[i].value
      <3>1. b[i].value \in Int /\ c[i].value \in Int
        BY <2>1, <2>2, <2>4, OutcomeFacts
      <3>2. ~ IF gate.direction = "higher" THEN c[i].value < b[i].value
              ELSE c[i].value > b[i].value
        BY <2>4 DEF ValuesOf
      <3> HIDE DEF b, c, S
      <3> QED
        BY <3>1, <3>2
    <2> HIDE DEF b, c, S
    <2> QED
      BY <2>1, <2>2, <2>3, <2>4, RegressionOfTallies
  <1> QED
    BY <1>1, EvaluationInvariant, PTL

(***************************************************************************)
(* Distributions                                                           *)
(***************************************************************************)

\* A finite set of numbers has a least and a greatest one.
LEMMA Extremes ==
    ASSUME NEW T, T \subseteq Int, IsFiniteSet(T), T # {}
    PROVE  /\ Min(T) \in T /\ \A x \in T : Min(T) <= x
           /\ Max(T) \in T /\ \A x \in T : x <= Max(T)
  <1> DEFINE Good == {t \in SUBSET T : t = {} \/ /\ \E x \in t : \A y \in t : x <= y
                                                 /\ \E x \in t : \A y \in t : x >= y}
  <1>1. {} \in Good
    OBVIOUS
  <1>2. ASSUME NEW t \in SUBSET T, t # {}, t \ {Picked(t)} \in Good PROVE t \in Good
    <2>1. Picked(t) \in t
      BY <1>2, PickedIsIn
    <2>2. CASE t \ {Picked(t)} = {}
      <3>1. \A y \in t : y = Picked(t)
        BY <2>2
      <3> QED
        BY <2>1, <3>1
    <2>3. CASE t \ {Picked(t)} # {}
      <3>1. PICK low \in t \ {Picked(t)} : \A y \in t \ {Picked(t)} : low <= y
        BY <1>2, <2>3
      <3>2. PICK high \in t \ {Picked(t)} : \A y \in t \ {Picked(t)} : high >= y
        BY <1>2, <2>3
      <3>3. \E x \in t : \A y \in t : x <= y
        <4>1. CASE low <= Picked(t)
          BY <3>1, <4>1
        <4>2. CASE ~(low <= Picked(t))
          BY <2>1, <3>1, <4>2
        <4> QED
          BY <4>1, <4>2
      <3>4. \E x \in t : \A y \in t : x >= y
        <4>1. CASE high >= Picked(t)
          BY <3>2, <4>1
        <4>2. CASE ~(high >= Picked(t))
          BY <2>1, <3>2, <4>2
        <4> QED
          BY <4>1, <4>2
      <3> QED
        BY <3>3, <3>4
    <2> QED
      BY <2>2, <2>3
  <1>3. T \in Good
    <2> HIDE DEF Good
    <2> QED
      BY <1>1, <1>2, PartByPart
  <1>4. \E x \in T : \A y \in T : x <= y
    BY <1>3
  <1>5. \E x \in T : \A y \in T : x >= y
    BY <1>3
  <1>6. Min(T) \in T /\ \A y \in T : Min(T) <= y
    BY <1>4 DEF Min
  <1>7. Max(T) \in T /\ \A y \in T : Max(T) >= y
    BY <1>5 DEF Max
  <1> QED
    BY <1>6, <1>7

\* A finite family has finitely many values.
LEMMA RangeIsFinite ==
    ASSUME NEW S, IsFiniteSet(S), NEW v \in [S -> Int]
    PROVE  /\ Range(v) \subseteq Int /\ IsFiniteSet(Range(v))
           /\ Range(v) = {} <=> S = {}
           /\ \A i \in S : v[i] \in Range(v)
           /\ \A x \in Range(v) : \E i \in S : x = v[i]
  <1>1. /\ Range(v) \subseteq Int /\ Range(v) = {} <=> S = {}
        /\ \A i \in S : v[i] \in Range(v)
        /\ \A x \in Range(v) : \E i \in S : x = v[i]
    BY DEF Range
  <1>2. v \in Surjection(S, Range(v))
    BY <1>1 DEF Surjection
  <1>3. IsFiniteSet(Range(v))
    BY <1>2, FS_Surjection
  <1> QED
    BY <1>1, <1>3

\* A family of cases is finite, and has as many members as some number of cases.
LEMMA SizeOfFamily ==
    ASSUME NEW S \in SUBSET Cases
    PROVE  /\ IsFiniteSet(S) /\ Cardinality(S) \in Nat /\ (Cardinality(S) = 0 <=> S = {})
           /\ S # {} => Cardinality(S) \in Cases
  <1>1. IsFiniteSet(Cases) /\ Cardinality(Cases) = CaseCount
    BY CaseCountNat, FS_Interval DEF Cases
  <1>2. IsFiniteSet(S) /\ Cardinality(S) <= CaseCount
    BY <1>1, FS_Subset
  <1>3. Cardinality(S) \in Nat /\ (Cardinality(S) = 0 <=> S = {})
    BY <1>2, FS_CardinalityType, FS_EmptySet
  <1>4. ASSUME NEW n \in Nat, n <= CaseCount, n # 0 PROVE n \in Cases
    BY <1>4, CaseCountNat DEF Cases
  <1>5. S # {} => Cardinality(S) \in Cases
    BY <1>2, <1>3, <1>4
  <1> QED
    BY <1>2, <1>3, <1>5

(***************************************************************************)
(* Rounding                                                                *)
(***************************************************************************)

\* There is a nearest double.
LEMMA NearestIsNearest ==
    ASSUME NEW num \in Int, NEW den \in Int
    PROVE  /\ Nearest(num, den) \in Floats /\ Nearest(num, den) \in Int
           /\ \A g \in Floats : Distance(den * Nearest(num, den), num) <= Distance(den * g, num)
  <1> DEFINE apart == [f \in Floats |-> Distance(den * f, num)]
  <1>1. IsFiniteSet(Floats) /\ Floats # {} /\ Floats \subseteq Int
    BY DashboardAssumption DEF Span
  <1>2. apart \in [Floats -> Int]
    <2>1. \A f \in Floats : den * f \in Int
      BY <1>1
    <2>2. \A x \in Int : Distance(x, num) \in Int
      BY DEF Distance
    <2> QED
      BY <2>1, <2>2
  <1> HIDE DEF apart
  <1>3. /\ Range(apart) \subseteq Int /\ IsFiniteSet(Range(apart)) /\ Range(apart) # {}
        /\ \A f \in Floats : apart[f] \in Range(apart)
        /\ \A x \in Range(apart) : \E f \in Floats : x = apart[f]
    <2>1. IsFiniteSet(Floats) /\ Floats # {}
      BY <1>1
    <2>2. /\ Range(apart) \subseteq Int /\ IsFiniteSet(Range(apart))
          /\ Range(apart) = {} <=> Floats = {}
          /\ \A f \in Floats : apart[f] \in Range(apart)
          /\ \A x \in Range(apart) : \E f \in Floats : x = apart[f]
      BY <1>2, <2>1, RangeIsFinite
    <2> QED
      BY <2>1, <2>2
  <1> DEFINE least == Min(Range(apart))
  <1>4. least \in Range(apart) /\ \A x \in Range(apart) : least <= x
    BY <1>3, Extremes
  <1>5. PICK f \in Floats : least = apart[f]
    BY <1>3, <1>4
  <1>6. \A g \in Floats : apart[f] <= apart[g]
    BY <1>3, <1>4, <1>5
  <1>7. \E x \in Floats : \A g \in Floats : Distance(den * x, num) <= Distance(den * g, num)
    BY <1>6 DEF apart
  <1> QED
    BY <1>1, <1>7 DEF Nearest

\* Multiples keep an order.
LEMMA Multiples ==
    ASSUME NEW n \in Int, n > 0, NEW x \in Int, NEW y \in Int, x < y
    PROVE  n * x < n * y /\ n * x \in Int /\ n * y \in Int
  OBVIOUS

\* Rounding never turns an order around.
LEMMA NearestIsMonotone ==
    ASSUME NEW a \in Int, NEW b \in Int, a <= b, NEW n \in Int, n > 0
    PROVE  Nearest(a, n) <= Nearest(b, n)
  <1> DEFINE f == Nearest(a, n)
             g == Nearest(b, n)
  <1>1. /\ f \in Floats /\ f \in Int /\ g \in Floats /\ g \in Int
        /\ Distance(n * f, a) <= Distance(n * g, a)
        /\ Distance(n * g, b) <= Distance(n * f, b)
    BY NearestIsNearest
  <1> SUFFICES ASSUME g < f PROVE FALSE
    BY <1>1
  <1>2. a = b => f = g
    OBVIOUS
  <1> HIDE DEF f, g
  <1>3. n * g < n * f /\ n * g \in Int /\ n * f \in Int
    BY <1>1, Multiples
  <1>4. ASSUME NEW p \in Int, NEW q \in Int, q < p,
               Distance(p, a) <= Distance(q, a), Distance(q, b) <= Distance(p, b)
        PROVE  a = b
    BY <1>4 DEF Distance
  <1>5. a = b
    BY <1>1, <1>3, <1>4
  <1> QED
    BY <1>1, <1>2, <1>5

\* Nothing is lost of zero.
LEMMA NearestToZero ==
    ASSUME NEW n \in Int, n > 0
    PROVE  Nearest(0, n) = 0
  <1> DEFINE f == Nearest(0, n)
  <1>1. f \in Int /\ \A g \in Floats : Distance(n * f, 0) <= Distance(n * g, 0)
    BY NearestIsNearest
  <1> HIDE DEF f
  <1>2. n * 0 = 0 /\ n * f \in Int
    BY <1>1
  <1>3. n * f = 0
    <2>1. Distance(n * f, 0) <= Distance(n * 0, 0)
      BY <1>1, DashboardAssumption
    <2> QED
      BY <1>2, <2>1 DEF Distance
  <1>4. ~(f < 0) /\ ~(f > 0)
    BY <1>1, <1>2, <1>3, Multiples
  <1> QED
    BY <1>1, <1>4 DEF f

\* The mean of a family lies within its range (_quantiles), if equal values of it do.
LEMMA MeanIsWithin ==
    ASSUME NEW S \in SUBSET Cases, S # {}, NEW v \in [S -> Int],
           NEW low \in Range(v), NEW high \in Range(v),
           \A i \in S : low <= v[i] /\ v[i] <= high,
           \A i \in S : Cardinality(S) * v[i] \in Span, MeansReproduce(v)
    PROVE  LET mean == Mean[Cardinality(S)][SumFunction(v)]
           IN  low <= mean /\ mean <= high
  <1> DEFINE n == Cardinality(S)
             sum == SumFunction(v)
  <1>1. /\ IsFiniteSet(S) /\ n \in Cases /\ n \in Int /\ n > 0
        /\ low \in Int /\ high \in Int /\ sum \in Int
    <2>1. IsFiniteSet(S) /\ n \in Cases
      BY SizeOfFamily
    <2>2. \A m \in Cases : m \in Int /\ m > 0
      BY DEF Cases
    <2>3. Range(v) \subseteq Int /\ sum \in Int
      BY <2>1, RangeIsFinite, SumIsInt
    <2> QED
      BY <2>1, <2>2, <2>3
  <1>2. low * n <= sum /\ sum <= high * n
    <2>1. \A i \in S : v[i] >= low /\ v[i] <= high
      BY <1>1
    <2> QED
      BY <1>1, <2>1, SumAtLeast, SumAtMost
  <1>3. /\ Mean[n][n * low] = low /\ Mean[n][n * high] = high
        /\ n * low \in Span /\ n * high \in Span
    BY RangeIsFinite, <1>1 DEF MeansReproduce
  <1> HIDE DEF n, sum
  <1>4. low * n = n * low /\ high * n = n * high
    BY <1>1
  <1>5. n * low <= sum /\ sum <= n * high
    BY <1>2, <1>4
  <1>6. sum \in Span /\ \A x \in Span : x \in Int
    BY <1>1, <1>3, <1>5, DashboardAssumption DEF Span
  <1>7. \A x \in Span : Mean[n][x] = Nearest(Nearest(x, 1), n)
    BY <1>1 DEF Mean, Rounded
  <1>8. /\ Nearest(n * low, 1) <= Nearest(sum, 1) /\ Nearest(sum, 1) <= Nearest(n * high, 1)
        /\ Nearest(n * low, 1) \in Int /\ Nearest(sum, 1) \in Int
        /\ Nearest(n * high, 1) \in Int
    <2>1. n * low \in Int /\ n * high \in Int /\ 1 \in Int /\ 1 > 0
      BY <1>3, <1>6
    <2> QED
      BY <1>1, <1>5, <2>1, NearestIsMonotone, NearestIsNearest
  <1>9. /\ Nearest(Nearest(n * low, 1), n) <= Nearest(Nearest(sum, 1), n)
        /\ Nearest(Nearest(sum, 1), n) <= Nearest(Nearest(n * high, 1), n)
    BY <1>1, <1>8, NearestIsMonotone
  <1> QED
    BY <1>3, <1>6, <1>7, <1>9 DEF n, sum

(***************************************************************************)
(* Summaries                                                               *)
(***************************************************************************)

\* The ranks of the two percentiles, of a family with n members.
LEMMA Ranks ==
    ASSUME NEW n \in Nat
    PROVE  /\ (50 * n + 99) \div 100 \in Int /\ (95 * n + 99) \div 100 \in Int
           /\ (50 * n + 99) \div 100 <= (95 * n + 99) \div 100
           /\ (95 * n + 99) \div 100 <= n
  OBVIOUS

\* The summary of a family passes its own validator (nearest_rank, validate_summary), for
\* any number of values whose means reproduce them.
LEMMA QuantilesAreValid ==
    ASSUME NEW S \in SUBSET Cases, NEW v \in [S -> Int],
           \A i \in S : Cardinality(S) * v[i] \in Span
    PROVE  /\ MeansReproduce(v) => ValidQuantiles(Quantiles(v))
           /\ Quantiles(v).sample_count = Cardinality(S) /\ ~Quantiles(v).suppressed
           /\ S # {} => Quantiles(v).mean = Mean[Cardinality(S)][SumFunction(v)]
  <1>1. /\ Cardinality(S) \in Nat /\ (Cardinality(S) = 0 <=> S = {}) /\ DOMAIN v = S
        /\ IsFiniteSet(S)
    BY SizeOfFamily
  <1>2. CASE S = {}
    BY <1>1, <1>2 DEF ValidQuantiles, Quantiles, Withheld
  <1>3. CASE S # {}
    <2> DEFINE n == Cardinality(S)
               low == Min(Range(v))
               high == Max(Range(v))
               rank(percent) == (percent * n + 99) \div 100
               upTo(x) == {i \in S : v[i] <= x}
               reached(percent) ==
                   {x \in Range(v) : Cardinality(upTo(x)) >= rank(percent)}
    <2>1. /\ Range(v) \subseteq Int /\ IsFiniteSet(Range(v)) /\ Range(v) # {}
          /\ \A i \in S : v[i] \in Range(v)
      BY <1>1, <1>3, RangeIsFinite
    <2>2. /\ low \in Range(v) /\ low \in Int /\ high \in Range(v) /\ high \in Int
          /\ \A x \in Range(v) : low <= x /\ x <= high
      BY <2>1, Extremes
    <2>3. /\ NearestRank(v, 50) = Min(reached(50)) /\ NearestRank(v, 95) = Min(reached(95))
      BY <1>1 DEF NearestRank
    <2>4. high \in reached(95)
      <3>1. upTo(high) = S
        BY <2>1, <2>2
      <3> HIDE DEF upTo, high
      <3>2. Cardinality(upTo(high)) >= rank(95)
        BY <1>1, <3>1, Ranks
      <3> QED
        BY <2>2, <3>2
    <2>5. reached(95) \subseteq reached(50)
      <3> SUFFICES ASSUME NEW x \in reached(95) PROVE x \in reached(50)
        OBVIOUS
      <3>1. upTo(x) \in SUBSET S
        OBVIOUS
      <3>2. Cardinality(upTo(x)) \in Nat
        <4> HIDE DEF upTo
        <4> QED
          BY <1>1, <3>1, FS_Subset, FS_CardinalityType
      <3> HIDE DEF upTo
      <3> QED
        BY <1>1, <3>2, Ranks
    <2>6. /\ reached(50) \subseteq Range(v) /\ reached(95) \subseteq Range(v)
      OBVIOUS
    <2> HIDE DEF reached
    <2>7. /\ IsFiniteSet(reached(50)) /\ IsFiniteSet(reached(95))
          /\ reached(50) # {} /\ reached(95) # {}
          /\ reached(50) \subseteq Int /\ reached(95) \subseteq Int
      BY <2>1, <2>4, <2>5, <2>6, FS_Subset
    <2>8. /\ NearestRank(v, 50) \in Range(v) /\ NearestRank(v, 95) \in Range(v)
          /\ NearestRank(v, 50) <= NearestRank(v, 95)
      BY <2>3, <2>5, <2>6, <2>7, Extremes
    <2>9. MeansReproduce(v) => low <= Mean[n][SumFunction(v)] /\ Mean[n][SumFunction(v)] <= high
      <3>1. \A i \in S : low <= v[i] /\ v[i] <= high
        BY <2>1, <2>2
      <3> HIDE DEF low, high
      <3> QED
        BY <1>3, <2>2, <3>1, MeanIsWithin
    <2>10. Quantiles(v) =
              [sample_count |-> n, suppressed |-> FALSE, minimum |-> low,
               p50 |-> NearestRank(v, 50), p95 |-> NearestRank(v, 95), maximum |-> high,
               mean |-> Mean[n][SumFunction(v)]]
      BY <1>1, <1>3 DEF Quantiles
    <2>11. /\ low <= NearestRank(v, 50) /\ NearestRank(v, 95) <= high
      BY <2>2, <2>8
    <2> HIDE DEF low, high, n
    <2>12. n = Cardinality(S) /\ n # 0
      BY <1>1, <1>3 DEF n
    <2> QED
      BY <2>8, <2>9, <2>10, <2>11, <2>12 DEF ValidQuantiles
  <1> QED
    BY <1>2, <1>3

\* So does one that is withheld because it is of few measurements.
LEMMA OperationalQuantilesAreValid ==
    ASSUME NEW S \in SUBSET Cases, NEW v \in [S -> Int],
           \A i \in S : Cardinality(S) * v[i] \in Span
    PROVE  /\ MeansReproduce(v) => ValidQuantiles(OperationalQuantiles(v))
           /\ OperationalQuantiles(v).sample_count = Cardinality(S)
  <1>1. CASE DOMAIN v # {} /\ Cardinality(DOMAIN v) < SmallSample
    <2>1. OperationalQuantiles(v) = [sample_count |-> Cardinality(S), suppressed |-> TRUE]
      BY <1>1 DEF OperationalQuantiles, Withheld
    <2>2. Cardinality(S) # 0
      BY <1>1, SizeOfFamily
    <2> QED
      BY <2>1, <2>2 DEF ValidQuantiles
  <1>2. CASE ~(DOMAIN v # {} /\ Cardinality(DOMAIN v) < SmallSample)
    BY <1>2, QuantilesAreValid DEF OperationalQuantiles
  <1> QED
    BY <1>1, <1>2

\* The distribution of a run's scores has the counts and the mean of its aggregate.
LEMMA ScoresAgree ==
    ASSUME NEW S \in SUBSET Cases, NEW outcomes \in [S -> Outcome]
    PROVE  /\ MeansReproduce(ScoresIn(outcomes)) => ValidScoreValues(ScoreValues(outcomes))
           /\ Agree(Tally(outcomes), ScoreValues(outcomes))
  <1> DEFINE scored == With(outcomes, "scored")
             d == ScoreValues(outcomes)
             v == ScoresOf(outcomes)
             tally == Tally(outcomes)
  <1>1. IsFiniteSet(S) /\ scored \in SUBSET Cases
    BY SizeOfFamily DEF With
  <1>2. /\ d.attempted = Cardinality(S) /\ d.scored = Cardinality(scored)
        /\ d.skipped = Cardinality(With(outcomes, "skipped"))
        /\ d.errors = Cardinality(With(outcomes, "error"))
        /\ d.statistics = Quantiles(v) /\ v = ScoresIn(outcomes)
    BY DEF ScoreValues, ScoresIn, ScoresOf, With
  <1>3. \A i \in scored : Cardinality(scored) * v[i] \in Span
    <2>1. ASSUME NEW i \in scored PROVE v[i] \in Values
      <3>1. v[i] = outcomes[i].value /\ outcomes[i] \in Outcome /\ outcomes[i].status = "scored"
        BY DEF With, ScoresOf
      <3> QED
        BY <3>1 DEF Outcome, Scored, Skipped, Error
    <2>2. scored # {} => Cardinality(scored) \in Cases
      BY <1>1, SizeOfFamily
    <2> HIDE DEF scored, v
    <2> QED
      BY <2>1, <2>2, DashboardAssumption
  <1> HIDE DEF scored, v, d, tally
  <1>4. /\ tally.attempted = d.attempted /\ tally.scored = d.scored
        /\ tally.skipped = d.skipped /\ tally.errors = d.errors
        /\ d.attempted = d.scored + d.skipped + d.errors /\ d.scored \in Nat
        /\ IsFiniteSet(scored) /\ v \in [scored -> Int]
        /\ tally.sum = SumFunction(v)
    <2>1. /\ tally.attempted = Cardinality(S) /\ tally.scored = Cardinality(scored)
          /\ tally.skipped = Cardinality(With(outcomes, "skipped"))
          /\ tally.errors = Cardinality(With(outcomes, "error"))
          /\ tally.scored \in Nat
          /\ Cardinality(S) = tally.scored + tally.skipped + tally.errors
          /\ IsFiniteSet(scored) /\ v \in [scored -> Int] /\ tally.sum = SumFunction(v)
      BY <1>1, TallyFacts DEF scored, v, tally
    <2> QED
      BY <1>2, <2>1
  <1>5. d.scored > 0 => scored # {}
    BY <1>2, FS_EmptySet
  <1>6. /\ MeansReproduce(v) => ValidQuantiles(Quantiles(v))
        /\ Quantiles(v).sample_count = Cardinality(scored)
        /\ scored # {} => Quantiles(v).mean = Mean[Cardinality(scored)][SumFunction(v)]
    BY <1>1, <1>4, <1>3, QuantilesAreValid
  <1>7. MeansReproduce(v) => ValidScoreValues(d)
    BY <1>2, <1>4, <1>6 DEF ValidScoreValues
  <1>8. Agree(tally, d)
    BY <1>2, <1>4, <1>5, <1>6 DEF Agree
  <1> QED
    BY <1>2, <1>7, <1>8 DEF d, tally

\* The comparisons of a family of cases.
Comparisons(S, gate, b, c) == [i \in S |-> CompareCase(gate, b[i], c[i])]

\* What a comparison says of its case (GateCaseComparison).
LEMMA ComparedCase ==
    ASSUME NEW gate, NEW b, NEW c
    PROVE  /\ CompareCase(gate, b, c).baseline = b /\ CompareCase(gate, b, c).candidate = c
           /\ CompareCase(gate, b, c).delta # {} <=> Comparable(b, c)
           /\ Comparable(b, c) => CompareCase(gate, b, c).delta = {c.value - b.value}
           /\ CompareCase(gate, b, c).change = "incomparable" <=> ~Comparable(b, c)
  <1> DEFINE case == CompareCase(gate, b, c)
  <1>1. /\ case.baseline = b /\ case.candidate = c
        /\ case.delta = IF Comparable(b, c) THEN {c.value - b.value} ELSE {}
    BY DEF CompareCase
  <1>2. case.change = "incomparable" <=> ~Comparable(b, c)
    <2> DEFINE passed(value) == Passes(value.value, gate.threshold, gate.direction)
    <2>1. case.change = IF ~Comparable(b, c) THEN "incomparable"
                        ELSE CASE passed(b) /\ passed(c)  -> "unchanged_passing"
                               [] passed(b) /\ ~passed(c) -> "newly_failing"
                               [] ~passed(b) /\ passed(c) -> "newly_passing"
                               [] OTHER                   -> "unchanged_failing"
      BY DEF CompareCase
    <2> HIDE DEF case, passed
    <2>2. CASE Comparable(b, c)
      <3>1. CASE passed(b) /\ passed(c)
        BY <2>1, <2>2, <3>1
      <3>2. CASE passed(b) /\ ~passed(c)
        BY <2>1, <2>2, <3>2
      <3>3. CASE ~passed(b) /\ passed(c)
        BY <2>1, <2>2, <3>3
      <3>4. CASE ~passed(b) /\ ~passed(c)
        BY <2>1, <2>2, <3>4
      <3> QED
        BY <3>1, <3>2, <3>3, <3>4
    <2>3. CASE ~Comparable(b, c)
      BY <2>1, <2>3
    <2> QED
      BY <2>2, <2>3
  <1> HIDE DEF case
  <1>3. /\ case.delta # {} <=> Comparable(b, c)
        /\ Comparable(b, c) => case.delta = {c.value - b.value}
    BY <1>1
  <1> QED
    BY <1>1, <1>2, <1>3 DEF case

\* The distribution of the deltas is valid; when as many cases were compared as each run
\* scored and no delta was rounded, its mean is that of the difference of the aggregates.
LEMMA DeltasAgree ==
    ASSUME NEW S \in SUBSET Cases, NEW b \in [S -> Outcome], NEW c \in [S -> Outcome], NEW gate
    PROVE  LET comparisons == Comparisons(S, gate, b, c)
               d == Deltas(comparisons)
           IN  /\ MeansReproduce(DeltasIn(comparisons)) => ValidDeltas(d)
               /\ (d.incomparable = Tally(b).skipped /\ CoveragePasses(Tally(b), Tally(c))
                     /\ DeltasIn(comparisons) = ExactDeltas(comparisons)) =>
                     d.statistics.mean = Mean[d.compared][Tally(c).sum - Tally(b).sum]
  <1> DEFINE comparisons == Comparisons(S, gate, b, c)
             d == Deltas(comparisons)
             compared == ComparedIn(comparisons)
             exact == ExactDeltas(comparisons)
             delta == DeltasIn(comparisons)
             B == With(b, "scored")
             C == With(c, "scored")
             v == ScoresOf(b)
             w == ScoresOf(c)
  <1>1. DOMAIN comparisons = S /\ \A i \in S : comparisons[i] = CompareCase(gate, b[i], c[i])
    BY DEF Comparisons
  <1>2. ASSUME NEW i \in S
        PROVE  /\ comparisons[i].delta # {} <=> b[i].status = "scored" /\ c[i].status = "scored"
               /\ comparisons[i].delta # {} =>
                     comparisons[i].delta = {c[i].value - b[i].value}
    <2>1. comparisons[i] = CompareCase(gate, b[i], c[i])
      BY <1>1
    <2> HIDE DEF comparisons
    <2>2. /\ comparisons[i].delta # {} <=> Comparable(b[i], c[i])
          /\ Comparable(b[i], c[i]) => comparisons[i].delta = {c[i].value - b[i].value}
      BY <2>1, ComparedCase
    <2> QED
      BY <2>2 DEF Comparable
  <1>3. ASSUME NEW i \in compared
        PROVE  /\ i \in S /\ i \in B /\ i \in C
               /\ exact[i] = c[i].value - b[i].value
               /\ b[i].value \in Values /\ c[i].value \in Values
               /\ delta[i] = Difference[c[i].value][b[i].value] /\ delta[i] \in Int
    <2>1. i \in S /\ comparisons[i].delta # {}
      BY <1>1, <1>3 DEF ComparedIn
    <2>2. /\ b[i].status = "scored" /\ c[i].status = "scored"
          /\ comparisons[i].delta = {c[i].value - b[i].value}
      BY <1>2, <2>1
    <2>3. i \in B /\ i \in C
      BY <2>1, <2>2 DEF With
    <2>4. b[i].value \in Values /\ c[i].value \in Values
      BY <2>1, <2>2 DEF Outcome, Scored, Skipped, Error
    <2>5. exact[i] = CHOOSE x \in comparisons[i].delta : TRUE
      BY <1>3 DEF ExactDeltas
    <2>6. delta[i] = Difference[c[i].value][b[i].value]
      <3>1. comparisons[i].candidate = c[i] /\ comparisons[i].baseline = b[i]
        BY <1>1, <2>1, ComparedCase
      <3>2. delta[i] = Difference[comparisons[i].candidate.value][comparisons[i].baseline.value]
        BY <1>3 DEF DeltasIn
      <3> HIDE DEF comparisons, compared, delta
      <3> QED
        BY <3>1, <3>2
    <2> HIDE DEF comparisons, compared, delta, exact
    <2>7. exact[i] = c[i].value - b[i].value
      BY <2>2, <2>5
    <2>8. delta[i] \in Int
      <3>1. \A x, y \in Values : Difference[x][y] \in Int
        <4>1. \A x, y \in Values : Difference[x][y] \in Floats
          BY DashboardAssumption
        <4>2. \A f \in Floats : f \in Int
          BY DashboardAssumption DEF Span
        <4> QED
          BY <4>1, <4>2
      <3> QED
        BY <2>4, <2>6, <3>1
    <2> QED
      BY <2>1, <2>3, <2>4, <2>6, <2>7, <2>8
  <1>4. /\ IsFiniteSet(compared) /\ Cardinality(compared) \in Nat
        /\ Cardinality(S) \in Nat /\ Cardinality(compared) <= Cardinality(S)
        /\ compared \in SUBSET S /\ IsFiniteSet(S)
    <2>1. compared \in SUBSET S /\ IsFiniteSet(S)
      BY <1>1, SizeOfFamily DEF ComparedIn
    <2> HIDE DEF compared
    <2> QED
      BY <2>1, FS_Subset, FS_CardinalityType
  <1>5. /\ d.attempted = Cardinality(S) /\ d.compared = Cardinality(compared)
        /\ d.incomparable = Cardinality(S) - Cardinality(compared)
        /\ d.statistics = Quantiles(delta)
    BY <1>1 DEF Deltas
  <1>6. delta \in [compared -> Int] /\ DOMAIN exact = compared
    BY <1>3 DEF DeltasIn, ExactDeltas
  <1>7. /\ MeansReproduce(delta) => ValidQuantiles(Quantiles(delta))
        /\ Quantiles(delta).sample_count = Cardinality(compared)
        /\ compared # {} => Quantiles(delta).mean = Mean[Cardinality(compared)][SumFunction(delta)]
    <2> HIDE DEF delta, compared, exact
    <2>1. compared \in SUBSET Cases
      BY <1>4
    <2>2. compared # {} => Cardinality(compared) \in Cases
      BY <2>1, SizeOfFamily
    <2>3. \A i \in compared : Cardinality(compared) * delta[i] \in Span
      BY <1>3, <2>2, DashboardAssumption
    <2> QED
      BY <1>6, <2>1, <2>3, QuantilesAreValid
  <1>8. MeansReproduce(delta) => ValidDeltas(d)
    <2> HIDE DEF d, delta, compared
    <2> QED
      BY <1>4, <1>5, <1>7 DEF ValidDeltas
  <1>9. ASSUME d.incomparable = Tally(b).skipped, CoveragePasses(Tally(b), Tally(c)),
               delta = exact
        PROVE  d.statistics.mean = Mean[d.compared][Tally(c).sum - Tally(b).sum]
    <2>1. /\ Cardinality(S) = Tally(b).scored + Tally(b).skipped + Tally(b).errors
          /\ Tally(b).scored = Cardinality(B) /\ Tally(b).scored \in Nat
          /\ Tally(b).skipped \in Nat
          /\ IsFiniteSet(B) /\ v \in [B -> Int] /\ Tally(b).sum = SumFunction(v)
      BY <1>4, TallyFacts
    <2>2. /\ Tally(c).scored = Cardinality(C)
          /\ IsFiniteSet(C) /\ w \in [C -> Int] /\ Tally(c).sum = SumFunction(w)
      BY <1>4, TallyFacts
    <2>3. Tally(b).errors = 0 /\ Tally(b).scored > 0 /\ Tally(b).scored = Tally(c).scored
      BY <1>9 DEF CoveragePasses
    <2>4. Cardinality(compared) = Cardinality(B)
      <3> HIDE DEF B, C, v, w, compared, d, delta
      <3> QED
        BY <1>4, <1>5, <1>9, <2>1, <2>3
    <2>5. compared = B /\ compared = C /\ compared # {}
      <3>1. compared \in SUBSET B /\ compared \in SUBSET C
        <4> HIDE DEF B, C, compared, delta
        <4> QED
          BY <1>3
      <3> HIDE DEF B, C, v, w, compared, d, delta
      <3>2. compared = B
        BY <2>1, <2>4, <3>1, FS_Subset
      <3>3. compared = C
        BY <2>1, <2>2, <2>3, <2>4, <3>1, FS_Subset
      <3> QED
        BY <2>1, <2>3, <2>4, <3>2, <3>3, FS_EmptySet
    <2>6. \A i \in compared : v[i] = b[i].value /\ w[i] = c[i].value
      BY <2>5 DEF ScoresOf
    <2> HIDE DEF B, C, v, w, compared, d, delta, exact
    <2>7. delta = [i \in compared |-> w[i] - v[i]]
      BY <1>3, <1>6, <1>9, <2>6
    <2>8. SumFunction(delta) = SumFunction(w) - SumFunction(v)
      BY <1>4, <2>1, <2>2, <2>5, <2>7, SumOfDifferences
    <2> QED
      BY <1>5, <1>7, <2>1, <2>2, <2>5, <2>8
  <1> QED
    BY <1>8, <1>9 DEF d

\* The distribution of a run's usage is valid; each failure of the target in it is an error
\* of the metric.
LEMMA UsageAgrees ==
    ASSUME NEW S \in SUBSET Cases, NEW outcomes \in [S -> Outcome], NEW results,
           \A i \in S : results[i].failed => outcomes[i].status = "error"
    PROVE  LET d == UsageDistribution(results, S)
           IN  /\ ValidMeasurement(d)
               /\ d.target_failures <= ScoreValues(outcomes).errors
               /\ Tally(outcomes).errors = 0 => d.measured = d.attempted
  <1> DEFINE failures == {i \in S : results[i].failed}
             wrong == {i \in S : outcomes[i].status = "error"}
             rest == S \ failures
             d == UsageDistribution(results, S)
             zeros == [i \in rest |-> 0]
  <1>1. /\ d.attempted = Cardinality(S) /\ d.measured = Cardinality(rest)
        /\ d.unavailable = Cardinality(failures) /\ d.target_failures = Cardinality(failures)
        /\ d.statistics = OperationalQuantiles(zeros)
    BY DEF UsageDistribution
  <1>2. /\ ScoreValues(outcomes).errors = Cardinality(wrong)
        /\ Tally(outcomes).errors = Cardinality(wrong)
    BY DEF ScoreValues, Tally
  <1>3. /\ failures \in SUBSET wrong /\ wrong \in SUBSET S /\ failures \in SUBSET S
        /\ zeros \in [rest -> Int]
    OBVIOUS
  <1> HIDE DEF failures, wrong, zeros, d
  <1>4. /\ IsFiniteSet(S) /\ IsFiniteSet(failures) /\ IsFiniteSet(wrong)
        /\ Cardinality(failures) <= Cardinality(wrong)
        /\ Cardinality(failures) \in Nat /\ Cardinality(wrong) \in Nat
    BY <1>3, SizeOfFamily, FS_Subset, FS_CardinalityType
  <1>5. S \cap failures = failures
    BY <1>3
  <1>6. /\ IsFiniteSet(rest) /\ Cardinality(rest) = Cardinality(S) - Cardinality(failures)
        /\ Cardinality(S) \in Nat /\ Cardinality(failures) <= Cardinality(S)
    BY <1>3, <1>4, <1>5, FS_Difference, FS_Subset, FS_CardinalityType
  <1>7. rest \in SUBSET Cases /\ DOMAIN zeros = rest /\ \A i \in rest : zeros[i] = 0
    BY DEF zeros
  <1> HIDE DEF rest
  <1>8. /\ ValidQuantiles(d.statistics) /\ d.statistics.sample_count = Cardinality(rest)
    <2>1. /\ rest # {} => Cardinality(rest) \in Cases
          /\ \A n \in Cases : n \in Int /\ n > 0 /\ n * 0 = 0
      BY <1>7, SizeOfFamily DEF Cases
    <2>2. 0 \in Span
      BY DashboardAssumption
    <2>3. \A n \in Cases : Mean[n][0] = 0
      BY <2>1, <2>2, NearestToZero DEF Mean, Rounded
    <2>4. \A i \in rest : Cardinality(rest) * zeros[i] \in Span
      BY <1>7, <2>1, <2>2
    <2>5. \A x \in Range(zeros) : x = 0 /\ rest # {}
      BY <1>7 DEF Range
    <2>6. MeansReproduce(zeros)
      BY <1>7, <2>1, <2>3, <2>5 DEF MeansReproduce
    <2> QED
      BY <1>1, <1>3, <1>7, <2>4, <2>6, OperationalQuantilesAreValid
  <1>9. ValidMeasurement(d)
    BY <1>1, <1>4, <1>6, <1>8 DEF ValidMeasurement
  <1>10. Cardinality(wrong) = 0 => Cardinality(failures) = 0
    BY <1>4
  <1> QED
    BY <1>1, <1>2, <1>4, <1>6, <1>9, <1>10 DEF d

\* What is stored of a gate passes the validators that read it.
LEMMA GateResultsAreValid ==
    ASSUME NEW S, IsFiniteSet(S), S # {}, NEW b \in [S -> Outcome], NEW c \in [S -> Outcome],
           NEW gate, NEW result, result.baseline = Tally(b), result.candidate = Tally(c),
           result.cases = Comparisons(S, gate, b, c)
    PROVE  ValidGateResult(result)
  <1>1. ASSUME NEW outcomes \in [S -> Outcome]
        PROVE  /\ Tally(outcomes).attempted = Cardinality(S)
               /\ Tally(outcomes).attempted = Tally(outcomes).scored + Tally(outcomes).skipped
                                                + Tally(outcomes).errors
    BY TallyFacts
  <1>2. Cardinality(S) > 0
    BY FS_CardinalityType, FS_EmptySet
  <1>3. ASSUME NEW i \in S
        PROVE  /\ result.cases[i].delta # {} <=>
                     Comparable(result.cases[i].baseline, result.cases[i].candidate)
               /\ result.cases[i].change = "incomparable" <=>
                     ~Comparable(result.cases[i].baseline, result.cases[i].candidate)
    <2>1. result.cases[i] = CompareCase(gate, b[i], c[i])
      BY DEF Comparisons
    <2> QED
      BY <2>1, ComparedCase
  <1>4. DOMAIN result.cases = S
    BY DEF Comparisons
  <1> QED
    BY <1>1, <1>2, <1>3, <1>4 DEF ValidGateResult

\* Whatever is decided can be shown, unless the mean of equal values is rounded away from
\* them, and what is shown agrees with it (build_release_decision_distributions): for any
\* number of cases, any scores, gates and doubles.
THEOREM WhatIsShownAgrees == Spec => []DashboardAgrees
  <1>1. ASSUME EvaluationInv, NEW gate \in DOMAIN decision.gates
        PROVE  LET result == decision.gates[gate]
                   d == Distributions(gate)
               IN  /\ ValidGateResult(result)
                   /\ (\A family \in Families(result.cases) : MeansReproduce(family)) =>
                         ValidDistributions(d)
                   /\ Agree(result.baseline, d.score.baseline)
                   /\ Agree(result.candidate, d.score.candidate)
                   /\ d.usage["baseline"].target_failures <= d.score.baseline.errors
                   /\ d.usage["candidate"].target_failures <= d.score.candidate.errors
                   /\ result.coverage =>
                         \A side \in Sides : d.usage[side].measured = d.usage[side].attempted
                   /\ (d.score.delta.incomparable = d.score.baseline.skipped
                         /\ result.coverage
                         /\ DeltasIn(result.cases) = ExactDeltas(result.cases)) =>
                         d.score.delta.statistics.mean
                            = Mean[d.score.delta.compared]
                                  [result.candidate.sum - result.baseline.sum]
    <2> DEFINE S == Scope(gate.slice)
               b == ValuesOf("baseline", gate)
               c == ValuesOf("candidate", gate)
               result == decision.gates[gate]
               d == Distributions(gate)
               usage(side) == UsageDistribution(cases[side], S)
    <2>1. /\ IsFiniteSet(S) /\ S # {} /\ S \in SUBSET Cases
          /\ b \in [S -> Outcome] /\ c \in [S -> Outcome]
          /\ result = GateResult(gate)
          /\ result.baseline = Tally(b) /\ result.candidate = Tally(c)
          /\ result.coverage <=> CoveragePasses(Tally(b), Tally(c))
      BY <1>1, DecidedGate DEF GateResult, Sides
    <2>2. result.cases = Comparisons(S, gate, b, c)
      BY <2>1 DEF GateResult, Comparisons, ValuesOf
    <2>3. /\ DOMAIN result.cases = S
          /\ [i \in S |-> result.cases[i].baseline] = b
          /\ [i \in S |-> result.cases[i].candidate] = c
      <3>1. \A i \in S : result.cases[i] = CompareCase(gate, b[i], c[i])
        BY <2>2 DEF Comparisons
      <3>2. \A i \in S : result.cases[i].baseline = b[i] /\ result.cases[i].candidate = c[i]
        BY <3>1, ComparedCase
      <3>3. DOMAIN result.cases = S
        BY <2>2 DEF Comparisons
      <3> HIDE DEF S, b, c, result
      <3> QED
        BY <2>1, <3>2, <3>3
    <2>4. /\ d.score.baseline = ScoreValues(b) /\ d.score.candidate = ScoreValues(c)
          /\ d.score.delta = Deltas(Comparisons(S, gate, b, c))
          /\ \A side \in Sides : d.usage[side] = usage(side)
      <3>1. d = [score |-> ScoreDistribution(result.cases),
                 usage |-> [side \in Sides |-> usage(side)]]
        BY <2>3 DEF Distributions
      <3>2. ScoreDistribution(result.cases)
              = [baseline |-> ScoreValues(b), candidate |-> ScoreValues(c),
                 delta |-> Deltas(result.cases)]
        <4> HIDE DEF S, b, c, result, d
        <4> QED
          BY <2>3 DEF ScoreDistribution
      <3> HIDE DEF S, b, c, result, d, usage
      <3> QED
        BY <2>2, <3>1, <3>2
    <2>5. \A side \in Sides, i \in S :
             cases[side][i].failed => ValuesOf(side, gate)[i].status = "error"
      BY DEF ValuesOf, CaseValue, Error
    <2>6. /\ "baseline" \in Sides /\ "candidate" \in Sides
          /\ \A side \in Sides : side = "baseline" \/ side = "candidate"
      BY DEF Sides
    <2> HIDE DEF S, result, d, usage
    <2>7. /\ ValidMeasurement(usage("baseline"))
          /\ usage("baseline").target_failures <= ScoreValues(b).errors
          /\ Tally(b).errors = 0 => usage("baseline").measured = usage("baseline").attempted
      <3>1. \A i \in S : cases["baseline"][i].failed => b[i].status = "error"
        BY <2>5, <2>6
      <3> HIDE DEF b
      <3> QED
        BY <2>1, <3>1, UsageAgrees DEF usage
    <2>8. /\ ValidMeasurement(usage("candidate"))
          /\ usage("candidate").target_failures <= ScoreValues(c).errors
          /\ Tally(c).errors = 0 => usage("candidate").measured = usage("candidate").attempted
      <3>1. \A i \in S : cases["candidate"][i].failed => c[i].status = "error"
        BY <2>5, <2>6
      <3> HIDE DEF c
      <3> QED
        BY <2>1, <3>1, UsageAgrees DEF usage
    <2> HIDE DEF b, c
    <2>9. ValidGateResult(result)
      BY <2>1, <2>2, GateResultsAreValid
    <2>10. /\ MeansReproduce(ScoresIn(b)) => ValidScoreValues(ScoreValues(b))
           /\ MeansReproduce(ScoresIn(c)) => ValidScoreValues(ScoreValues(c))
           /\ Agree(Tally(b), ScoreValues(b)) /\ Agree(Tally(c), ScoreValues(c))
      BY <2>1, ScoresAgree
    <2>11. /\ MeansReproduce(DeltasIn(result.cases)) => ValidDeltas(d.score.delta)
           /\ (d.score.delta.incomparable = Tally(b).skipped
                 /\ CoveragePasses(Tally(b), Tally(c))
                 /\ DeltasIn(result.cases) = ExactDeltas(result.cases)) =>
                 d.score.delta.statistics.mean
                    = Mean[d.score.delta.compared][Tally(c).sum - Tally(b).sum]
      <3>1. d.score.delta = Deltas(result.cases)
        BY <2>2, <2>4
      <3> QED
        BY <2>1, <2>2, <3>1, DeltasAgree
    <2>12. (\A family \in Families(result.cases) : MeansReproduce(family)) => ValidDistributions(d)
      <3>1. Families(result.cases) = {ScoresIn(b), ScoresIn(c), DeltasIn(result.cases)}
        BY <2>3 DEF Families
      <3> QED
        BY <2>4, <2>6, <2>7, <2>8, <2>10, <2>11, <3>1 DEF ValidDistributions
    <2>13. ASSUME result.coverage, NEW side \in Sides
           PROVE  d.usage[side].measured = d.usage[side].attempted
      <3>1. Tally(b).errors = 0 /\ Tally(c).errors = 0
        BY <2>1, <2>13 DEF CoveragePasses
      <3> QED
        BY <2>4, <2>6, <2>7, <2>8, <3>1
    <2>14. Tally(b).skipped = d.score.baseline.skipped
      BY <2>4, <2>10 DEF Agree
    <2>15. (d.score.delta.incomparable = d.score.baseline.skipped /\ result.coverage
              /\ DeltasIn(result.cases) = ExactDeltas(result.cases)) =>
              d.score.delta.statistics.mean
                 = Mean[d.score.delta.compared][result.candidate.sum - result.baseline.sum]
      BY <2>1, <2>11, <2>14
    <2>16. /\ d.usage["baseline"].target_failures <= d.score.baseline.errors
           /\ d.usage["candidate"].target_failures <= d.score.candidate.errors
      BY <2>4, <2>6, <2>7, <2>8
    <2>17. /\ Agree(result.baseline, d.score.baseline)
           /\ Agree(result.candidate, d.score.candidate)
      BY <2>1, <2>4, <2>10
    <2> QED
      BY <2>9, <2>12, <2>13, <2>15, <2>16, <2>17 DEF result, d
  <1>2. EvaluationInv => DashboardAgrees
    BY <1>1 DEF DashboardAgrees
  <1> QED
    BY <1>2, EvaluationInvariant, PTL
===============================================================================
