---------------------------- MODULE LocalRunProofs ----------------------------
(***************************************************************************)
(* The safety of the commands (LocalRun), for any numbers of cases,        *)
(* tables and statements, with the evaluators of the program.              *)
(*                                                                         *)
(* The invariant of the commands is one for each command (SideInv) and     *)
(* some for what they share.  A step of one command preserves its own, and *)
(* that of the other needs to know only that no table was changed back     *)
(* under it (BystanderSide).                                               *)
(***************************************************************************)
EXTENDS LocalRun, EvaluationProofs

(***************************************************************************)
(* Results of statements                                                   *)
(***************************************************************************)

\* A result is a record of its three fields.
LEMMA ResultFields ==
    ASSUME NEW result \in Results
    PROVE  result = [error |-> result.error, columns |-> result.columns, rows |-> result.rows]
  <1>1. \A raw : ReadResult(raw)
                    = [error |-> ReadResult(raw).error, columns |-> ReadResult(raw).columns,
                       rows |-> ReadResult(raw).rows]
    BY DEF ReadResult, Failure, Result
  <1>2. \A code : Failure(code)
                    = [error |-> Failure(code).error, columns |-> Failure(code).columns,
                       rows |-> Failure(code).rows]
    BY DEF Failure
  <1> QED
    BY <1>1, <1>2 DEF Results

\* A failure with one of the codes is a result.
LEMMA FailuresAreResults ==
    ASSUME NEW code \in Codes
    PROVE  Failure(code) \in Results /\ (code # "none" => Failure(code).error # "none")
  BY DEF Results, Failure

\* Statements and tables are told apart, and only statements write or do not end.
LEMMA SandboxFacts ==
    /\ Tables \cap Statements = {} /\ Writing \subseteq Statements /\ Endless \subseteq Statements
    /\ Volatile \subseteq Statements
    /\ \A s \in Statements : TablesOf[s] \subseteq Tables
    /\ DOMAIN TableOrder \in SUBSET DOMAIN TableOrder
    /\ \A i \in DOMAIN TableOrder : TableOrder[i] \in Tables
  BY SandboxAssumption DEF Tables, ToSet

\* Whatever a statement answers, on any contents, is among the results.
LEMMA AnswersAreResults ==
    ASSUME LocalTypes, NEW s \in Tables \cup Statements, NEW raw \in Answers(s)
    PROVE  ReadResult(raw) \in Results
  <1>1. CASE s \in Tables
    BY <1>1 DEF LocalTypes, ReplayStates, ProcessStates, Answers, Results
  <1>2. CASE s \notin Tables
    BY <1>2 DEF Answers, Results
  <1> QED
    BY <1>1, <1>2

\* The result a replay of s ends with, as far as its transaction is read-only.
Outcomes(s) ==
    IF s \in Endless THEN {Failure("statement_timeout")}
    ELSE IF s \in Writing THEN {Failure("query_failed")}
    ELSE {ReadResult(raw) : raw \in Answers(s)}

\* An outcome is a result, and what writes or does not end has none without an error.
LEMMA OutcomesAreResults ==
    ASSUME LocalTypes, NEW s \in Tables \cup Statements, NEW result \in Outcomes(s)
    PROVE  result \in Results /\ (result.error = "none" => s \notin Writing \cup Endless)
  <1>1. CASE s \in Endless \/ s \in Writing
    BY <1>1, FailuresAreResults DEF Outcomes, Codes
  <1>2. CASE ~(s \in Endless \/ s \in Writing)
    BY <1>2, AnswersAreResults DEF Outcomes
  <1> QED
    BY <1>1, <1>2

\* On the reviewed contents a statement that is not volatile has one result.
LEMMA OutcomeIsReproduced ==
    ASSUME NEW s \in Statements, s \notin Volatile, Intact, NEW result \in Outcomes(s)
    PROVE  result = Reproduced(s)
  <1>1. Answers(s) = {RawOf[s]}
    BY SandboxFacts DEF Answers, Intact
  <1> QED
    BY <1>1 DEF Outcomes, Reproduced

\* The fingerprint tells a changed table from the reviewed one.
LEMMA ChangeIsSeen ==
    ASSUME NEW i \in DOMAIN TableOrder, database[TableOrder[i]] = Changed,
           NEW result \in Outcomes(TableOrder[i]), result.error = "none"
    PROVE  result.rows # Expected[i]
  <1> DEFINE raw == Content(Changed)
  <1>1. TableOrder[i] \in Tables /\ TableOrder[i] \notin Writing \cup Endless
    BY SandboxFacts
  <1>2. result = ReadResult(raw)
    BY <1>1 DEF Outcomes, Answers
  <1>3. raw.rows = <<<<Cell("int", Changed, TRUE)>>>>
    BY DEF Content
  <1>4. result.rows = [k \in DOMAIN raw.rows |->
                          [j \in DOMAIN raw.rows[k] |-> Normalized(raw.rows[k][j])]]
    <2> HIDE DEF raw
    <2> QED
      BY <1>2 DEF ReadResult, Failure, Result
  <1>5. 1 \in DOMAIN raw.rows /\ 1 \in DOMAIN raw.rows[1]
    BY <1>3
  <1>6. result.rows[1][1] = Normalized(Cell("int", Changed, TRUE))
    <2>1. raw.rows[1][1] = Cell("int", Changed, TRUE)
      BY <1>3
    <2>2. result.rows[1] = [j \in DOMAIN raw.rows[1] |-> Normalized(raw.rows[1][j])]
      BY ONLY <1>4, <1>5
    <2>3. result.rows[1][1] = Normalized(raw.rows[1][1])
      BY ONLY <1>5, <2>2
    <2> QED
      BY ONLY <2>1, <2>3
  <1>7. Expected[i] = <<<<Normalized(Cell("int", Reviewed, TRUE))>>>>
    BY DEF Expected
  <1>8. Expected[i][1][1] = Normalized(Cell("int", Reviewed, TRUE))
    BY <1>7
  <1>9. Normalized(Cell("int", Changed, TRUE)) # Normalized(Cell("int", Reviewed, TRUE))
    BY DEF Normalized, Cell, Changed, Reviewed
  <1> QED
    BY <1>6, <1>8, <1>9

(***************************************************************************)
(* Observations                                                            *)
(***************************************************************************)

\* The metrics of a replay, as a query gives them or a case without one skips them.
ReplayMarks(case, replays) ==
    \A m \in ReplayMetrics :
        replays[m] \in Marks /\ (replays[m] = Skipped <=> case.behavior # "query")

\* The evaluator marks each metric, and skips those that do not apply.
LEMMA ObservedMarks ==
    ASSUME NEW case, NEW output, NEW replays, ReplayMarks(case, replays)
    PROVE  /\ Observed(case, output, replays) \in BridgeCases
           /\ SkippedAsDue(case, Observed(case, output, replays))
           /\ ~Observed(case, output, replays).failed
           /\ Observed(case, output, replays).observations["execution_success"]
                = replays["execution_success"]
  <1> DEFINE decisions == [i \in DOMAIN output.sql |-> Policy(FlawsOf[output.sql[i]])]
             mark(m) == IF m = "decision_correct" THEN Decision(case, output)[m]
                        ELSE IF m \in InteractionMetrics THEN Interaction(case, output)[m]
                        ELSE IF m \in ReplayMetrics THEN replays[m]
                        ELSE QueryMetrics(case, output, decisions)[m]
  <1>1. Observed(case, output, replays)
          = [failed |-> FALSE, failures |-> {}, observations |-> [m \in BridgeMetrics |-> mark(m)]]
    BY DEF Observed, CaseResult
  <1>2. \A x : Verdict(x) \in Marks /\ Verdict(x) # Skipped
    BY DEF Verdict, Marks, Scored, Skipped
  <1>3. \A applies \in BOOLEAN : \A x :
           /\ Applied(applies, Verdict(x)) \in Marks
           /\ Applied(applies, Verdict(x)) = Skipped <=> ~applies
    BY <1>2 DEF Applied, Marks
  <1>4. ASSUME NEW m \in BridgeMetrics
        PROVE  mark(m) \in Marks /\ (mark(m) = Skipped <=> ~Applies(case, m))
    <2> HIDE DEF decisions
    <2>1. CASE m = "decision_correct"
      BY <1>2, <2>1 DEF Decision, Applies
    <2>2. CASE m = "clarification_correct"
      BY <1>3, <2>2 DEF Interaction, InteractionMetrics, Applies
    <2>3. CASE m = "unsafe_query_rejection"
      BY <1>3, <2>3 DEF Interaction, InteractionMetrics, Applies
    <2>4. CASE m = "parse_valid"
      BY <1>3, <2>4 DEF QueryMetrics, InteractionMetrics, ReplayMetrics, Applies
    <2>5. CASE m = "read_only_policy"
      BY <1>2, <2>5 DEF QueryMetrics, InteractionMetrics, ReplayMetrics, Applies
    <2>6. CASE m \in ReplayMetrics
      BY <2>6 DEF ReplayMarks, InteractionMetrics, ReplayMetrics, Applies
    <2> QED
      BY <2>1, <2>2, <2>3, <2>4, <2>5, <2>6 DEF BridgeMetrics, InteractionMetrics
  <1>5. /\ mark("execution_success") = replays["execution_success"]
        /\ "execution_success" \in BridgeMetrics
    BY DEF InteractionMetrics, ReplayMetrics, BridgeMetrics
  <1>6. Observed(case, output, replays) \in BridgeCases
    <2> DEFINE marks == [m \in BridgeMetrics |-> mark(m)]
    <2>1. Observed(case, output, replays) = CaseResult(FALSE, {}, marks)
      BY <1>1 DEF CaseResult
    <2>2. marks \in [BridgeMetrics -> Marks]
      <3> HIDE DEF mark
      <3> QED
        BY <1>4
    <2> HIDE DEF marks
    <2> QED
      BY <2>1, <2>2 DEF BridgeCases
  <1> HIDE DEF mark
  <1> QED
    BY <1>1, <1>4, <1>5, <1>6 DEF SkippedAsDue

\* One outcome for all metrics of a replay.
LEMMA UniformReplays ==
    ASSUME NEW case, NEW outcome \in {Error, Scored(0), Skipped},
           outcome = Skipped <=> case.behavior # "query"
    PROVE  /\ ReplayMarks(case, Replays(outcome))
           /\ Replays(outcome)["execution_success"] # Scored(1)
  BY DEF ReplayMarks, Replays, ReplayMetrics, Marks, Scored, Skipped, Error

\* The outcomes of a replay whose statements have all been executed.
LEMMA ComparedReplays ==
    ASSUME NEW case, NEW result, case.behavior = "query"
    PROVE  ReplayMarks(case, Compared(case, result))
  BY DEF ReplayMarks, Compared, ReplayMetrics, Marks, Verdict, Scored, Skipped, Error

(***************************************************************************)
(* One command                                                             *)
(***************************************************************************)

\* An answer with unsafe SQL is not recorded as executed.
SafeAnswer(case, answer) ==
    LET sql == ToSet(answer.sql)
        unsafe == {s \in sql : ~Allowed(s)} \cup (sql \cap (Writing \cup Endless))
    IN  unsafe # {} => case.observations["execution_success"] # Scored(1)

\* What the invariant says of one command.
SideInv(side) ==
    /\ Progress(side) /\ ReplayIsDue(side) /\ ReplayIsSafe(side) /\ CandidateIsSafe(side)
    /\ \A c \in DOMAIN cases[side] : SkippedAsDue(dataset[c], cases[side][c])
    /\ \A c \in 1 .. Len(cases[side]) : SafeAnswer(cases[side][c], answers[side][c])
    /\ ~restored => EvidenceIsGenuine(side)

\* The invariant is about each command, and about the decision and the offline command.
LEMMA LocalInvIsSideInv ==
    LocalInv <=> /\ LocalTypes /\ \A side \in Sides : SideInv(side)
                 /\ DecidedAtLast /\ MissingEvidenceFailsClosed /\ OfflineIsBuiltIn
  BY DEF LocalInv, SideInv, UnsafeSqlNeverSucceeds, SafeAnswer

\* What a command holds.
Held(side) == <<process[side], replay[side], cases[side], answers[side], broken[side]>>

\* Changes to the tables do not undo others, or are on record, or happen to a command
\* that is not under way.
Noticeable(side) ==
    \/ restored'
    \/ /\ ~restored
       /\ \/ ~UnderWay(side)
          \/ \A t \in Tables : database[t] = Changed => database'[t] = Changed

\* As long as no table is changed back, what is to be noticed remains so.
LEMMA NoticedLater ==
    ASSUME NEW side, LocalTypes, LocalTypes',
           \A t \in Tables : database[t] = Changed => database'[t] = Changed
    PROVE  /\ Intact' => Intact
           /\ WillBeNoticed(side) /\ UNCHANGED Held(side) => WillBeNoticed(side)'
  <1>1. Intact' => Intact
    BY DEF LocalTypes, ReplayStates, ProcessStates, Intact, Changed, Reviewed
  <1>2. ASSUME WillBeNoticed(side), UNCHANGED Held(side) PROVE WillBeNoticed(side)'
    <2>1. process'[side] = process[side] /\ replay'[side] = replay[side]
      BY <1>2 DEF Held
    <2>2. PICK i \in DOMAIN TableOrder :
            /\ database[TableOrder[i]] = Changed
            /\ i \in DOMAIN process[side].read => process[side].read[i] # Expected[i]
            /\ /\ i = Len(process[side].read) + 1
               /\ replay[side].step = "done" /\ replay[side].result.error = "none"
               => replay[side].result.rows # Expected[i]
      BY <1>2 DEF WillBeNoticed
    <2>3. database'[TableOrder[i]] = Changed
      BY <2>2, SandboxFacts
    <2> QED
      BY <2>1, <2>2, <2>3 DEF WillBeNoticed
  <1> QED
    BY <1>1, <1>2

\* Whoever does not move keeps what is known of it.
LEMMA BystanderSide ==
    ASSUME LocalTypes, LocalTypes', NEW side \in Sides, SideInv(side), UNCHANGED Held(side),
           UNCHANGED dataset, Noticeable(side)
    PROVE  SideInv(side)'
  <1>1. /\ process'[side] = process[side] /\ replay'[side] = replay[side]
        /\ cases'[side] = cases[side] /\ answers'[side] = answers[side]
        /\ broken'[side] = broken[side] /\ dataset' = dataset
    BY DEF Held
  <1>2. Progress(side)' /\ ReplayIsDue(side)' /\ ReplayIsSafe(side)' /\ CandidateIsSafe(side)'
    BY <1>1 DEF SideInv, Progress, ReplayIsDue, ReplayIsSafe, CandidateIsSafe, Case
  <1>3. Genuine(side)' <=> Genuine(side)
    BY <1>1 DEF Genuine
  <1>4. ASSUME ~restored' PROVE EvidenceIsGenuine(side)'
    <2>1. EvidenceIsGenuine(side)
      BY <1>4 DEF SideInv, Noticeable
    <2>2. CASE ~UnderWay(side)
      BY <1>1, <1>3, <2>1, <2>2 DEF EvidenceIsGenuine, UnderWay
    <2>3. CASE \A t \in Tables : database[t] = Changed => database'[t] = Changed
      <3>1. /\ Intact' => Intact
            /\ WillBeNoticed(side) => WillBeNoticed(side)'
        BY <2>3, NoticedLater
      <3> QED
        BY <1>1, <1>3, <2>1, <3>1 DEF EvidenceIsGenuine
    <2> QED
      BY <1>4, <2>2, <2>3 DEF Noticeable
  <1> QED
    BY <1>1, <1>2, <1>4 DEF SideInv

\* A command that is not under way has nothing to account for.
LEMMA RestingSide ==
    ASSUME NEW side \in Sides, process'[side].phase \in {"start", "failed", "finished"},
           process'[side].read = <<>>, process'[side].executed = 0,
           cases'[side] = <<>>, answers'[side] = <<>>, replay'[side].step = "idle"
    PROVE  SideInv(side)'
  BY DEF SideInv, Progress, ReplayIsDue, ReplayIsSafe, CandidateIsSafe, EvidenceIsGenuine

\* The tables are numbered.
LEMMA OrderIsSequence ==
    DOMAIN TableOrder = 1 .. Len(TableOrder) /\ Len(TableOrder) \in Nat
  BY SandboxAssumption

\* What is assumed of a dataset.
LEMMA DatasetFacts ==
    ASSUME NEW data \in Datasets
    PROVE  /\ DOMAIN data = Cases /\ data # <<>>
           /\ \A c \in Cases : data[c].reference \in Statements \cup {"none"}
  BY LocalAssumption

\* The case at which a command is has passed the check before the first one.
LEMMA CurrentCase ==
    ASSUME LocalTypes, NEW side \in Sides, SideInv(side),
           process[side].phase \in {"invoke", "reference", "candidate"}
    PROVE  /\ Len(cases[side]) + 1 \in Cases /\ Len(cases[side]) \in Nat
           /\ Case(side) = dataset[Len(cases[side]) + 1]
           /\ Case(side).behavior = "query" =>
                 Case(side).reference \in Statements /\ Allowed(Case(side).reference)
  <1>1. /\ Len(cases[side]) < CaseCount /\ dataset # <<>> /\ Preflight(dataset)
        /\ Len(cases[side]) \in Nat
    BY DEF SideInv, Progress, LocalTypes, ReplayStates, ProcessStates
  <1>2. Len(cases[side]) + 1 \in Cases
    BY <1>1, CaseCountNat DEF Cases
  <1>3. dataset \in Datasets
    BY <1>1 DEF LocalTypes, ReplayStates, ProcessStates
  <1>4. dataset[Len(cases[side]) + 1].behavior = "query" =>
           /\ dataset[Len(cases[side]) + 1].reference \in Statements
           /\ Allowed(dataset[Len(cases[side]) + 1].reference)
    BY <1>1, <1>2, <1>3, DatasetFacts DEF Preflight, ValidCase
  <1> QED
    BY <1>1, <1>2, <1>4 DEF Case

\* The statement that is due has an outcome to wait for.
LEMMA DueStatement ==
    ASSUME LocalTypes, NEW side \in Sides, SideInv(side), replay[side].step # "idle"
    PROVE  /\ process[side].phase \in {"before", "after"} => replay[side].sql \in Tables
           /\ process[side].phase \in {"reference", "candidate"} => replay[side].sql \in Statements
           /\ process[side].phase \in {"before", "after", "reference", "candidate"}
  <1>1. process[side].phase \in {"before", "after", "reference", "candidate"}
    BY DEF SideInv, ReplayIsDue
  <1>2. CASE process[side].phase \in {"before", "after"}
    <2>1. /\ Len(process[side].read) < Len(TableOrder)
          /\ process[side].read \in Seq({result.rows : result \in Results})
          /\ replay[side].sql = TableOrder[Len(process[side].read) + 1]
      BY <1>2 DEF SideInv, ReplayIsDue, LocalTypes, ReplayStates, ProcessStates
    <2> QED
      BY <1>2, <2>1, SandboxFacts, OrderIsSequence
  <1>3. CASE process[side].phase = "reference"
    <2>1. /\ replay[side].sql = Case(side).reference /\ Case(side).behavior = "query"
          /\ dataset # <<>> /\ Preflight(dataset)
      BY <1>3 DEF SideInv, ReplayIsDue, Progress, Case
    <2> QED
      BY <1>3, <2>1, CurrentCase
  <1>4. CASE process[side].phase = "candidate"
    <2>1. /\ replay[side].sql = process[side].output.sql[process[side].executed + 1]
          /\ process[side].executed < Len(process[side].output.sql)
          /\ process[side].output.sql \in Seq(Statements) /\ process[side].executed \in Nat
      BY <1>4 DEF SideInv, ReplayIsDue, LocalTypes, ReplayStates, ProcessStates, Outputs
    <2> QED
      BY <1>4, <2>1
  <1> QED
    BY <1>1, <1>2, <1>3, <1>4

\* What stays while a replay makes its steps.
Waiting(side) ==
    /\ process'[side] = process[side] /\ cases'[side] = cases[side]
    /\ answers'[side] = answers[side]
    /\ UNCHANGED <<dataset, database, restored>>

\* The invariant of a command that only waits depends on its replay.
LEMMA WaitingSide ==
    ASSUME LocalTypes, NEW side \in Sides, SideInv(side), Waiting(side),
           broken[side] \subseteq broken'[side],
           ReplayIsDue(side)', ReplayIsSafe(side)',
           ~restored /\ process[side].phase = "after" /\ WillBeNoticed(side) =>
              WillBeNoticed(side)',
           /\ ~restored /\ Intact /\ process[side].phase \in {"reference", "candidate"}
           /\ Len(cases[side]) + 1 \notin broken'[side] /\ replay'[side].step = "done"
           /\ replay'[side].sql \notin Volatile
           => replay'[side].result = Reproduced(replay'[side].sql)
    PROVE  SideInv(side)'
  <1>1. /\ process'[side] = process[side] /\ cases'[side] = cases[side]
        /\ answers'[side] = answers[side] /\ dataset' = dataset /\ database' = database
        /\ restored' = restored
    BY DEF Waiting
  <1>2. Progress(side)' /\ CandidateIsSafe(side)'
    BY <1>1 DEF SideInv, Progress, CandidateIsSafe
  <1>3. Genuine(side) => Genuine(side)'
    BY <1>1 DEF Genuine
  <1>4. ASSUME ~restored' PROVE EvidenceIsGenuine(side)'
    <2>1. EvidenceIsGenuine(side) /\ (Intact' <=> Intact)
      BY <1>1, <1>4 DEF SideInv, Intact
    <2> QED
      BY <1>1, <1>3, <1>4, <2>1 DEF EvidenceIsGenuine
  <1> QED
    BY <1>1, <1>2, <1>4 DEF SideInv

\* A call is made for the statement that is due, and what the policy refuses has failed.
LEMMA CallSide ==
    ASSUME LocalTypes, NEW side \in Sides, SideInv(side), Waiting(side), NEW s, Execute(side, s),
           broken'[side] = broken[side],
           \/ /\ process[side].phase \in {"before", "after"}
              /\ Len(process[side].read) < Len(TableOrder)
              /\ s = TableOrder[Len(process[side].read) + 1]
           \/ process[side].phase = "reference" /\ s = Case(side).reference
           \/ /\ process[side].phase = "candidate"
              /\ s = process[side].output.sql[process[side].executed + 1]
    PROVE  SideInv(side)'
  <1>1. replay[side].step = "idle" /\ side \in Clients
    BY LocalAssumption DEF Execute, At
  <1>2. replay'[side] = IF Allowed(s) THEN [Idle EXCEPT !.step = "open", !.sql = s]
                        ELSE [Idle EXCEPT !.step = "done", !.sql = s,
                                          !.result = Failure("policy_rejected")]
    BY <1>1 DEF Execute, LocalTypes, ReplayStates, ProcessStates
  <1>3. /\ replay'[side].sql = s
        /\ replay'[side].step = IF Allowed(s) THEN "open" ELSE "done"
        /\ ~Allowed(s) => replay'[side].result.error # "none"
    BY <1>2 DEF Idle, Failure
  <1>4. process'[side] = process[side] /\ Case(side)' = Case(side)
    BY DEF Waiting, Case
  <1>5. process[side].phase \in {"reference", "candidate"} => Allowed(s)
    <2>1. CASE process[side].phase = "reference"
      BY <2>1, CurrentCase DEF SideInv, Progress, Case
    <2>2. CASE process[side].phase = "candidate"
      <3>1. process[side].output.sql \in Seq(Statements) /\ process[side].executed \in Nat
        BY DEF LocalTypes, ReplayStates, ProcessStates, Outputs
      <3>2. /\ process[side].executed < Len(process[side].output.sql)
            /\ \A i \in DOMAIN process[side].output.sql : Allowed(process[side].output.sql[i])
        BY <2>2 DEF SideInv, CandidateIsSafe
      <3> QED
        BY <2>2, <3>1, <3>2
    <2> QED
      BY <2>1, <2>2
  <1>6. ReplayIsDue(side)'
    <2>1. process[side].phase = "candidate" =>
             process[side].executed < Len(process[side].output.sql)
      BY DEF SideInv, CandidateIsSafe
    <2> QED
      BY <1>3, <1>4, <2>1 DEF ReplayIsDue
  <1>7. ReplayIsSafe(side)'
    BY <1>3 DEF ReplayIsSafe
  <1>8. WillBeNoticed(side) => WillBeNoticed(side)'
    BY <1>3, <1>4 DEF Waiting, WillBeNoticed
  <1> QED
    BY <1>3, <1>5, <1>6, <1>7, <1>8, WaitingSide

\* The transaction begins, read-only and bounded.
LEMMA BeginSide ==
    ASSUME LocalTypes, NEW side \in Sides, SideInv(side), Waiting(side), Begin(side),
           broken'[side] = broken[side]
    PROVE  SideInv(side)'
  <1>1. /\ replay[side].step = "open" /\ replay'[side].step = "query"
        /\ replay'[side].sql = replay[side].sql /\ replay'[side].readonly /\ replay'[side].bounded
    BY LocalAssumption DEF Begin, At, LocalTypes, ReplayStates, ProcessStates
  <1>2. ReplayIsDue(side)'
    BY <1>1 DEF SideInv, ReplayIsDue, Waiting, Case
  <1>3. ReplayIsSafe(side)'
    BY <1>1 DEF SideInv, ReplayIsSafe
  <1>4. WillBeNoticed(side) => WillBeNoticed(side)'
    BY <1>1 DEF Waiting, WillBeNoticed
  <1> QED
    BY <1>1, <1>2, <1>3, <1>4, WaitingSide

\* A replay ends with what its statement answers, or fails.
LEMMA EndedSide ==
    ASSUME LocalTypes, NEW side \in Sides, SideInv(side), Waiting(side),
           replay[side].step # "idle", replay'[side].step = "done",
           replay'[side].sql = replay[side].sql, broken[side] \subseteq broken'[side],
           \/ replay'[side].result \in Outcomes(replay[side].sql)
           \/ /\ replay'[side].result.error # "none"
              /\ process[side].phase \in {"reference", "candidate"} =>
                    Len(cases[side]) + 1 \in broken'[side]
    PROVE  SideInv(side)'
  <1>1. ReplayIsDue(side)'
    BY DEF SideInv, ReplayIsDue, Waiting, Case
  <1>2. replay[side].sql \in Tables \cup Statements
    BY DueStatement
  <1>3. ReplayIsSafe(side)'
    <2>1. replay'[side].result.error = "none" => replay[side].sql \notin Writing \cup Endless
      BY <1>2, OutcomesAreResults
    <2> QED
      BY <2>1 DEF ReplayIsSafe
  <1>4. ASSUME process[side].phase = "after", WillBeNoticed(side) PROVE WillBeNoticed(side)'
    <2>1. PICK i \in DOMAIN TableOrder :
            /\ database[TableOrder[i]] = Changed
            /\ i \in DOMAIN process[side].read => process[side].read[i] # Expected[i]
      BY <1>4 DEF WillBeNoticed
    <2>2. ASSUME i = Len(process[side].read) + 1, replay'[side].result.error = "none"
          PROVE  replay'[side].result.rows # Expected[i]
      <3>1. replay[side].sql = TableOrder[i]
        BY <1>4, <2>2 DEF SideInv, ReplayIsDue
      <3>2. replay'[side].result \in Outcomes(TableOrder[i])
        BY <2>2, <3>1
      <3> QED
        BY <2>1, <2>2, <3>2, ChangeIsSeen
    <2> QED
      BY <2>1, <2>2 DEF WillBeNoticed, Waiting
  <1>5. ASSUME Intact, process[side].phase \in {"reference", "candidate"},
               Len(cases[side]) + 1 \notin broken'[side], replay'[side].sql \notin Volatile
        PROVE  replay'[side].result = Reproduced(replay'[side].sql)
    BY <1>5, DueStatement, OutcomeIsReproduced
  <1> QED
    BY <1>1, <1>3, <1>4, <1>5, WaitingSide

\* What a move of one command leaves alone.
Untouched(side) ==
    cases'[side] = cases[side] /\ answers'[side] = answers[side] /\ broken'[side] = broken[side]
        /\ UNCHANGED <<dataset, database, restored>>

\* Another table is read for the fingerprint.
LEMMA FingerprintSide ==
    ASSUME LocalTypes, NEW side \in Sides, SideInv(side), Untouched(side),
           process[side].phase \in {"before", "after"},
           replay[side].step = "done", replay[side].result.error = "none",
           process'[side] = [process[side] EXCEPT !.read = Append(@, replay[side].result.rows)],
           replay'[side].step = "idle"
    PROVE  SideInv(side)'
  <1> DEFINE read == process[side].read
             rows == replay[side].result.rows
             all == {result.rows : result \in Results}
  <1>1. read \in Seq(all) /\ rows \in all
    BY LocalAssumption DEF LocalTypes, ReplayStates, ProcessStates
  <1>2. /\ process'[side].phase = process[side].phase
        /\ process'[side].output = process[side].output
        /\ process'[side].executed = process[side].executed
        /\ process'[side].read = Append(read, rows)
    BY DEF LocalTypes, ReplayStates, ProcessStates
  <1>3. Progress(side)'
    BY <1>2 DEF SideInv, Progress, Untouched
  <1>4. ReplayIsDue(side)' /\ ReplayIsSafe(side)' /\ CandidateIsSafe(side)'
    BY <1>2 DEF ReplayIsDue, ReplayIsSafe, CandidateIsSafe
  <1>5. ASSUME process[side].phase = "after", WillBeNoticed(side) PROVE WillBeNoticed(side)'
    <2>1. PICK i \in DOMAIN TableOrder :
            /\ database[TableOrder[i]] = Changed
            /\ i \in DOMAIN read => read[i] # Expected[i]
            /\ i = Len(read) + 1 => rows # Expected[i]
      BY <1>5 DEF WillBeNoticed
    <2> HIDE DEF read, rows, all
    <2>2. /\ DOMAIN Append(read, rows) = 1 .. Len(read) + 1 /\ DOMAIN read = 1 .. Len(read)
          /\ Len(read) \in Nat /\ Append(read, rows)[Len(read) + 1] = rows
          /\ \A k \in DOMAIN read : Append(read, rows)[k] = read[k]
      BY <1>1, Appended
    <2>3. i \in DOMAIN Append(read, rows) => Append(read, rows)[i] # Expected[i]
      BY <2>1, <2>2
    <2> QED
      BY <1>2, <2>1, <2>3 DEF WillBeNoticed, Untouched
  <1>6. Genuine(side) => Genuine(side)'
    BY DEF Genuine, Untouched
  <1>7. ~restored' => EvidenceIsGenuine(side)'
    BY <1>2, <1>5, <1>6 DEF SideInv, EvidenceIsGenuine, Untouched
  <1> QED
    BY <1>3, <1>4, <1>7 DEF SideInv, Untouched

\* The options are accepted, or the first fingerprint and the target.
LEMMA EarlySide ==
    ASSUME LocalTypes, NEW side \in Sides, SideInv(side), Untouched(side),
           replay'[side] = replay[side], replay[side].step = "idle",
           process'[side].read = <<>>, process'[side].executed = 0,
           \/ /\ process[side].phase = "start" /\ process'[side].phase = "before"
              /\ dataset # <<>> /\ Preflight(dataset)
           \/ process[side].phase = "before" /\ process'[side].phase = "invoke"
    PROVE  SideInv(side)'
  <1>1. /\ Len(cases[side]) = 0 /\ Len(answers[side]) = 0 /\ dataset # <<>> /\ Preflight(dataset)
        /\ cases[side] = <<>>
    BY DEF SideInv, Progress, LocalTypes, ReplayStates, ProcessStates
  <1>2. Progress(side)'
    BY <1>1, CaseCountNat DEF Progress, Untouched
  <1>3. ReplayIsDue(side)' /\ ReplayIsSafe(side)' /\ CandidateIsSafe(side)'
    BY DEF ReplayIsDue, ReplayIsSafe, CandidateIsSafe
  <1>4. Genuine(side)'
    BY <1>1 DEF Genuine, Untouched
  <1>5. ~restored' => EvidenceIsGenuine(side)'
    BY <1>4 DEF EvidenceIsGenuine
  <1> QED
    BY <1>1, <1>2, <1>3, <1>5 DEF SideInv, Untouched

\* The target answered with a query where one is expected.
LEMMA QuerySide ==
    ASSUME LocalTypes, NEW side \in Sides, SideInv(side), Untouched(side),
           replay'[side] = replay[side], process[side].phase = "invoke",
           Case(side).behavior = "query", NEW output,
           output.kind = "query", output.sql # <<>>,
           process'[side] = [process[side] EXCEPT !.phase = "reference", !.output = output]
    PROVE  SideInv(side)'
  <1>1. /\ process'[side].phase = "reference" /\ process'[side].output = output
        /\ process'[side].executed = process[side].executed
        /\ process'[side].read = process[side].read
    BY DEF LocalTypes, ReplayStates, ProcessStates
  <1>2. replay[side].step = "idle"
    BY DEF SideInv, ReplayIsDue
  <1>3. Progress(side)'
    BY <1>1 DEF SideInv, Progress, Untouched, Case
  <1>4. ReplayIsDue(side)' /\ ReplayIsSafe(side)' /\ CandidateIsSafe(side)'
    BY <1>1, <1>2 DEF ReplayIsDue, ReplayIsSafe, CandidateIsSafe
  <1>5. (Intact' <=> Intact) /\ (Genuine(side) => Genuine(side)')
    BY DEF Genuine, Intact, Untouched
  <1>6. ~restored' => EvidenceIsGenuine(side)'
    BY <1>1, <1>2, <1>5 DEF SideInv, EvidenceIsGenuine, Untouched
  <1> QED
    BY <1>3, <1>4, <1>6 DEF SideInv, Untouched

\* A replay of a steady case is one of a statement that is not volatile.
LEMMA DueIsSteady ==
    ASSUME LocalTypes, NEW side \in Sides, SideInv(side), replay[side].step = "done",
           process[side].phase \in {"reference", "candidate"},
           Steady(Case(side), process[side].output)
    PROVE  replay[side].sql \notin Volatile
  <1>1. CASE process[side].phase = "reference"
    BY <1>1 DEF SideInv, ReplayIsDue, Steady
  <1>2. CASE process[side].phase = "candidate"
    <2> DEFINE sql == process[side].output.sql
               next == process[side].executed + 1
    <2>1. sql \in Seq(Statements) /\ process[side].executed \in Nat
      BY DEF LocalTypes, ReplayStates, ProcessStates, Outputs
    <2>2. process[side].executed < Len(sql) /\ replay[side].sql = sql[next]
      BY <1>2 DEF SideInv, CandidateIsSafe, ReplayIsDue
    <2>3. next \in DOMAIN sql
      BY <2>1, <2>2
    <2>4. replay[side].sql \in ToSet(sql)
      BY <2>2, <2>3 DEF ToSet
    <2> QED
      BY <2>4 DEF Steady
  <1> QED
    BY <1>1, <1>2

\* The reference was reproduced and the policy allows the candidate.
LEMMA CandidateSide ==
    ASSUME LocalTypes, NEW side \in Sides, SideInv(side), Untouched(side),
           process[side].phase = "reference", replay[side].step = "done",
           replay'[side].step = "idle", Verified(Case(side), replay[side].result),
           \A i \in DOMAIN process[side].output.sql : Allowed(process[side].output.sql[i]),
           process'[side] = [process[side] EXCEPT !.phase = "candidate"]
    PROVE  SideInv(side)'
  <1>1. /\ process'[side].phase = "candidate" /\ process'[side].output = process[side].output
        /\ process'[side].executed = 0 /\ process[side].executed = 0
        /\ process'[side].read = process[side].read
        /\ process[side].output.sql \in Seq(Statements) /\ process[side].output.sql # <<>>
    BY DEF LocalTypes, ReplayStates, ProcessStates, Outputs, SideInv, Progress
  <1>2. Len(process[side].output.sql) > 0
    BY <1>1
  <1>3. Progress(side)'
    BY <1>1 DEF SideInv, Progress, Untouched, Case
  <1>4. ReplayIsDue(side)' /\ ReplayIsSafe(side)' /\ CandidateIsSafe(side)'
    BY <1>1, <1>2 DEF ReplayIsDue, ReplayIsSafe, CandidateIsSafe
  <1>5. (Intact' <=> Intact) /\ (Genuine(side) => Genuine(side)')
    BY DEF Genuine, Intact, Untouched
  <1>6. replay[side].sql = Case(side).reference /\ Case(side) = dataset[Len(cases[side]) + 1]
    BY DEF SideInv, ReplayIsDue, Case
  <1>7. Steady(Case(side), process[side].output) => replay[side].sql \notin Volatile
    BY DueIsSteady
  <1>8. ~restored' => EvidenceIsGenuine(side)'
    BY <1>1, <1>5, <1>6, <1>7 DEF SideInv, EvidenceIsGenuine, Untouched
  <1> QED
    BY <1>3, <1>4, <1>8 DEF SideInv, Untouched

\* A statement of the candidate was executed, and another one follows.
LEMMA AnotherSide ==
    ASSUME LocalTypes, NEW side \in Sides, SideInv(side), Untouched(side),
           process[side].phase = "candidate", replay[side].step = "done",
           replay'[side].step = "idle", replay[side].result.error = "none",
           process[side].executed + 1 < Len(process[side].output.sql),
           process'[side] = [process[side] EXCEPT !.executed = @ + 1]
    PROVE  SideInv(side)'
  <1>1. /\ process'[side].phase = "candidate" /\ process'[side].output = process[side].output
        /\ process[side].executed \in Nat /\ process'[side].executed = process[side].executed + 1
        /\ process'[side].read = process[side].read
    <2>1. process[side] \in ProcessStates
      BY DEF LocalTypes
    <2>2. process[side].executed \in Nat
      BY <2>1 DEF ProcessStates
    <2> QED
      BY <2>1, <2>2 DEF ProcessStates
  <1>2. /\ replay[side].sql = process[side].output.sql[process[side].executed + 1]
        /\ replay[side].sql \notin Writing \cup Endless
    BY DEF SideInv, ReplayIsDue, ReplayIsSafe
  <1>3. Progress(side)'
    BY <1>1 DEF SideInv, Progress, Untouched, Case
  <1>4. \A i \in 1 .. process'[side].executed :
           i \in 1 .. process[side].executed \/ i = process[side].executed + 1
    BY <1>1
  <1>5. ReplayIsDue(side)' /\ ReplayIsSafe(side)' /\ CandidateIsSafe(side)'
    BY <1>1, <1>2, <1>4 DEF SideInv, ReplayIsDue, ReplayIsSafe, CandidateIsSafe
  <1>6. (Intact' <=> Intact) /\ (Genuine(side) => Genuine(side)')
    BY DEF Genuine, Intact, Untouched
  <1>7. ASSUME ~restored' PROVE EvidenceIsGenuine(side)'
    <2>1. EvidenceIsGenuine(side)
      BY <1>7 DEF SideInv, Untouched
    <2>2. ASSUME Intact, Len(cases[side]) + 1 \notin broken[side],
                 Steady(Case(side), process[side].output),
                 NEW i \in 1 .. process'[side].executed
          PROVE  Reproduced(process[side].output.sql[i]).error = "none"
      <3>1. replay[side].sql \notin Volatile
        BY <2>2, DueIsSteady
      <3> QED
        BY <1>1, <1>2, <1>4, <2>1, <2>2, <3>1 DEF EvidenceIsGenuine, Case
    <2> QED
      BY <1>1, <1>6, <2>1, <2>2 DEF EvidenceIsGenuine, Untouched, Case
  <1> QED
    BY <1>3, <1>5, <1>7 DEF SideInv, Untouched

\* The second fingerprint is the expected one: whatever was changed was not noticed only
\* because there was nothing to notice.
LEMMA SavedSide ==
    ASSUME LocalTypes, NEW side \in Sides, SideInv(side), Untouched(side),
           process[side].phase = "after", replay[side].step = "idle",
           replay'[side] = replay[side],
           Len(process[side].read) = Len(TableOrder), process[side].read = Expected,
           process'[side].phase = "saved", process'[side].read = <<>>,
           process'[side].executed = process[side].executed
    PROVE  SideInv(side)'
  <1>1. Progress(side)'
    BY DEF SideInv, Progress, Untouched
  <1>2. ReplayIsDue(side)' /\ ReplayIsSafe(side)' /\ CandidateIsSafe(side)'
    BY DEF ReplayIsDue, ReplayIsSafe, CandidateIsSafe
  <1>3. ~WillBeNoticed(side)
    BY DEF WillBeNoticed, Expected
  <1>4. Genuine(side) => Genuine(side)'
    BY DEF Genuine, Untouched
  <1>5. ~restored' => EvidenceIsGenuine(side)'
    BY <1>3, <1>4 DEF SideInv, EvidenceIsGenuine, Untouched
  <1> QED
    BY <1>1, <1>2, <1>5 DEF SideInv, Untouched

\* The output that stands for none has no statement.
LEMMA InvalidFacts ==
    Invalid \in Outputs /\ \A case : SafeAnswer(case, Invalid)
  <1>1. Invalid = [kind |-> "invalid", sql |-> <<>>, code |-> "none"]
    BY DEF Invalid, Output
  <1>2. Invalid \in Outputs
    BY <1>1 DEF Outputs
  <1>3. ToSet(Invalid.sql) = {}
    BY <1>1 DEF ToSet
  <1> QED
    BY <1>2, <1>3 DEF SafeAnswer

\* A case is recorded with its answer, and the command goes on to the next one or to the
\* second fingerprint.
LEMMA RecordSide ==
    ASSUME LocalTypes, NEW side \in Sides, SideInv(side),
           NEW case \in BridgeCases, NEW answer \in Outputs,
           process[side].phase \in {"invoke", "reference", "candidate"},
           cases'[side] = Append(cases[side], case),
           answers'[side] = Append(answers[side], answer),
           broken'[side] = broken[side], UNCHANGED <<dataset, database, restored>>,
           process'[side] = [process[side] EXCEPT !.phase = AfterCase(side), !.executed = 0,
                                                  !.output = Invalid],
           replay'[side].step = "idle",
           SkippedAsDue(dataset[Len(cases[side]) + 1], case), SafeAnswer(case, answer),
           ~restored /\ Intact =>
              \/ Len(cases[side]) + 1 \in broken[side] \/ answer = Invalid
              \/ ~Steady(dataset[Len(cases[side]) + 1], answer)
              \/ case = Undisturbed(dataset[Len(cases[side]) + 1], answer)
    PROVE  SideInv(side)'
  <1> DEFINE n == Len(cases[side])
  <1>1. /\ process'[side].phase = AfterCase(side) /\ process'[side].executed = 0
        /\ process'[side].read = process[side].read
    BY DEF LocalTypes, ReplayStates, ProcessStates
  <1>2. /\ process[side].read = <<>> /\ n < CaseCount /\ Len(answers[side]) = n /\ n \in Nat
        /\ dataset # <<>> /\ Preflight(dataset)
        /\ cases[side] \in Seq(BridgeCases) /\ answers[side] \in Seq(Outputs)
    BY DEF SideInv, Progress, LocalTypes, ReplayStates, ProcessStates
  <1>3. /\ Len(cases'[side]) = n + 1 /\ Len(answers'[side]) = n + 1
        /\ DOMAIN cases[side] = 1 .. n /\ DOMAIN cases'[side] = 1 .. n + 1
        /\ \A c \in 1 .. n :
              cases'[side][c] = cases[side][c] /\ answers'[side][c] = answers[side][c]
        /\ cases'[side][n + 1] = case /\ answers'[side][n + 1] = answer
    <2> HIDE DEF n
    <2>1. /\ Len(Append(cases[side], case)) = n + 1 /\ Len(Append(answers[side], answer)) = n + 1
          /\ DOMAIN Append(cases[side], case) = 1 .. n + 1
          /\ DOMAIN cases[side] = 1 .. n /\ DOMAIN answers[side] = 1 .. n
          /\ \A c \in 1 .. n : /\ Append(cases[side], case)[c] = cases[side][c]
                               /\ Append(answers[side], answer)[c] = answers[side][c]
          /\ Append(cases[side], case)[n + 1] = case
          /\ Append(answers[side], answer)[n + 1] = answer
      BY <1>2, Appended DEF n
    <2> QED
      BY <2>1
  <1> HIDE DEF n
  <1>4. AfterCase(side) = IF n + 1 = CaseCount THEN "after" ELSE "invoke"
    BY DEF AfterCase, n
  <1>5. Progress(side)'
    BY <1>1, <1>2, <1>3, <1>4, CaseCountNat DEF Progress
  <1>6. ReplayIsDue(side)' /\ ReplayIsSafe(side)' /\ CandidateIsSafe(side)'
    BY <1>1, <1>4 DEF ReplayIsDue, ReplayIsSafe, CandidateIsSafe
  <1>7. \A c \in 1 .. n + 1 : c \in 1 .. n \/ c = n + 1
    BY <1>2
  <1>8. \A c \in DOMAIN cases'[side] : SkippedAsDue(dataset'[c], cases'[side][c])
    BY <1>3, <1>7 DEF SideInv, n
  <1>9. \A c \in 1 .. Len(cases'[side]) : SafeAnswer(cases'[side][c], answers'[side][c])
    BY <1>3, <1>7 DEF SideInv, n
  <1>10. ASSUME ~restored' PROVE EvidenceIsGenuine(side)'
    <2>1. ASSUME Intact PROVE Genuine(side)'
      <3>1. Genuine(side)
        BY <1>10, <2>1 DEF SideInv, EvidenceIsGenuine
      <3>2. \/ n + 1 \in broken[side] \/ answer = Invalid \/ ~Steady(dataset[n + 1], answer)
            \/ case = Undisturbed(dataset[n + 1], answer)
        BY <1>10, <2>1 DEF n
      <3> QED
        BY <1>3, <1>7, <3>1, <3>2 DEF Genuine
    <2>2. ASSUME ~Intact PROVE WillBeNoticed(side)'
      <3>1. PICK t \in Tables : database[t] = Changed
        BY <2>2 DEF LocalTypes, ReplayStates, ProcessStates, Intact
      <3>2. PICK i \in DOMAIN TableOrder : TableOrder[i] = t
        BY <3>1 DEF Tables, ToSet
      <3> QED
        BY <1>1, <1>2, <3>1, <3>2 DEF WillBeNoticed
    <2>3. Intact' <=> Intact
      BY DEF Intact
    <2> QED
      BY <1>1, <1>4, <2>1, <2>2, <2>3 DEF EvidenceIsGenuine
  <1> QED
    BY <1>5, <1>6, <1>8, <1>9, <1>10 DEF SideInv

\* An answer of the target that is not a failure is a well-formed output, and a query
\* has at least one statement.
LEMMA TargetOutputs ==
    ASSUME NEW reply \in Reply, ~MapResponse(reply).failed
    PROVE  LET output == TargetOutput(MapResponse(reply))
           IN  output \in Outputs /\ (output.kind = "query" => output.sql # <<>>)
  <1>1. CASE reply.status = 403
    <2>1. MapResponse(reply) = Answer(Output("refusal", <<>>, "none"), "refused")
      BY <1>1 DEF MapResponse, Refused403
    <2>2. TargetOutput(MapResponse(reply)) = [kind |-> "refusal", sql |-> <<>>, code |-> "none"]
      BY <2>1 DEF TargetOutput, Answer, Output
    <2> QED
      BY <2>2 DEF Outputs
  <1>2. CASE reply.status = 200 /\ WellFormed(reply.wire)
    <2>1. MapResponse(reply) = NormalizedSuccess(reply.wire)
      BY <1>2 DEF MapResponse
    <2>2. reply.wire.executions \in Seq(Statements)
      BY DEF Reply
    <2>3. CASE reply.wire.status = "answered"
      <3>1. TargetOutput(MapResponse(reply))
              = [kind |-> "query", sql |-> reply.wire.executions, code |-> "none"]
        BY <2>1, <2>3 DEF NormalizedSuccess, TargetOutput, Answer, Output
      <3> QED
        BY <1>2, <2>2, <2>3, <3>1 DEF Outputs, WellFormed
    <2>4. CASE reply.wire.status # "answered"
      <3>1. TargetOutput(MapResponse(reply))
              = [kind |-> "clarification", sql |-> <<>>, code |-> "provider_clarification"]
        BY <2>1, <2>4 DEF NormalizedSuccess, TargetOutput, Answer, Output
      <3> QED
        BY <3>1 DEF Outputs
    <2> QED
      BY <2>3, <2>4
  <1>3. CASE ~(reply.status = 403) /\ ~(reply.status = 200 /\ WellFormed(reply.wire))
    BY <1>3 DEF MapResponse, NoAnswer
  <1> QED
    BY <1>1, <1>2, <1>3

\* What makes a case result fit for the record of a command.
Recordable(side, case, answer) ==
    /\ case \in BridgeCases /\ answer \in Outputs
    /\ SkippedAsDue(dataset[Len(cases[side]) + 1], case) /\ SafeAnswer(case, answer)
    /\ ~restored /\ Intact =>
          \/ Len(cases[side]) + 1 \in broken[side] \/ answer = Invalid
          \/ ~Steady(dataset[Len(cases[side]) + 1], answer)
          \/ case = Undisturbed(dataset[Len(cases[side]) + 1], answer)

\* A case in which the target failed is fit for the record.
LEMMA NoAnswerIsRecordable ==
    ASSUME NEW side
    PROVE  Recordable(side, CaseResult(TRUE, {}, <<>>), Invalid)
  <1>1. CaseResult(TRUE, {}, <<>>) \in BridgeCases
    BY DEF BridgeCases
  <1>2. SkippedAsDue(dataset[Len(cases[side]) + 1], CaseResult(TRUE, {}, <<>>))
    BY DEF SkippedAsDue, CaseResult
  <1> QED
    BY <1>1, <1>2, InvalidFacts DEF Recordable

\* An outcome that all metrics of a replay share is never a success.
LEMMA UniformIsRecordable ==
    ASSUME NEW side, NEW output \in Outputs, NEW outcome \in {Error, Scored(0), Skipped},
           outcome = Skipped <=> Case(side).behavior # "query",
           ~restored /\ Intact =>
              \/ Len(cases[side]) + 1 \in broken[side] \/ ~Steady(Case(side), output)
              \/ Undisturbed(Case(side), output) = Observed(Case(side), output, Replays(outcome))
    PROVE  Recordable(side, Observed(Case(side), output, Replays(outcome)), output)
  <1>1. /\ ReplayMarks(Case(side), Replays(outcome))
        /\ Replays(outcome)["execution_success"] # Scored(1)
    BY UniformReplays
  <1> DEFINE result == Observed(Case(side), output, Replays(outcome))
  <1>2. /\ result \in BridgeCases /\ SkippedAsDue(Case(side), result)
        /\ result.observations["execution_success"] # Scored(1)
    BY <1>1, ObservedMarks
  <1> HIDE DEF result
  <1>3. SafeAnswer(result, output)
    BY <1>2 DEF SafeAnswer
  <1> QED
    BY <1>2, <1>3 DEF Recordable, Case, result

\* No replay was due.
LEMMA ScoreIsRecordable ==
    ASSUME NEW side, NEW output \in Outputs,
           ~(Case(side).behavior = "query" /\ output.kind = "query")
    PROVE  Recordable(side, Observed(Case(side), output,
                Replays(IF Case(side).behavior = "query" THEN Scored(0) ELSE Skipped)), output)
  <1> DEFINE outcome == IF Case(side).behavior = "query" THEN Scored(0) ELSE Skipped
  <1>1. /\ outcome \in {Error, Scored(0), Skipped}
        /\ outcome = Skipped <=> Case(side).behavior # "query"
    BY DEF Scored, Skipped
  <1>2. Undisturbed(Case(side), output) = Observed(Case(side), output, Replays(outcome))
    BY DEF Undisturbed
  <1> HIDE DEF outcome
  <1>3. Recordable(side, Observed(Case(side), output, Replays(outcome)), output)
    BY <1>1, <1>2, UniformIsRecordable
  <1> QED
    BY <1>3 DEF outcome

\* What is known of a candidate when a replay has ended.
LEMMA KnownReplay ==
    ASSUME LocalTypes, NEW side \in Sides, SideInv(side), replay[side].step = "done",
           process[side].phase \in {"reference", "candidate"}
    PROVE  /\ Case(side).behavior = "query" /\ process[side].output.kind = "query"
           /\ process[side].output \in Outputs /\ process[side].executed \in Nat
           /\ process[side].phase = "reference" => replay[side].sql = Case(side).reference
           /\ process[side].phase = "candidate" =>
                 replay[side].sql = process[side].output.sql[process[side].executed + 1]
           /\ ~restored /\ Intact /\ Len(cases[side]) + 1 \notin broken[side]
              /\ Steady(Case(side), process[side].output) =>
                 /\ replay[side].result = Reproduced(replay[side].sql)
                 /\ process[side].phase = "candidate" =>
                       /\ Verified(Case(side), Reproduced(Case(side).reference))
                       /\ \A i \in 1 .. process[side].executed :
                             Reproduced(process[side].output.sql[i]).error = "none"
  <1>1. Case(side).behavior = "query" /\ process[side].output.kind = "query"
    BY DEF SideInv, Progress, Case
  <1>2. process[side].output \in Outputs /\ process[side].executed \in Nat
    BY DEF LocalTypes, ReplayStates, ProcessStates
  <1>3. /\ process[side].phase = "reference" => replay[side].sql = Case(side).reference
        /\ process[side].phase = "candidate" =>
              replay[side].sql = process[side].output.sql[process[side].executed + 1]
    BY DEF SideInv, ReplayIsDue
  <1>4. ASSUME ~restored, Intact, Len(cases[side]) + 1 \notin broken[side],
               Steady(Case(side), process[side].output)
        PROVE  /\ replay[side].result = Reproduced(replay[side].sql)
               /\ process[side].phase = "candidate" =>
                     /\ Verified(Case(side), Reproduced(Case(side).reference))
                     /\ \A i \in 1 .. process[side].executed :
                           Reproduced(process[side].output.sql[i]).error = "none"
    <2>1. replay[side].sql \notin Volatile
      BY <1>4, DueIsSteady
    <2> QED
      BY <1>4, <2>1 DEF SideInv, EvidenceIsGenuine, Case
  <1> QED
    BY <1>1, <1>2, <1>3, <1>4

\* The outcome of a candidate that is not compared.
LEMMA RefusedCandidate ==
    ASSUME NEW case, NEW output, case.behavior = "query", output.kind = "query",
           Verified(case, Reproduced(case.reference)), NEW i \in DOMAIN output.sql,
           ~Allowed(output.sql[i]) \/ Reproduced(output.sql[i]).error # "none"
    PROVE  Undisturbed(case, output) = Observed(case, output, Replays(Scored(0)))
  <1> DEFINE results == [k \in DOMAIN output.sql |-> Reproduced(output.sql[k])]
  <1>1. results[i] = Reproduced(output.sql[i])
    OBVIOUS
  <1>2. \E k \in DOMAIN output.sql : ~Allowed(output.sql[k]) \/ results[k].error # "none"
    BY <1>1
  <1> HIDE DEF results
  <1> QED
    BY <1>2 DEF Undisturbed, results

\* The outcomes of a replay are told apart.
LEMMA ErrorIsNoSkip == Error # Skipped /\ Scored(0) # Skipped /\ Scored(0) # Scored(1)
  BY DEF Error, Skipped, Scored

\* The reference was not reproduced, or the policy refuses the candidate.
LEMMA ReferenceIsRecordable ==
    ASSUME LocalTypes, NEW side \in Sides, SideInv(side), replay[side].step = "done",
           process[side].phase = "reference"
    PROVE  LET output == process[side].output
           IN  /\ ~Verified(Case(side), replay[side].result) =>
                     Recordable(side, Observed(Case(side), output, Replays(Error)), output)
               /\ /\ Verified(Case(side), replay[side].result)
                  /\ \E i \in DOMAIN output.sql : ~Allowed(output.sql[i])
                  => Recordable(side, Observed(Case(side), output, Replays(Scored(0))), output)
  <1> DEFINE output == process[side].output
  <1>1. /\ Case(side).behavior = "query" /\ output.kind = "query" /\ output \in Outputs
        /\ ~restored /\ Intact /\ Len(cases[side]) + 1 \notin broken[side]
           /\ Steady(Case(side), output) =>
              replay[side].result = Reproduced(Case(side).reference)
    BY KnownReplay
  <1> HIDE DEF output
  <1>2. ASSUME ~Verified(Case(side), replay[side].result)
        PROVE  Recordable(side, Observed(Case(side), output, Replays(Error)), output)
    <2>1. ASSUME replay[side].result = Reproduced(Case(side).reference)
          PROVE  Undisturbed(Case(side), output) = Observed(Case(side), output, Replays(Error))
      BY <1>1, <1>2, <2>1 DEF Undisturbed
    <2> QED
      BY <1>1, <2>1, ErrorIsNoSkip, UniformIsRecordable
  <1>3. ASSUME Verified(Case(side), replay[side].result),
               NEW i \in DOMAIN output.sql, ~Allowed(output.sql[i])
        PROVE  Recordable(side, Observed(Case(side), output, Replays(Scored(0))), output)
    <2>1. ASSUME replay[side].result = Reproduced(Case(side).reference)
          PROVE  Undisturbed(Case(side), output) = Observed(Case(side), output, Replays(Scored(0)))
      BY <1>1, <1>3, <2>1, RefusedCandidate
    <2> QED
      BY <1>1, <2>1, ErrorIsNoSkip, UniformIsRecordable
  <1> QED
    BY <1>2, <1>3 DEF output

\* A statement of the candidate failed.
LEMMA FailedIsRecordable ==
    ASSUME LocalTypes, NEW side \in Sides, SideInv(side), replay[side].step = "done",
           process[side].phase = "candidate", replay[side].result.error # "none"
    PROVE  LET output == process[side].output
           IN  Recordable(side, Observed(Case(side), output, Replays(Scored(0))), output)
  <1> DEFINE output == process[side].output
             next == process[side].executed + 1
  <1>1. /\ Case(side).behavior = "query" /\ output.kind = "query" /\ output \in Outputs
        /\ ~restored /\ Intact /\ Len(cases[side]) + 1 \notin broken[side]
           /\ Steady(Case(side), output) =>
              /\ replay[side].result = Reproduced(output.sql[next])
              /\ Verified(Case(side), Reproduced(Case(side).reference))
    BY KnownReplay
  <1>2. next \in DOMAIN output.sql
    <2>1. output.sql \in Seq(Statements) /\ process[side].executed \in Nat
      BY DEF LocalTypes, ReplayStates, ProcessStates, Outputs
    <2>2. process[side].executed < Len(output.sql)
      BY DEF SideInv, CandidateIsSafe
    <2> QED
      BY <2>1, <2>2
  <1> HIDE DEF output, next
  <1>3. ASSUME replay[side].result = Reproduced(output.sql[next]),
               Verified(Case(side), Reproduced(Case(side).reference))
        PROVE  Undisturbed(Case(side), output) = Observed(Case(side), output, Replays(Scored(0)))
    <2>1. Reproduced(output.sql[next]).error # "none"
      BY <1>3
    <2> QED
      BY <1>1, <1>2, <1>3, <2>1, RefusedCandidate
  <1>4. Recordable(side, Observed(Case(side), output, Replays(Scored(0))), output)
    BY <1>1, <1>3, ErrorIsNoSkip, UniformIsRecordable
  <1> QED
    BY <1>4 DEF output

\* All statements of the candidate were executed, so all are safe.
LEMMA ComparedIsRecordable ==
    ASSUME LocalTypes, NEW side \in Sides, SideInv(side), replay[side].step = "done",
           process[side].phase = "candidate", replay[side].result.error = "none",
           ~(process[side].executed + 1 < Len(process[side].output.sql))
    PROVE  LET output == process[side].output
           IN  Recordable(side, Observed(Case(side), output,
                                         Compared(Case(side), replay[side].result)), output)
  <1> DEFINE output == process[side].output
             executed == process[side].executed
             result == Observed(Case(side), output, Compared(Case(side), replay[side].result))
  <1>1. /\ Case(side).behavior = "query" /\ output.kind = "query" /\ output \in Outputs
        /\ replay[side].sql = output.sql[executed + 1]
        /\ ~restored /\ Intact /\ Len(cases[side]) + 1 \notin broken[side]
           /\ Steady(Case(side), output) =>
              /\ replay[side].result = Reproduced(output.sql[executed + 1])
              /\ Verified(Case(side), Reproduced(Case(side).reference))
              /\ \A i \in 1 .. executed : Reproduced(output.sql[i]).error = "none"
    BY KnownReplay
  <1>2. /\ output.sql \in Seq(Statements) /\ executed \in Nat /\ executed < Len(output.sql)
        /\ \A i \in DOMAIN output.sql : Allowed(output.sql[i])
        /\ \A i \in 1 .. executed : output.sql[i] \notin Writing \cup Endless
        /\ replay[side].sql \notin Writing \cup Endless
    BY DEF LocalTypes, ReplayStates, ProcessStates, Outputs, SideInv, CandidateIsSafe, ReplayIsSafe
  <1>3. Len(output.sql) = executed + 1 /\ DOMAIN output.sql = 1 .. executed + 1
    BY <1>2
  <1>4. \A i \in DOMAIN output.sql : i \in 1 .. executed \/ i = executed + 1
    BY <1>2, <1>3
  <1>5. result \in BridgeCases /\ SkippedAsDue(Case(side), result)
    BY <1>1, ComparedReplays, ObservedMarks
  <1> HIDE DEF output, executed, result
  <1>6. SafeAnswer(result, output)
    <2>1. \A i \in DOMAIN output.sql :
             Allowed(output.sql[i]) /\ output.sql[i] \notin Writing \cup Endless
      BY <1>1, <1>2, <1>4
    <2>2. \A s \in ToSet(output.sql) : Allowed(s) /\ s \notin Writing \cup Endless
      BY <2>1 DEF ToSet
    <2> QED
      BY <2>2 DEF SafeAnswer
  <1>7. ASSUME replay[side].result = Reproduced(output.sql[executed + 1]),
               Verified(Case(side), Reproduced(Case(side).reference)),
               \A i \in 1 .. executed : Reproduced(output.sql[i]).error = "none"
        PROVE  Undisturbed(Case(side), output) = result
    <2> DEFINE results == [i \in DOMAIN output.sql |-> Reproduced(output.sql[i])]
    <2>1. \A i \in DOMAIN output.sql : results[i].error = "none"
      BY <1>4, <1>7 DEF result, Compared
    <2>2. results[Len(output.sql)] = replay[side].result
      BY <1>2, <1>3, <1>7
    <2> HIDE DEF results
    <2> QED
      BY <1>1, <1>2, <1>7, <2>1, <2>2 DEF Undisturbed, results, result
  <1>8. Recordable(side, result, output)
    BY <1>1, <1>5, <1>6, <1>7 DEF Recordable, Case
  <1> QED
    BY <1>8 DEF output, result

(***************************************************************************)
(* The steps of one command                                                *)
(***************************************************************************)

\* The commands but one keep what they hold.
OthersHold(side) == \A other \in Sides : other # side => UNCHANGED Held(other)

\* A replay that was not asked for.
LEMMA IdleFacts == Idle \in ReplayStates /\ Idle.step = "idle"
  <1>1. Failure("none") \in Results
    BY FailuresAreResults DEF Codes
  <1> QED
    BY <1>1 DEF Idle, ReplayStates

\* The replay of one command changes, if any.
ReplayMoves(side) ==
    \/ replay' = replay
    \/ \E its \in ReplayStates : replay' = [replay EXCEPT ![side] = its]

\* What the replay of one command leaves alone.
LEMMA ReplayMoved ==
    ASSUME LocalTypes, NEW side \in Sides, ReplayMoves(side)
    PROVE  /\ replay' \in [Clients -> ReplayStates]
           /\ \A other \in Sides : other # side => replay'[other] = replay[other]
           /\ \A its : replay' = [replay EXCEPT ![side] = its] => replay'[side] = its
  <1>1. replay \in [Clients -> ReplayStates] /\ Sides \subseteq Clients
    BY LocalAssumption DEF LocalTypes
  <1>2. CASE replay' = replay
    BY <1>1, <1>2
  <1>3. CASE replay' # replay
    <2>1. PICK its \in ReplayStates : replay' = [replay EXCEPT ![side] = its]
      BY <1>3 DEF ReplayMoves
    <2> QED
      BY <1>1, <2>1
  <1> QED
    BY <1>2, <1>3

\* A command moves, with or without the result of its replay.
LEMMA ProcessMoved ==
    ASSUME LocalTypes, NEW side \in Sides, NEW my \in ProcessStates,
           process' = [process EXCEPT ![side] = my], ReplayMoves(side),
           UNCHANGED <<policy, cases, runs, answers, broken, dataset, database, restored>>
    PROVE  LocalTypes' /\ process'[side] = my /\ Untouched(side) /\ OthersHold(side)
  <1>1. process' \in [Sides -> ProcessStates] /\ process'[side] = my
        /\ \A other \in Sides : other # side => process'[other] = process[other]
    BY DEF LocalTypes
  <1>2. LocalTypes'
    BY <1>1, ReplayMoved DEF LocalTypes
  <1>3. OthersHold(side)
    BY <1>1, ReplayMoved DEF OthersHold, Held
  <1> QED
    BY <1>1, <1>2, <1>3 DEF Untouched

\* A replay moves while its command waits.
LEMMA ReplayWaits ==
    ASSUME LocalTypes, NEW side \in Sides, ReplayMoves(side),
           broken' = broken \/ \E c \in Nat : broken' = [broken EXCEPT ![side] = @ \cup {c}],
           UNCHANGED <<policy, cases, runs, answers, process, dataset, database, restored>>
    PROVE  LocalTypes' /\ Waiting(side) /\ OthersHold(side)
  <1>1. broken' \in [Sides -> SUBSET Nat]
        /\ \A other \in Sides : other # side => broken'[other] = broken[other]
    BY DEF LocalTypes
  <1>2. LocalTypes'
    BY <1>1, ReplayMoved DEF LocalTypes
  <1>3. OthersHold(side)
    BY <1>1, ReplayMoved DEF OthersHold, Held
  <1> QED
    BY <1>2, <1>3 DEF Waiting

\* A command ends with an error.
LEMMA FailStep ==
    ASSUME LocalTypes, NEW side \in Sides, Fail(side), UNCHANGED database,
           \/ replay' = replay /\ replay[side].step = "idle"
           \/ replay' = [replay EXCEPT ![side] = Idle]
    PROVE  LocalTypes' /\ SideInv(side)' /\ OthersHold(side)
  <1>1. /\ process' = [process EXCEPT ![side] = [NoProcess EXCEPT !.phase = "failed"]]
        /\ cases' = [cases EXCEPT ![side] = <<>>] /\ runs' = [runs EXCEPT ![side] = Running]
        /\ answers' = [answers EXCEPT ![side] = <<>>] /\ broken' = [broken EXCEPT ![side] = {}]
        /\ UNCHANGED <<policy, dataset, restored>>
    BY DEF Fail
  <1>2. ReplayMoves(side)
    BY IdleFacts DEF ReplayMoves
  <1>3. replay'[side].step = "idle"
    BY <1>2, IdleFacts, ReplayMoved
  <1> DEFINE my == [NoProcess EXCEPT !.phase = "failed"]
  <1>4. my \in ProcessStates /\ my.phase = "failed" /\ my.read = <<>> /\ my.executed = 0
    <2>1. my = [phase |-> "failed", options |-> NoOptions, mode |-> "none",
                manifest |-> <<>>, read |-> <<>>, output |-> Invalid, executed |-> 0]
      BY DEF NoProcess
    <2>2. <<>> \in Seq({result.rows : result \in Results})
      OBVIOUS
    <2> HIDE DEF my
    <2> QED
      BY <2>1, <2>2, InvalidFacts DEF ProcessStates, Phases
  <1> HIDE DEF my
  <1>5. /\ process' \in [Sides -> ProcessStates] /\ process'[side] = my
        /\ \A other \in Sides : other # side => process'[other] = process[other]
    BY <1>1, <1>4 DEF LocalTypes, my
  <1>6. /\ cases' \in [Sides -> Seq(BridgeCases)] /\ cases'[side] = <<>>
        /\ answers' \in [Sides -> Seq(Outputs)] /\ answers'[side] = <<>>
        /\ broken' \in [Sides -> SUBSET Nat] /\ runs' = [s \in Sides |-> runs'[s]]
        /\ \A other \in Sides : other # side =>
              /\ cases'[other] = cases[other] /\ answers'[other] = answers[other]
              /\ broken'[other] = broken[other]
    <2>1. <<>> \in Seq(BridgeCases) /\ <<>> \in Seq(Outputs)
      OBVIOUS
    <2>2. /\ cases' \in [Sides -> Seq(BridgeCases)] /\ cases'[side] = <<>>
          /\ \A other \in Sides : other # side => cases'[other] = cases[other]
      BY <1>1, <2>1 DEF LocalTypes
    <2>3. /\ answers' \in [Sides -> Seq(Outputs)] /\ answers'[side] = <<>>
          /\ \A other \in Sides : other # side => answers'[other] = answers[other]
      BY <1>1, <2>1 DEF LocalTypes
    <2>4. /\ broken' \in [Sides -> SUBSET Nat]
          /\ \A other \in Sides : other # side => broken'[other] = broken[other]
      BY <1>1 DEF LocalTypes
    <2>5. runs' = [s \in Sides |-> runs'[s]]
      BY <1>1 DEF LocalTypes
    <2> QED
      BY <2>2, <2>3, <2>4, <2>5
  <1>7. LocalTypes'
    BY <1>1, <1>2, <1>5, <1>6, ReplayMoved DEF LocalTypes
  <1>8. OthersHold(side)
    BY <1>2, <1>5, <1>6, ReplayMoved DEF OthersHold, Held
  <1>9. SideInv(side)'
    BY <1>3, <1>4, <1>5, <1>6, RestingSide
  <1> QED
    BY <1>7, <1>8, <1>9

\* The command does not wait for a replay, or takes its result.
ReplayIsOver(side) ==
    \/ replay' = replay /\ replay[side].step = "idle"
    \/ replay' = [replay EXCEPT ![side] = Idle]

\* A case is recorded.
LEMMA RecordStep ==
    ASSUME LocalTypes, NEW side \in Sides, SideInv(side), NEW case, NEW answer,
           process[side].phase \in {"invoke", "reference", "candidate"},
           Record(side, case, answer), Recordable(side, case, answer),
           UNCHANGED <<dataset, database, broken, restored>>, ReplayIsOver(side)
    PROVE  LocalTypes' /\ SideInv(side)' /\ OthersHold(side)
  <1> DEFINE my == [process[side] EXCEPT !.phase = AfterCase(side), !.executed = 0,
                                         !.output = Invalid]
             moreCases == Append(cases[side], case)
             moreAnswers == Append(answers[side], answer)
  <1>1. /\ process' = [process EXCEPT ![side] = my]
        /\ cases' = [cases EXCEPT ![side] = moreCases]
        /\ answers' = [answers EXCEPT ![side] = moreAnswers]
        /\ \/ runs' = runs
           \/ runs' = [runs EXCEPT ![side] = [status |-> RunStatus(cases'[side]),
                                              metrics |-> Summaries(cases'[side])]]
        /\ policy' = policy
    BY DEF Record, AppendCase, LocalTypes
  <1>2. /\ case \in BridgeCases /\ answer \in Outputs
        /\ SkippedAsDue(dataset[Len(cases[side]) + 1], case) /\ SafeAnswer(case, answer)
        /\ ~restored /\ Intact =>
              \/ Len(cases[side]) + 1 \in broken[side] \/ answer = Invalid
              \/ ~Steady(dataset[Len(cases[side]) + 1], answer)
              \/ case = Undisturbed(dataset[Len(cases[side]) + 1], answer)
    BY DEF Recordable
  <1>3. my \in ProcessStates
    <2>1. process[side] \in ProcessStates /\ AfterCase(side) \in Phases
      BY DEF LocalTypes, AfterCase, Phases
    <2> QED
      BY <2>1, InvalidFacts DEF ProcessStates
  <1>4. moreCases \in Seq(BridgeCases) /\ moreAnswers \in Seq(Outputs)
    BY <1>2, Appended DEF LocalTypes
  <1>5. ReplayMoves(side)
    BY IdleFacts DEF ReplayMoves, ReplayIsOver
  <1>6. replay'[side].step = "idle"
    BY <1>5, IdleFacts, ReplayMoved DEF ReplayIsOver
  <1> HIDE DEF my, moreCases, moreAnswers
  <1>7. /\ process' \in [Sides -> ProcessStates] /\ process'[side] = my
        /\ cases' \in [Sides -> Seq(BridgeCases)] /\ cases'[side] = moreCases
        /\ answers' \in [Sides -> Seq(Outputs)] /\ answers'[side] = moreAnswers
        /\ \A other \in Sides : other # side =>
              /\ process'[other] = process[other] /\ cases'[other] = cases[other]
              /\ answers'[other] = answers[other]
    BY <1>1, <1>3, <1>4 DEF LocalTypes
  <1>8. runs' = [s \in Sides |-> runs'[s]]
    BY <1>1 DEF LocalTypes
  <1>9. LocalTypes'
    BY <1>1, <1>5, <1>7, <1>8, ReplayMoved DEF LocalTypes
  <1>10. OthersHold(side)
    BY <1>5, <1>7, ReplayMoved DEF OthersHold, Held
  <1>11. SideInv(side)'
    BY <1>2, <1>6, <1>7, RecordSide DEF my, moreCases, moreAnswers
  <1> QED
    BY <1>9, <1>10, <1>11

\* The offline command is done in one step.
LEMMA RunOfflineStep ==
    ASSUME LocalTypes, NEW side \in Sides, SideInv(side), RunOffline(side)
    PROVE  LocalTypes' /\ SideInv(side)' /\ OthersHold(side)
  <1> DEFINE my == [process[side] EXCEPT !.phase = "finished"]
  <1>1. /\ process' = [process EXCEPT ![side].phase = "finished"] /\ process[side].phase = "start"
        /\ replay' = replay
        /\ UNCHANGED <<policy, cases, runs, answers, broken, dataset, database, restored>>
    BY DEF RunOffline, sandboxVars, In
  <1>2. process' = [process EXCEPT ![side] = my]
    BY <1>1 DEF LocalTypes
  <1>3. my \in ProcessStates
    <2>1. process[side] \in ProcessStates /\ "finished" \in Phases
      BY DEF LocalTypes, Phases
    <2> QED
      BY <2>1 DEF ProcessStates
  <1>4. /\ my.phase = "finished" /\ my.read = process[side].read
        /\ my.executed = process[side].executed
    BY DEF LocalTypes, ProcessStates
  <1> HIDE DEF my
  <1>5. LocalTypes' /\ process'[side] = my /\ Untouched(side) /\ OthersHold(side)
    BY <1>1, <1>2, <1>3, ProcessMoved DEF ReplayMoves
  <1>6. /\ process[side].read = <<>> /\ process[side].executed = 0
        /\ replay[side].step = "idle" /\ Len(cases[side]) = 0 /\ Len(answers[side]) = 0
    BY <1>1 DEF SideInv, Progress, ReplayIsDue
  <1>7. cases[side] = <<>> /\ answers[side] = <<>>
    BY <1>6 DEF LocalTypes
  <1> QED
    BY <1>1, <1>4, <1>5, <1>6, <1>7, RestingSide

\* A command that does not fail moves without its replay.
LEMMA BecomesStep ==
    ASSUME LocalTypes, NEW side \in Sides, NEW my \in ProcessStates, Becomes(side, my),
           UNCHANGED database, ReplayMoves(side)
    PROVE  LocalTypes' /\ process'[side] = my /\ Untouched(side) /\ OthersHold(side)
  <1>1. /\ process' = [process EXCEPT ![side] = my]
        /\ UNCHANGED <<policy, cases, runs, answers, broken, dataset, restored>>
    BY DEF Becomes, evidence
  <1> QED
    BY <1>1, ProcessMoved

\* The command starts, or does not accept its options or its dataset.
LEMMA StartStep ==
    ASSUME LocalTypes, NEW side \in Sides, SideInv(side), Start(side)
    PROVE  LocalTypes' /\ SideInv(side)' /\ OthersHold(side)
  <1>1. /\ process[side].phase = "start" /\ dataset # <<>>
        /\ replay' = replay /\ database' = database
    BY DEF Start, sandboxVars, In
  <1>2. replay[side].step = "idle" /\ process[side].read = <<>> /\ process[side].executed = 0
    BY <1>1 DEF SideInv, Progress, ReplayIsDue
  <1>3. PICK options \in Invocations :
          IF ValidMode(options) /\ Preflight(dataset)
          THEN Becomes(side, [process[side] EXCEPT !.phase = "before", !.options = options])
          ELSE Fail(side)
    BY DEF Start
  <1>4. CASE Fail(side)
    BY <1>1, <1>2, <1>4, FailStep
  <1>5. CASE ~Fail(side)
    <2> DEFINE my == [process[side] EXCEPT !.phase = "before", !.options = options]
    <2>1. Becomes(side, my) /\ Preflight(dataset)
      BY <1>3, <1>5
    <2>2. my \in ProcessStates /\ my.phase = "before" /\ my.read = <<>> /\ my.executed = 0
      <3>1. process[side] \in ProcessStates /\ "before" \in Phases
        BY DEF LocalTypes, Phases
      <3>2. my \in ProcessStates
        BY <3>1 DEF ProcessStates
      <3>3. my.phase = "before" /\ my.read = <<>> /\ my.executed = 0
        BY <1>2, <3>1 DEF ProcessStates
      <3> QED
        BY <3>2, <3>3
    <2> HIDE DEF my
    <2>3. LocalTypes' /\ process'[side] = my /\ Untouched(side) /\ OthersHold(side)
      BY <1>1, <2>1, <2>2, BecomesStep DEF ReplayMoves
    <2> QED
      BY <1>1, <1>2, <2>1, <2>2, <2>3, EarlySide
  <1> QED
    BY <1>4, <1>5

\* A replay is asked for.
LEMMA CallStep ==
    ASSUME LocalTypes, NEW side \in Sides, SideInv(side), NEW s \in Tables \cup Statements,
           Call(side, s),
           \/ /\ process[side].phase \in {"before", "after"}
              /\ Len(process[side].read) < Len(TableOrder)
              /\ s = TableOrder[Len(process[side].read) + 1]
           \/ process[side].phase = "reference" /\ s = Case(side).reference
           \/ /\ process[side].phase = "candidate"
              /\ s = process[side].output.sql[process[side].executed + 1]
    PROVE  LocalTypes' /\ SideInv(side)' /\ OthersHold(side)
  <1>1. Execute(side, s) /\ UNCHANGED <<evidence, dataset, process, restored>>
    BY DEF Call
  <1>2. /\ UNCHANGED <<policy, cases, runs, answers, process, dataset, database, restored>>
        /\ broken' = broken
    BY <1>1 DEF evidence, Execute
  <1>3. ReplayMoves(side)
    <2> DEFINE its == IF Allowed(s) THEN [Idle EXCEPT !.step = "open", !.sql = s]
                      ELSE [Idle EXCEPT !.step = "done", !.sql = s,
                                        !.result = Failure("policy_rejected")]
    <2>1. replay' = [replay EXCEPT ![side] = its]
      BY <1>1 DEF Execute
    <2>2. Failure("policy_rejected") \in Results
      BY FailuresAreResults DEF Codes
    <2>3. its \in ReplayStates
      BY <2>2, IdleFacts DEF ReplayStates
    <2> HIDE DEF its
    <2> QED
      BY <2>1, <2>3 DEF ReplayMoves
  <1>4. LocalTypes' /\ Waiting(side) /\ OthersHold(side)
    BY <1>2, <1>3, ReplayWaits
  <1> QED
    BY <1>1, <1>2, <1>4, CallSide

\* The three places at which a replay is asked for.
LEMMA CallsStep ==
    ASSUME LocalTypes, NEW side \in Sides, SideInv(side),
           FingerprintCall(side) \/ ReferenceCall(side) \/ CandidateCall(side)
    PROVE  LocalTypes' /\ SideInv(side)' /\ OthersHold(side)
  <1>1. CASE FingerprintCall(side)
    <2> DEFINE s == TableOrder[Len(process[side].read) + 1]
    <2>1. /\ process[side].phase \in {"before", "after"}
          /\ Len(process[side].read) < Len(TableOrder) /\ Call(side, s)
      BY <1>1 DEF FingerprintCall, In
    <2>2. process[side].read \in Seq({result.rows : result \in Results})
      BY DEF LocalTypes, ProcessStates
    <2>3. s \in Tables
      BY <2>1, <2>2, SandboxFacts, OrderIsSequence
    <2> QED
      BY <2>1, <2>3, CallStep
  <1>2. CASE ReferenceCall(side)
    <2>1. process[side].phase = "reference" /\ Call(side, Case(side).reference)
      BY <1>2 DEF ReferenceCall, In
    <2>2. Case(side).behavior = "query"
      BY <2>1 DEF SideInv, Progress, Case
    <2>3. Case(side).reference \in Statements
      BY <2>1, <2>2, CurrentCase
    <2> QED
      BY <2>1, <2>3, CallStep
  <1>3. CASE CandidateCall(side)
    <2> DEFINE s == process[side].output.sql[process[side].executed + 1]
    <2>1. process[side].phase = "candidate" /\ Call(side, s)
      BY <1>3 DEF CandidateCall, In
    <2>2. /\ process[side].output.sql \in Seq(Statements) /\ process[side].executed \in Nat
          /\ process[side].executed < Len(process[side].output.sql)
      BY <2>1 DEF LocalTypes, ProcessStates, Outputs, SideInv, CandidateIsSafe
    <2>3. s \in Statements
      BY <2>2
    <2> QED
      BY <2>1, <2>3, CallStep
  <1> QED
    BY <1>1, <1>2, <1>3

\* A table has been read for the fingerprint, or could not be.
LEMMA FingerprintTableStep ==
    ASSUME LocalTypes, NEW side \in Sides, SideInv(side), FingerprintTable(side)
    PROVE  LocalTypes' /\ SideInv(side)' /\ OthersHold(side)
  <1>1. /\ process[side].phase \in {"before", "after"} /\ replay[side].step = "done"
        /\ replay' = [replay EXCEPT ![side] = Idle] /\ database' = database
    BY DEF FingerprintTable, In, Returned, At, Take
  <1>2. ReplayMoves(side) /\ replay'[side].step = "idle"
    BY <1>1, IdleFacts, ReplayMoved DEF ReplayMoves
  <1>3. CASE replay[side].result.error # "none"
    <2>1. Fail(side)
      BY <1>3 DEF FingerprintTable
    <2> QED
      BY <1>1, <2>1, FailStep
  <1>4. CASE replay[side].result.error = "none"
    <2> DEFINE rows == replay[side].result.rows
               all == {result.rows : result \in Results}
               my == [process[side] EXCEPT !.read = Append(@, rows)]
    <2>1. Becomes(side, my)
      BY <1>4 DEF FingerprintTable
    <2>2. process[side].read \in Seq(all) /\ rows \in all
      BY LocalAssumption DEF LocalTypes, ReplayStates, ProcessStates
    <2>3. Append(process[side].read, rows) \in Seq(all)
      <3> HIDE DEF all, rows
      <3> QED
        BY <2>2
    <2>4. my \in ProcessStates
      <3> HIDE DEF rows
      <3> QED
        BY <2>3 DEF LocalTypes, ProcessStates
    <2>5. LocalTypes' /\ process'[side] = my /\ Untouched(side) /\ OthersHold(side)
      <3> HIDE DEF my
      <3> QED
        BY <1>1, <1>2, <2>1, <2>4, BecomesStep
    <2> QED
      BY <1>1, <1>2, <1>4, <2>5, FingerprintSide
  <1> QED
    BY <1>3, <1>4

\* The first fingerprint and the target are accepted, or the command ends.
LEMMA VerifyStep ==
    ASSUME LocalTypes, NEW side \in Sides, SideInv(side), Verify(side)
    PROVE  LocalTypes' /\ SideInv(side)' /\ OthersHold(side)
  <1>1. /\ process[side].phase = "before" /\ replay[side].step = "idle"
        /\ replay' = replay /\ database' = database
    BY DEF Verify, In, FingerprintTaken, At, sandboxVars
  <1>2. CASE Fail(side)
    BY <1>1, <1>2, FailStep
  <1>3. CASE ~Fail(side)
    <2> DEFINE options == process[side].options
               my == [process[side] EXCEPT !.phase = "invoke", !.read = <<>>,
                                           !.options = NoOptions, !.mode = Mode(options),
                                           !.manifest = Manifest(options)]
    <2>1. Becomes(side, my)
      BY <1>3 DEF Verify
    <2>2. my.phase = "invoke" /\ my.read = <<>> /\ my.executed = process[side].executed
      BY DEF LocalTypes, ProcessStates
    <2>3. my \in ProcessStates
      <3>1. options \in Invocations \cup {NoOptions} /\ process[side] \in ProcessStates
        BY DEF LocalTypes, ProcessStates
      <3>2. Manifest(options) \in {Manifest(o) : o \in Invocations \cup {NoOptions}}
        BY <3>1
      <3>3. Mode(options) \in {"live", "offline_mock"}
        BY DEF Mode
      <3>4. <<>> \in Seq({result.rows : result \in Results})
        OBVIOUS
      <3> HIDE DEF options
      <3> QED
        BY <3>1, <3>2, <3>3, <3>4 DEF ProcessStates, Phases
    <2>4. process[side].executed = 0
      BY <1>1 DEF SideInv, Progress
    <2> HIDE DEF my
    <2>5. LocalTypes' /\ process'[side] = my /\ Untouched(side) /\ OthersHold(side)
      BY <1>1, <2>1, <2>3, BecomesStep DEF ReplayMoves
    <2> QED
      BY <1>1, <2>2, <2>4, <2>5, EarlySide
  <1> QED
    BY <1>2, <1>3

\* Every response of a manifest is one that the target may send.
LEMMA ManifestFacts ==
    ASSUME LocalTypes, NEW side \in Sides, NEW c \in DOMAIN process[side].manifest
    PROVE  process[side].manifest[c] \in Reply
  <1>1. process[side].manifest \in {<<>>} \cup {Manifest(o) : o \in Invocations \cup {NoOptions}}
    BY DEF LocalTypes, ProcessStates
  <1>2. process[side].manifest # <<>>
    OBVIOUS
  <1>3. PICK o \in Invocations \cup {NoOptions} : process[side].manifest = Manifest(o)
    BY <1>1, <1>2
  <1>4. CASE o = NoOptions
    <2>1. DOMAIN Manifest(o) = {}
      BY <1>4 DEF Manifest, NoOptions
    <2> QED
      BY <1>3, <2>1
  <1>5. CASE o \in Invocations
    BY <1>3, <1>5, LocalAssumption DEF Manifest
  <1> QED
    BY <1>4, <1>5

\* What the command does with an answer.
LEMMA AnsweredStep ==
    ASSUME LocalTypes, NEW side \in Sides, SideInv(side), process[side].phase = "invoke",
           NEW answer, Answered(side, answer),
           ~answer.failed => /\ TargetOutput(answer) \in Outputs
                             /\ TargetOutput(answer).kind = "query" =>
                                   TargetOutput(answer).sql # <<>>,
           UNCHANGED <<replay, database, dataset, broken, restored>>
    PROVE  LocalTypes' /\ SideInv(side)' /\ OthersHold(side)
  <1> DEFINE output == TargetOutput(answer)
  <1>1. replay[side].step = "idle" /\ ReplayIsOver(side)
    BY DEF SideInv, ReplayIsDue, ReplayIsOver
  <1>2. CASE answer.failed
    <2> DEFINE failed == CaseResult(TRUE, {}, <<>>)
    <2>1. Record(side, failed, Invalid)
      BY <1>2 DEF Answered
    <2>2. Recordable(side, failed, Invalid)
      BY NoAnswerIsRecordable
    <2> HIDE DEF failed, output
    <2> QED
      BY <1>1, <2>1, <2>2, RecordStep
  <1>3. CASE ~answer.failed /\ Case(side).behavior = "query" /\ output.kind = "query"
    <2> DEFINE my == [process[side] EXCEPT !.phase = "reference", !.output = output]
    <2> HIDE DEF output
    <2>1. /\ process' = [process EXCEPT ![side].phase = "reference", ![side].output = output]
          /\ UNCHANGED <<policy, cases, runs, decision, answers>>
      BY <1>3 DEF Answered, output
    <2>2. process' = [process EXCEPT ![side] = my]
      BY <2>1 DEF LocalTypes
    <2>3. output \in Outputs /\ output.kind = "query" /\ output.sql # <<>>
      BY <1>3 DEF output
    <2>4. my \in ProcessStates
      <3>1. process[side] \in ProcessStates /\ "reference" \in Phases
        BY DEF LocalTypes, Phases
      <3> QED
        BY <2>3, <3>1 DEF ProcessStates
    <2>5. LocalTypes' /\ process'[side] = my /\ Untouched(side) /\ OthersHold(side)
      <3> HIDE DEF my
      <3> QED
        BY <2>1, <2>2, <2>4, ProcessMoved DEF ReplayMoves
    <2> QED
      BY <1>3, <2>3, <2>5, QuerySide
  <1>4. CASE ~answer.failed /\ ~(Case(side).behavior = "query" /\ output.kind = "query")
    <2> DEFINE result == Observed(Case(side), output,
                             Replays(IF Case(side).behavior = "query" THEN Scored(0) ELSE Skipped))
    <2>1. Record(side, result, output)
      BY <1>4 DEF Answered, Score
    <2>2. Recordable(side, result, output)
      BY <1>4, ScoreIsRecordable
    <2> HIDE DEF result, output
    <2> QED
      BY <1>1, <2>1, <2>2, RecordStep
  <1> QED
    BY <1>2, <1>3, <1>4

\* The target is asked about a case.
LEMMA InvokeStep ==
    ASSUME LocalTypes, NEW side \in Sides, SideInv(side), Invoke(side)
    PROVE  LocalTypes' /\ SideInv(side)' /\ OthersHold(side)
  <1> DEFINE n == Len(cases[side]) + 1
  <1>1. /\ process[side].phase = "invoke"
        /\ UNCHANGED <<replay, database, dataset, broken, restored>>
    BY DEF Invoke, In, sandboxVars
  <1>2. n \in Cases
    BY <1>1, CurrentCase
  <1> HIDE DEF n
  <1>3. CASE process[side].mode = "live"
    <2>1. PICK reply \in Replies[n] : Answered(side, MapResponse(reply))
      BY <1>3 DEF Invoke, n
    <2>2. reply \in Reply
      BY <1>2, LocalAssumption
    <2> QED
      BY <1>1, <2>1, <2>2, TargetOutputs, AnsweredStep
  <1>4. CASE process[side].mode # "live"
    <2>1. Answered(side, MockAnswer(process[side].manifest, n))
      BY <1>4 DEF Invoke, n
    <2>2. CASE n \in DOMAIN process[side].manifest
      <3>1. Answered(side, MapResponse(process[side].manifest[n]))
        BY <2>1, <2>2 DEF MockAnswer
      <3> QED
        BY <1>1, <2>2, <3>1, ManifestFacts, TargetOutputs, AnsweredStep
    <2>3. CASE n \notin DOMAIN process[side].manifest
      <3>1. Answered(side, NoAnswer)
        BY <2>1, <2>3 DEF MockAnswer
      <3>2. NoAnswer.failed
        BY DEF NoAnswer
      <3> QED
        BY <1>1, <3>1, <3>2, AnsweredStep
    <2> QED
      BY <2>2, <2>3
  <1> QED
    BY <1>3, <1>4

\* The reference has been replayed.
LEMMA ReferenceReplayedStep ==
    ASSUME LocalTypes, NEW side \in Sides, SideInv(side), ReferenceReplayed(side)
    PROVE  LocalTypes' /\ SideInv(side)' /\ OthersHold(side)
  <1> DEFINE output == process[side].output
             result == replay[side].result
             refused == \E i \in DOMAIN output.sql : ~Allowed(output.sql[i])
  <1>1. /\ process[side].phase = "reference" /\ replay[side].step = "done"
        /\ replay' = [replay EXCEPT ![side] = Idle]
        /\ UNCHANGED <<database, dataset, broken, restored>>
    BY DEF ReferenceReplayed, In, Returned, At, Take
  <1>2. ReplayMoves(side) /\ replay'[side].step = "idle" /\ ReplayIsOver(side)
    BY <1>1, IdleFacts, ReplayMoved DEF ReplayMoves, ReplayIsOver
  <1>3. CASE ~Verified(Case(side), result)
    <2> DEFINE case == Observed(Case(side), output, Replays(Error))
    <2>1. Record(side, case, output)
      BY <1>3 DEF ReferenceReplayed, RecordReplays
    <2>2. Recordable(side, case, output)
      BY <1>1, <1>3, ReferenceIsRecordable
    <2> HIDE DEF case, output, result, refused
    <2> QED
      BY <1>1, <1>2, <2>1, <2>2, RecordStep
  <1>4. CASE Verified(Case(side), result) /\ refused
    <2> DEFINE case == Observed(Case(side), output, Replays(Scored(0)))
    <2>1. Record(side, case, output)
      BY <1>4 DEF ReferenceReplayed, RecordReplays
    <2>2. Recordable(side, case, output)
      BY <1>1, <1>4, ReferenceIsRecordable
    <2> HIDE DEF case, output, result, refused
    <2> QED
      BY <1>1, <1>2, <2>1, <2>2, RecordStep
  <1>5. CASE Verified(Case(side), result) /\ ~refused
    <2> DEFINE my == [process[side] EXCEPT !.phase = "candidate"]
    <2>1. /\ process' = [process EXCEPT ![side].phase = "candidate"]
          /\ UNCHANGED <<policy, cases, runs, decision, answers>>
      BY <1>5 DEF ReferenceReplayed
    <2>2. process' = [process EXCEPT ![side] = my]
      BY <2>1 DEF LocalTypes
    <2>3. my \in ProcessStates
      <3>1. process[side] \in ProcessStates /\ "candidate" \in Phases
        BY DEF LocalTypes, Phases
      <3> QED
        BY <3>1 DEF ProcessStates
    <2>4. LocalTypes' /\ process'[side] = my /\ Untouched(side) /\ OthersHold(side)
      <3> HIDE DEF my, output, result, refused
      <3> QED
        BY <1>1, <1>2, <2>1, <2>2, <2>3, ProcessMoved
    <2> QED
      BY <1>1, <1>2, <1>5, <2>4, CandidateSide
  <1> QED
    BY <1>3, <1>4, <1>5

\* A statement of the candidate has been replayed.
LEMMA CandidateReplayedStep ==
    ASSUME LocalTypes, NEW side \in Sides, SideInv(side), CandidateReplayed(side)
    PROVE  LocalTypes' /\ SideInv(side)' /\ OthersHold(side)
  <1> DEFINE output == process[side].output
             result == replay[side].result
             more == process[side].executed + 1 < Len(output.sql)
  <1>1. /\ process[side].phase = "candidate" /\ replay[side].step = "done"
        /\ replay' = [replay EXCEPT ![side] = Idle]
        /\ UNCHANGED <<database, dataset, broken, restored>>
    BY DEF CandidateReplayed, In, Returned, At, Take
  <1>2. ReplayMoves(side) /\ replay'[side].step = "idle" /\ ReplayIsOver(side)
    BY <1>1, IdleFacts, ReplayMoved DEF ReplayMoves, ReplayIsOver
  <1>3. CASE result.error # "none"
    <2> DEFINE case == Observed(Case(side), output, Replays(Scored(0)))
    <2>1. Record(side, case, output)
      BY <1>3 DEF CandidateReplayed, RecordReplays
    <2>2. Recordable(side, case, output)
      BY <1>1, <1>3, FailedIsRecordable
    <2> HIDE DEF case, output, result, more
    <2> QED
      BY <1>1, <1>2, <2>1, <2>2, RecordStep
  <1>4. CASE result.error = "none" /\ ~more
    <2> DEFINE case == Observed(Case(side), output, Compared(Case(side), result))
    <2>1. Record(side, case, output)
      BY <1>4 DEF CandidateReplayed
    <2>2. Recordable(side, case, output)
      BY <1>1, <1>4, ComparedIsRecordable
    <2> HIDE DEF case, output, result, more
    <2> QED
      BY <1>1, <1>2, <2>1, <2>2, RecordStep
  <1>5. CASE result.error = "none" /\ more
    <2> DEFINE my == [process[side] EXCEPT !.executed = @ + 1]
    <2>1. /\ process' = [process EXCEPT ![side].executed = @ + 1]
          /\ UNCHANGED <<policy, cases, runs, decision, answers>>
      BY <1>5 DEF CandidateReplayed
    <2>2. process' = [process EXCEPT ![side] = my]
      BY <2>1 DEF LocalTypes
    <2>3. my \in ProcessStates
      <3>1. process[side] \in ProcessStates
        BY DEF LocalTypes
      <3>2. process[side].executed \in Nat
        BY <3>1 DEF ProcessStates
      <3>3. process[side].executed + 1 \in Nat
        BY <3>2
      <3> QED
        BY <3>1, <3>3 DEF ProcessStates
    <2>4. LocalTypes' /\ process'[side] = my /\ Untouched(side) /\ OthersHold(side)
      <3> HIDE DEF my, output, result, more
      <3> QED
        BY <1>1, <1>2, <2>1, <2>2, <2>3, ProcessMoved
    <2> QED
      BY <1>1, <1>2, <1>5, <2>4, AnotherSide
  <1> QED
    BY <1>3, <1>4, <1>5

\* The run is stored if the fixture looks as it did, and otherwise lost.
LEMMA SaveStep ==
    ASSUME LocalTypes, NEW side \in Sides, SideInv(side), Save(side) \/ SaveFails(side)
    PROVE  LocalTypes' /\ SideInv(side)' /\ OthersHold(side)
  <1>1. /\ process[side].phase = "after" /\ replay[side].step = "idle"
        /\ Len(process[side].read) = Len(TableOrder)
        /\ replay' = replay /\ database' = database
    BY DEF Save, SaveFails, In, FingerprintTaken, At, sandboxVars
  <1>2. CASE Fail(side)
    BY <1>1, <1>2, FailStep
  <1>3. CASE ~Fail(side)
    <2> DEFINE my == [process[side] EXCEPT !.phase = "saved", !.read = <<>>, !.manifest = <<>>]
    <2>1. Becomes(side, my) /\ process[side].read = Expected
      BY <1>3 DEF Save, SaveFails
    <2>2. my.phase = "saved" /\ my.read = <<>> /\ my.executed = process[side].executed
      BY DEF LocalTypes, ProcessStates
    <2>3. my \in ProcessStates
      <3>1. <<>> \in Seq({result.rows : result \in Results}) /\ process[side] \in ProcessStates
        BY DEF LocalTypes
      <3> QED
        BY <3>1 DEF ProcessStates, Phases
    <2> HIDE DEF my
    <2>4. LocalTypes' /\ process'[side] = my /\ Untouched(side) /\ OthersHold(side)
      BY <1>1, <2>1, <2>3, BecomesStep DEF ReplayMoves
    <2> QED
      BY <1>1, <2>1, <2>2, <2>4, SavedSide
  <1> QED
    BY <1>2, <1>3

\* A replay ends and keeps to its statement.
LEMMA DoneFacts ==
    ASSUME LocalTypes, NEW side \in Sides, NEW result \in Results, Done(side, result)
    PROVE  /\ ReplayMoves(side) /\ replay'[side].step = "done"
           /\ replay'[side].sql = replay[side].sql /\ replay'[side].result = result
  <1> DEFINE its == [Idle EXCEPT !.step = "done", !.sql = replay[side].sql, !.result = result]
  <1>1. replay' = [replay EXCEPT ![side] = its]
    BY DEF Done
  <1>2. replay[side] \in ReplayStates
    BY LocalAssumption DEF LocalTypes
  <1>3. /\ its \in ReplayStates /\ its.step = "done" /\ its.sql = replay[side].sql
        /\ its.result = result
    <2>1. Idle \in ReplayStates /\ replay[side].sql \in Tables \cup Statements \cup {"none"}
      BY <1>2, IdleFacts DEF ReplayStates
    <2> QED
      BY <2>1 DEF ReplayStates
  <1> HIDE DEF its
  <1>4. ReplayMoves(side)
    BY <1>1, <1>3 DEF ReplayMoves
  <1> QED
    BY <1>1, <1>3, <1>4, ReplayMoved

\* A replay makes a step of its own.
LEMMA ReplaySteps ==
    ASSUME LocalTypes, NEW side \in Sides, SideInv(side), ReplayStep(side)
    PROVE  LocalTypes' /\ SideInv(side)' /\ OthersHold(side)
  <1>1. /\ UNCHANGED <<policy, cases, runs, answers, process, dataset, database, restored>>
        /\ broken' = broken /\ (Begin(side) \/ Query(side))
    BY DEF ReplayStep, evidence, Replay, Begin, Query
  <1>2. CASE Begin(side)
    <2> DEFINE its == [replay[side] EXCEPT !.step = "query", !.readonly = TRUE, !.bounded = TRUE]
    <2>1. replay[side] \in ReplayStates /\ side \in Clients
      BY LocalAssumption DEF LocalTypes
    <2>2. replay' = [replay EXCEPT ![side] = its]
      BY <1>2, <2>1 DEF Begin, LocalTypes
    <2>3. its \in ReplayStates
      BY <2>1 DEF ReplayStates
    <2>4. ReplayMoves(side)
      BY <2>2, <2>3 DEF ReplayMoves
    <2> HIDE DEF its
    <2>5. LocalTypes' /\ Waiting(side) /\ OthersHold(side)
      BY <1>1, <2>4, ReplayWaits
    <2> QED
      BY <1>1, <1>2, <2>5, BeginSide
  <1>3. CASE Query(side)
    <2> DEFINE s == replay[side].sql
    <2>1. replay[side].step = "query" /\ replay[side].readonly
      BY <1>3 DEF Query, At, SideInv, ReplayIsSafe
    <2>2. s \in Tables \cup Statements
      BY <2>1, DueStatement
    <2>3. PICK result \in Outcomes(s) : Done(side, result)
      <3>1. CASE s \in Endless
        BY <1>3, <3>1 DEF Query, Outcomes
      <3>2. CASE s \notin Endless /\ s \in Writing
        BY <1>3, <2>1, <3>2 DEF Query, Outcomes
      <3>3. CASE s \notin Endless /\ s \notin Writing
        <4>1. PICK raw \in Answers(s) : Done(side, ReadResult(raw))
          BY <1>3, <3>3 DEF Query
        <4>2. ReadResult(raw) \in Outcomes(s)
          BY <3>3 DEF Outcomes
        <4> QED
          BY <4>1, <4>2
      <3> QED
        BY <3>1, <3>2, <3>3
    <2>4. result \in Results
      BY <2>2, <2>3, OutcomesAreResults
    <2>5. /\ ReplayMoves(side) /\ replay'[side].step = "done" /\ replay'[side].sql = s
          /\ replay'[side].result = result
      BY <2>3, <2>4, DoneFacts
    <2>6. LocalTypes' /\ Waiting(side) /\ OthersHold(side)
      BY <1>1, <2>5, ReplayWaits
    <2> QED
      BY <1>1, <2>1, <2>3, <2>5, <2>6, EndedSide
  <1> QED
    BY <1>1, <1>2, <1>3

\* The infrastructure fails a replay.
LEMMA BreakStep ==
    ASSUME LocalTypes, NEW side \in Sides, SideInv(side), BreakReplay(side)
    PROVE  LocalTypes' /\ SideInv(side)' /\ OthersHold(side)
  <1> DEFINE n == Len(cases[side]) + 1
             due == process[side].phase \in {"reference", "candidate"}
  <1>1. /\ UNCHANGED <<policy, cases, runs, answers, process, dataset, database, restored>>
        /\ Done(side, Failure("unavailable")) /\ replay[side].step # "idle"
        /\ broken' = IF due THEN [broken EXCEPT ![side] = @ \cup {n}] ELSE broken
    BY DEF BreakReplay, Break, At, In
  <1>2. Failure("unavailable") \in Results /\ Failure("unavailable").error # "none"
    BY FailuresAreResults DEF Codes
  <1>3. /\ ReplayMoves(side) /\ replay'[side].step = "done"
        /\ replay'[side].sql = replay[side].sql /\ replay'[side].result.error # "none"
    BY <1>1, <1>2, DoneFacts
  <1>4. cases[side] \in Seq(BridgeCases)
    BY DEF LocalTypes
  <1>5. n \in Nat
    BY <1>4
  <1> HIDE DEF n
  <1>6. broken' = broken \/ \E c \in Nat : broken' = [broken EXCEPT ![side] = @ \cup {c}]
    BY <1>1, <1>5
  <1>7. /\ broken[side] \subseteq broken'[side]
        /\ due => n \in broken'[side]
    BY <1>1 DEF LocalTypes
  <1>8. LocalTypes' /\ Waiting(side) /\ OthersHold(side)
    BY <1>1, <1>3, <1>6, ReplayWaits
  <1> QED
    BY <1>1, <1>3, <1>7, <1>8, EndedSide DEF n

\* A step of a command, of the store or of the infrastructure.
Moves(side) == Step(side) \/ SaveFails(side) \/ BreakReplay(side)

\* Every step of a command keeps the types and what is known of it.
LEMMA MovesStep ==
    ASSUME LocalTypes, NEW side \in Sides, SideInv(side), Moves(side)
    PROVE  LocalTypes' /\ SideInv(side)' /\ OthersHold(side)
  BY RunOfflineStep, StartStep, CallsStep, FingerprintTableStep, VerifyStep, InvokeStep,
     ReferenceReplayedStep, CandidateReplayedStep, SaveStep, ReplaySteps, BreakStep
  DEF Moves, Step

\* What such a step leaves alone; a command whose run is stored does nothing more.
LEMMA MovesLittle ==
    ASSUME NEW side \in Sides, SideInv(side), Moves(side)
    PROVE  /\ UNCHANGED <<policy, decision, dataset, database, restored>>
           /\ process[side].phase # "saved"
           /\ offline' = offline \/ RunOffline(side)
  <1>1. CASE RunOffline(side) \/ Start(side)
    BY <1>1 DEF RunOffline, Start, Becomes, Fail, evidence, sandboxVars, In
  <1>2. CASE FingerprintCall(side) \/ ReferenceCall(side) \/ CandidateCall(side)
    BY <1>2 DEF FingerprintCall, ReferenceCall, CandidateCall, Call, Execute, evidence, In
  <1>3. CASE FingerprintTable(side) \/ Verify(side) \/ Save(side) \/ SaveFails(side)
    BY <1>3 DEF FingerprintTable, Verify, Save, SaveFails, Becomes, Fail, Take, evidence,
                sandboxVars, In
  <1>4. CASE Invoke(side)
    BY <1>4 DEF Invoke, Answered, Score, Record, AppendCase, sandboxVars, In
  <1>5. CASE ReferenceReplayed(side) \/ CandidateReplayed(side)
    BY <1>5 DEF ReferenceReplayed, CandidateReplayed, RecordReplays, Record, AppendCase, Take, In
  <1>6. CASE ReplayStep(side) \/ BreakReplay(side)
    <2>1. replay[side].step # "idle"
      BY <1>6 DEF ReplayStep, Replay, Begin, Query, BreakReplay, Break, At
    <2>2. process[side].phase # "saved"
      BY <2>1 DEF SideInv, ReplayIsDue
    <2> QED
      BY <1>6, <2>2 DEF ReplayStep, Replay, Begin, Query, BreakReplay, Break, evidence
  <1> QED
    BY <1>1, <1>2, <1>3, <1>4, <1>5, <1>6 DEF Moves, Step

(***************************************************************************)
(* The steps of all                                                        *)
(***************************************************************************)

\* The rest of the invariant stays while no decision is made.
LEMMA DecisionStays ==
    ASSUME DecidedAtLast, MissingEvidenceFailsClosed, UNCHANGED <<policy, decision>>,
           \/ UNCHANGED <<cases, process>>
           \/ \E side \in Sides : process[side].phase # "saved"
    PROVE  DecidedAtLast' /\ MissingEvidenceFailsClosed'
  <1>1. CASE UNCHANGED <<cases, process>>
    BY <1>1 DEF DecidedAtLast, MissingEvidenceFailsClosed, Saved, In
  <1>2. CASE \E side \in Sides : process[side].phase # "saved"
    <2>1. decision.status = "undecided"
      BY <1>2 DEF DecidedAtLast, Saved, In
    <2> QED
      BY <2>1 DEF DecidedAtLast, MissingEvidenceFailsClosed
  <1> QED
    BY <1>1, <1>2

\* The offline command stores what the evaluators say of the answer it got.
LEMMA OfflineStep ==
    ASSUME OfflineIsBuiltIn, NEW side \in Sides, RunOffline(side)
    PROVE  OfflineIsBuiltIn'
  <1> DEFINE scored(override) ==
                BuiltIn(offline.case, FakeAnswer(offline.payload, override))
  <1>1. PICK override \in Scenarios :
           LET answer == FakeAnswer(offline.payload, override)
           IN  offline' = [offline EXCEPT !.results[side] =
                 IF answer.failed THEN [failed |-> TRUE]
                 ELSE [failed |-> FALSE, observations |-> BuiltIn(offline.case, answer)]]
    BY DEF RunOffline
  <1> DEFINE r == IF FakeAnswer(offline.payload, override).failed THEN [failed |-> TRUE]
                  ELSE [failed |-> FALSE, observations |-> scored(override)]
  <1>2. /\ offline' = [offline EXCEPT !.results[side] = r]
        /\ r.failed \/ r.observations = scored(override)
    <2>1. offline' = [offline EXCEPT !.results[side] = r]
      BY <1>1
    <2>2. r.failed \/ r.observations = scored(override)
      <3> HIDE DEF scored
      <3> QED
        OBVIOUS
    <2> QED
      BY <2>1, <2>2
  <1> HIDE DEF r
  <1>3. dataset = <<>> /\ dataset' = dataset
    BY DEF RunOffline
  <1>4. offline = [case |-> offline.case, payload |-> offline.payload,
                   results |-> [s \in Sides |-> offline.results[s]]]
    BY DEF OfflineIsBuiltIn
  <1>5. /\ offline' = [case |-> offline.case, payload |-> offline.payload,
                       results |-> [offline.results EXCEPT ![side] = r]]
        /\ offline.results = [s \in Sides |-> offline.results[s]]
    BY <1>2, <1>4
  <1>6. /\ offline'.case = offline.case /\ offline'.payload = offline.payload
        /\ offline'.results = [offline.results EXCEPT ![side] = r]
    BY <1>5
  <1>7. /\ offline'.results = [s \in Sides |-> offline'.results[s]]
        /\ offline'.results[side] = r
        /\ \A other \in Sides : other # side => offline'.results[other] = offline.results[other]
    BY <1>5, <1>6
  <1>8. offline' = [case |-> offline'.case, payload |-> offline'.payload,
                    results |-> [s \in Sides |-> offline'.results[s]]]
    BY <1>5, <1>6, <1>7
  <1>9. ASSUME NEW other \in Sides
        PROVE  \/ offline'.results[other].failed
               \/ \E o \in Scenarios : offline'.results[other].observations = scored(o)
    <2>1. CASE other = side
      BY <1>2, <1>7, <2>1
    <2>2. CASE other # side
      <3>1. \/ offline.results[other].failed
            \/ \E o \in Scenarios : offline.results[other].observations = scored(o)
        BY <1>3 DEF OfflineIsBuiltIn
      <3> HIDE DEF scored
      <3> QED
        BY <1>7, <2>2, <3>1
    <2> QED
      BY <2>1, <2>2
  <1> QED
    BY <1>3, <1>6, <1>8, <1>9 DEF OfflineIsBuiltIn

\* A command moves, and all that is known stays.
LEMMA CommandStep ==
    ASSUME LocalInv, NEW side \in Sides, Moves(side)
    PROVE  LocalInv'
  <1>1. /\ LocalTypes /\ \A s \in Sides : SideInv(s)
        /\ DecidedAtLast /\ MissingEvidenceFailsClosed /\ OfflineIsBuiltIn
    BY LocalInvIsSideInv
  <1>2. LocalTypes' /\ SideInv(side)' /\ OthersHold(side)
    BY <1>1, MovesStep
  <1>3. /\ UNCHANGED <<policy, decision, dataset, database, restored>>
        /\ process[side].phase # "saved" /\ (offline' = offline \/ RunOffline(side))
    BY <1>1, MovesLittle
  <1>4. \A other \in Sides : SideInv(other)'
    <2> SUFFICES ASSUME NEW other \in Sides PROVE SideInv(other)'
      OBVIOUS
    <2>1. CASE other = side
      BY <1>2, <2>1
    <2>2. CASE other # side
      <3>1. Noticeable(other)
        BY <1>3 DEF Noticeable
      <3>2. UNCHANGED Held(other) /\ UNCHANGED dataset
        BY <1>2, <1>3, <2>2 DEF OthersHold
      <3> QED
        BY <1>1, <1>2, <3>1, <3>2, BystanderSide
    <2> QED
      BY <2>1, <2>2
  <1>5. DecidedAtLast' /\ MissingEvidenceFailsClosed'
    BY <1>1, <1>3, DecisionStays
  <1>6. OfflineIsBuiltIn'
    <2>1. CASE RunOffline(side)
      BY <1>1, <2>1, OfflineStep
    <2>2. CASE offline' = offline
      BY <1>1, <1>3, <2>2 DEF OfflineIsBuiltIn
    <2> QED
      BY <1>3, <2>1, <2>2
  <1>7. LocalInv' <=> /\ LocalTypes' /\ \A s \in Sides : SideInv(s)'
                      /\ DecidedAtLast' /\ MissingEvidenceFailsClosed' /\ OfflineIsBuiltIn'
    BY DEF LocalInv, SideInv, UnsafeSqlNeverSucceeds, SafeAnswer
  <1> QED
    BY <1>2, <1>4, <1>5, <1>6, <1>7

\* Nobody but the owners of the database and the comparator moves.
LEMMA WorldStep ==
    ASSUME LocalInv, LocalTypes',
           UNCHANGED <<cases, answers, broken, dataset, process, replay, offline>>,
           \A side \in Sides : Noticeable(side),
           DecidedAtLast', MissingEvidenceFailsClosed'
    PROVE  LocalInv'
  <1>1. LocalTypes /\ (\A s \in Sides : SideInv(s)) /\ OfflineIsBuiltIn
    BY LocalInvIsSideInv
  <1>2. \A side \in Sides : SideInv(side)'
    <2> SUFFICES ASSUME NEW side \in Sides PROVE SideInv(side)'
      OBVIOUS
    <2>1. UNCHANGED Held(side) /\ UNCHANGED dataset
      BY DEF Held
    <2> QED
      BY <1>1, <2>1, BystanderSide
  <1>3. OfflineIsBuiltIn'
    BY <1>1 DEF OfflineIsBuiltIn
  <1> QED
    BY <1>2, <1>3 DEF LocalInv, SideInv, UnsafeSqlNeverSucceeds, SafeAnswer

\* The tables are changed by anyone, and changed back on record.
LEMMA TablesStep ==
    ASSUME LocalInv, NEW t \in Tables, ChangeFixture(t) \/ RestoreFixture(t)
    PROVE  LocalInv'
  <1>1. LocalTypes /\ DecidedAtLast /\ MissingEvidenceFailsClosed
    BY LocalInvIsSideInv
  <1>2. /\ UNCHANGED <<policy, cases, runs, decision, answers, offline, broken, dataset,
                       process, replay>>
        /\ \/ restored' = restored /\ database' = [database EXCEPT ![t] = Changed]
           \/ /\ restored' = (restored \/ \E side \in Sides : UnderWay(side))
              /\ database' = [database EXCEPT ![t] = Reviewed]
    BY DEF ChangeFixture, RestoreFixture, ChangeTable, RestoreTable, evidence
  <1>3. database' \in [Tables -> {Reviewed, Changed}] /\ restored' \in BOOLEAN
    BY <1>1, <1>2 DEF LocalTypes
  <1>4. LocalTypes'
    BY <1>1, <1>2, <1>3 DEF LocalTypes
  <1>5. ASSUME NEW side \in Sides PROVE Noticeable(side)
    <2>1. CASE restored' = restored /\ database' = [database EXCEPT ![t] = Changed]
      <3>1. \A table \in Tables : database[table] = Changed => database'[table] = Changed
        BY <1>1, <2>1 DEF LocalTypes
      <3> QED
        BY <1>1, <2>1, <3>1 DEF Noticeable, LocalTypes
    <2>2. CASE restored' = (restored \/ \E s \in Sides : UnderWay(s))
      BY <1>1, <2>2 DEF Noticeable, LocalTypes
    <2> QED
      BY <1>2, <2>1, <2>2
  <1>6. DecidedAtLast' /\ MissingEvidenceFailsClosed'
    BY <1>1, <1>2, DecisionStays
  <1> QED
    BY <1>2, <1>4, <1>5, <1>6, WorldStep

\* What a metric counts for, in a case that did not fail.
LEMMA CountedAsDue ==
    ASSUME NEW case, NEW result, NEW m, SkippedAsDue(case, result),
           CaseValue(result, m).status # "error"
    PROVE  CaseValue(result, m).status = IF Applies(case, m) THEN "scored" ELSE "skipped"
  <1>1. Error.status = "error" /\ Skipped.status = "skipped" /\ Scored(0).status = "scored"
        /\ Scored(1).status = "scored"
    BY DEF Error, Skipped, Scored
  <1>2. ~result.failed /\ m \in DOMAIN result.observations
        /\ CaseValue(result, m) = result.observations[m]
    BY <1>1 DEF CaseValue
  <1>3. /\ result.observations \in [BridgeMetrics -> Marks]
        /\ \A metric \in BridgeMetrics :
              result.observations[metric] = Skipped <=> ~Applies(case, metric)
    BY <1>2 DEF SkippedAsDue
  <1>4. m \in BridgeMetrics /\ result.observations[m] \in Marks
    BY <1>2, <1>3
  <1>5. result.observations[m] = Skipped <=> ~Applies(case, m)
    BY <1>3, <1>4
  <1> QED
    BY <1>1, <1>2, <1>4, <1>5 DEF Marks

\* A release that passes lacks no evidence on one side only.
LEMMA PassedRelease ==
    ASSUME LocalInv, CompareRuns, \A side \in Sides : Saved(side), decision'.status = "passed",
           NEW gate \in policy, NEW i \in Scope(gate.slice)
    PROVE  CaseValue(cases["baseline"][i], gate.metric).status
             = CaseValue(cases["candidate"][i], gate.metric).status
  <1>1. /\ Aggregate(cases["baseline"], gate.slice, gate.metric).errors = 0
        /\ Aggregate(cases["candidate"], gate.slice, gate.metric).errors = 0
    BY ComparedRuns DEF CoveragePasses
  <1>2. ASSUME NEW side \in Sides PROVE SkippedAsDue(dataset[i], cases[side][i])
    <2>1. Len(cases[side]) = CaseCount /\ cases[side] \in Seq(BridgeCases)
      BY LocalInvIsSideInv DEF SideInv, Progress, Saved, In, LocalTypes
    <2>2. i \in DOMAIN cases[side]
      BY <2>1 DEF Scope, Cases
    <2> QED
      BY <2>2, LocalInvIsSideInv DEF SideInv
  <1>3. ASSUME NEW side \in Sides,
               Aggregate(cases[side], gate.slice, gate.metric).errors = 0
        PROVE  CaseValue(cases[side][i], gate.metric).status
                 = IF Applies(dataset[i], gate.metric) THEN "scored" ELSE "skipped"
    BY <1>2, <1>3, NoErrors, CountedAsDue
  <1> QED
    BY <1>1, <1>3 DEF Sides

\* The decision is made.
LEMMA DecisionStep ==
    ASSUME LocalInv, Compare
    PROVE  LocalInv'
  <1>1. LocalTypes /\ DecidedAtLast /\ MissingEvidenceFailsClosed
    BY LocalInvIsSideInv
  <1>2. /\ \A side \in Sides : Saved(side)
        /\ UNCHANGED <<policy, cases, runs, replay, database, dataset, process, answers,
                       offline, broken, restored>>
        /\ (decision' = [status |-> "refused", gates |-> <<>>]) \/ CompareRuns
    BY DEF Compare, CompareRuns, sandboxVars, Saved
  <1>3. LocalTypes'
    BY <1>1, <1>2 DEF LocalTypes
  <1>4. \A side \in Sides : Noticeable(side)
    BY <1>2 DEF Noticeable
  <1>5. DecidedAtLast'
    BY <1>2 DEF DecidedAtLast, Saved, In
  <1>6. MissingEvidenceFailsClosed'
    <2> SUFFICES ASSUME decision'.status = "passed", NEW gate \in policy,
                        NEW i \in Scope(gate.slice)
                 PROVE  CaseValue(cases["baseline"][i], gate.metric).status
                          = CaseValue(cases["candidate"][i], gate.metric).status
      BY <1>2 DEF MissingEvidenceFailsClosed
    <2>1. CompareRuns
      BY <1>2
    <2> QED
      BY <1>2, <2>1, PassedRelease
  <1> QED
    BY <1>2, <1>3, <1>4, <1>5, <1>6, WorldStep

\* Nothing has been done.
LEMMA InitLocal == LocalInit => LocalInv
  <1> SUFFICES ASSUME LocalInit PROVE LocalInv
    OBVIOUS
  <1>1. /\ policy \in Policies /\ cases = [side \in Sides |-> <<>>]
        /\ runs = [side \in Sides |-> Running] /\ decision.status = "undecided"
        /\ database \in [Tables -> {Reviewed, Changed}] /\ replay = [c \in Clients |-> Idle]
        /\ dataset \in Datasets \cup {<<>>}
        /\ process = [side \in Sides |-> NoProcess] /\ answers = [side \in Sides |-> <<>>]
        /\ broken = [side \in Sides |-> {}] /\ restored = FALSE
    BY DEF LocalInit, Init, SandboxInit, Undecided
  <1>2. NoProcess \in ProcessStates
    <2>1. NoProcess = [phase |-> "start", options |-> NoOptions, mode |-> "none",
                       manifest |-> <<>>, read |-> <<>>, output |-> Invalid, executed |-> 0]
      BY DEF NoProcess
    <2>2. <<>> \in Seq({result.rows : result \in Results})
      OBVIOUS
    <2> QED
      BY <2>1, <2>2, InvalidFacts DEF ProcessStates, Phases
  <1>3. LocalTypes
    <2>1. /\ cases \in [Sides -> Seq(BridgeCases)] /\ answers \in [Sides -> Seq(Outputs)]
          /\ broken \in [Sides -> SUBSET Nat] /\ runs = [side \in Sides |-> runs[side]]
      BY <1>1
    <2>2. replay \in [Clients -> ReplayStates] /\ process \in [Sides -> ProcessStates]
      BY <1>1, <1>2, IdleFacts
    <2> QED
      BY <1>1, <2>1, <2>2 DEF LocalTypes
  <1>4. \A side \in Sides :
           /\ process[side].phase = "start" /\ process[side].read = <<>>
           /\ process[side].executed = 0 /\ cases[side] = <<>> /\ answers[side] = <<>>
           /\ replay[side].step = "idle"
    BY <1>1, IdleFacts, LocalAssumption DEF NoProcess
  <1>5. \A side \in Sides : SideInv(side)
    BY <1>4 DEF SideInv, Progress, ReplayIsDue, ReplayIsSafe, CandidateIsSafe, EvidenceIsGenuine
  <1>6. DecidedAtLast /\ MissingEvidenceFailsClosed
    BY <1>1 DEF DecidedAtLast, MissingEvidenceFailsClosed
  <1>7. OfflineIsBuiltIn
    <2>1. PICK case, payload :
             /\ offline = [case |-> case, payload |-> payload, results |-> NoResults]
             /\ dataset = <<>> => case \in Expectations
      BY LocalAssumption DEF LocalInit
    <2> QED
      BY <2>1 DEF OfflineIsBuiltIn, NoResults
  <1> QED
    BY <1>3, <1>5, <1>6, <1>7, LocalInvIsSideInv

\* Every step preserves the invariant.
LEMMA NextLocal == LocalInv /\ [LocalNext]_localVars => LocalInv'
  <1> SUFFICES ASSUME LocalInv, [LocalNext]_localVars PROVE LocalInv'
    OBVIOUS
  <1>1. ASSUME NEW side \in Sides, Step(side) \/ SaveFails(side) \/ BreakReplay(side)
        PROVE  LocalInv'
    BY <1>1, CommandStep DEF Moves
  <1>2. CASE Compare
    BY <1>2, DecisionStep
  <1>3. ASSUME NEW t \in Tables, ChangeFixture(t) \/ RestoreFixture(t) PROVE LocalInv'
    BY <1>3, TablesStep
  <1>4. CASE UNCHANGED localVars
    <2>1. UNCHANGED <<policy, cases, runs, decision, database, replay, dataset, process,
                      answers, offline, broken, restored>>
      BY <1>4 DEF localVars
    <2>2. LocalTypes /\ DecidedAtLast /\ MissingEvidenceFailsClosed
      BY LocalInvIsSideInv
    <2>3. LocalTypes'
      BY <2>1, <2>2 DEF LocalTypes
    <2>4. \A side \in Sides : Noticeable(side)
      BY <2>1 DEF Noticeable
    <2>5. DecidedAtLast' /\ MissingEvidenceFailsClosed'
      BY <2>1, <2>2, DecisionStays
    <2> QED
      BY <2>1, <2>3, <2>4, <2>5, WorldStep
  <1> QED
    BY <1>1, <1>2, <1>3, <1>4 DEF LocalNext

\* In any interleaving of two commands, their replays, the owners of the database and the
\* infrastructure, for any dataset and whatever the target answers.
THEOREM LocalInvariant == LocalSpec => []LocalInv
  <1> QED
    BY InitLocal, NextLocal, PTL DEF LocalSpec

\* Whatever the target emits, a statement that the policy refuses, that writes or that does
\* not end is never recorded as executed (DataBridgeSqlEvaluator, PsycopgPostgresExecutor).
THEOREM UnsafeSqlIsNotExecuted == LocalSpec => []UnsafeSqlNeverSucceeds
  <1>1. LocalInv => UnsafeSqlNeverSucceeds
    BY DEF LocalInv
  <1> QED
    BY <1>1, LocalInvariant, PTL

\* With the evaluators of the program, a release passes only on cases that both runs scored
\* or both skipped, although compare_runs counts them only (_coverage_passes).
THEOREM MissingEvidencePreventsRelease == LocalSpec => []MissingEvidenceFailsClosed
  <1>1. LocalInv => MissingEvidenceFailsClosed
    BY DEF LocalInv
  <1> QED
    BY <1>1, LocalInvariant, PTL

\* Two stored runs observed the same for the same answer to the same case, unless a replay
\* broke in it, the fixture was changed and changed back under a run (_verified_fixture), or
\* a statement of the case or of the answer is volatile.
THEOREM EvidenceCanBeReproduced == LocalSpec => []EvidenceIsReproducible
  <1>1. ASSUME LocalInv PROVE EvidenceIsReproducible
    <2> SUFFICES ASSUME ~restored, \A side \in Sides : Saved(side), NEW c \in 1 .. CaseCount,
                        answers["baseline"][c] = answers["candidate"][c],
                        answers["baseline"][c] # Invalid,
                        Steady(dataset[c], answers["baseline"][c]),
                        \A side \in Sides : c \notin broken[side]
                 PROVE  cases["baseline"][c] = cases["candidate"][c]
      BY DEF EvidenceIsReproducible
    <2>1. ASSUME NEW side \in Sides, answers[side][c] # Invalid,
                 Steady(dataset[c], answers[side][c])
          PROVE  cases[side][c] = Undisturbed(dataset[c], answers[side][c])
      <3>1. /\ Len(cases[side]) = CaseCount /\ cases[side] \in Seq(BridgeCases)
            /\ Genuine(side)
        BY <1>1, LocalInvIsSideInv DEF SideInv, Progress, EvidenceIsGenuine, Saved, In, LocalTypes
      <3>2. c \in DOMAIN cases[side]
        BY <3>1
      <3> QED
        BY <2>1, <3>1, <3>2 DEF Genuine
    <2> QED
      BY <2>1 DEF Sides
  <1> QED
    BY <1>1, LocalInvariant, PTL

\* What the built-in evaluators say of two answers to one case.
LEMMA FairToAnswers ==
    ASSUME NEW case \in Expectations, NEW x, NEW y, NEW m \in DOMAIN BuiltIn(case, x)
    PROVE  /\ BuiltIn(case, x)[m] = Skipped <=> BuiltIn(case, y)[m] = Skipped
           /\ /\ BuiltIn(case, x)["exact_match"] = Scored(1)
              /\ m \in {"normalized_match", "numeric_within_tolerance"}
              => BuiltIn(case, x)[m] # Scored(0)
  <1>1. /\ \A v : Verdict(v) # Skipped
        /\ Verdict(TRUE) # Scored(0) /\ Verdict(FALSE) # Scored(1)
        /\ Error # Skipped /\ Error # Scored(0) /\ Skipped # Scored(0) /\ Skipped # Scored(1)
    BY DEF Verdict, Scored, Skipped, Error
  <1>2. \A z : BuiltIn(case, z) =
           [exact_match |-> ExactMatch(case, z), normalized_match |-> NormalizedMatch(case, z),
            json_schema_valid |-> JsonSchema(case, z),
            numeric_within_tolerance |-> NumericTolerance(case, z),
            refusal_correct |-> Refusal(case, z)]
    BY DEF BuiltIn
  <1>3. /\ ExactMatch(case, x) = Skipped <=> ExactMatch(case, y) = Skipped
        /\ NormalizedMatch(case, x) = Skipped <=> NormalizedMatch(case, y) = Skipped
        /\ JsonSchema(case, x) = Skipped <=> JsonSchema(case, y) = Skipped
        /\ NumericTolerance(case, x) = Skipped <=> NumericTolerance(case, y) = Skipped
        /\ Refusal(case, x) = Skipped <=> Refusal(case, y) = Skipped
    BY <1>1 DEF ExactMatch, NormalizedMatch, JsonSchema, NumericTolerance, Refusal
  <1>4. ASSUME ExactMatch(case, x) = Scored(1)
        PROVE  NormalizedMatch(case, x) # Scored(0) /\ NumericTolerance(case, x) # Scored(0)
    <2>1. x.output = case.expected
      BY <1>1, <1>4 DEF ExactMatch
    <2>2. NormalizedMatch(case, x) # Scored(0)
      BY <1>1, <2>1 DEF NormalizedMatch
    <2>3. NumericTolerance(case, x) # Scored(0)
      <3>1. ASSUME case.tolerance # NoTolerance, case.expected.type = "number"
            PROVE  /\ x.output.value - case.expected.value <= case.tolerance
                   /\ -(x.output.value - case.expected.value) <= case.tolerance
        <4>1. case.expected.value \in Int /\ case.tolerance \in Nat
          BY <3>1, LocalAssumption
        <4> QED
          BY <2>1, <4>1
      <3> QED
        BY <1>1, <3>1 DEF NumericTolerance
    <2> QED
      BY <2>2, <2>3
  <1> QED
    BY <1>2, <1>3, <1>4

\* Whether a built-in evaluator applies does not depend on the answer, and an exact match is
\* not faulted by another measure of correctness (adapters/scorers.py).
THEOREM BuiltInsTreatRunsAlike == LocalSpec => []BuiltInsAreFair
  <1>1. ASSUME LocalInv PROVE BuiltInsAreFair
    <2> SUFFICES ASSUME \A side \in Sides : ~offline.results[side].failed
                 PROVE  LET b == offline.results["baseline"].observations
                            c == offline.results["candidate"].observations
                        IN  \A m \in DOMAIN b :
                               /\ b[m] = Skipped <=> c[m] = Skipped
                               /\ /\ b["exact_match"] = Scored(1)
                                  /\ m \in {"normalized_match", "numeric_within_tolerance"}
                                  => b[m] # Scored(0)
      BY DEF BuiltInsAreFair
    <2>1. ASSUME NEW side \in Sides
          PROVE  /\ offline.case \in Expectations
                 /\ \E x : offline.results[side].observations = BuiltIn(offline.case, x)
      BY <1>1, LocalInvIsSideInv DEF OfflineIsBuiltIn
    <2>2. PICK x : offline.results["baseline"].observations = BuiltIn(offline.case, x)
      BY <2>1 DEF Sides
    <2>3. PICK y : offline.results["candidate"].observations = BuiltIn(offline.case, y)
      BY <2>1 DEF Sides
    <2>4. offline.case \in Expectations
      BY <2>1 DEF Sides
    <2> QED
      BY <2>2, <2>3, <2>4, FairToAnswers
  <1> QED
    BY <1>1, LocalInvariant, PTL

(***************************************************************************)
(* The commands carry out an evaluation                                    *)
(***************************************************************************)

\* The instance and the module mean the same by what does not depend on the state.
LEMMA SameCounts ==
    /\ Commanded!Outcome = Outcome /\ Commanded!Metrics = Metrics
    /\ \A outcomes : Commanded!Tally(outcomes) = Tally(outcomes)
    /\ \A failed, failures, observations :
          Commanded!CaseResult(failed, failures, observations)
             = CaseResult(failed, failures, observations)
  <1>1. \A S : Commanded!Cardinality(S) = Cardinality(S)
    BY DEF Commanded!Cardinality, Cardinality
  <1>2. \A f : Commanded!SumFunction(f) = SumFunction(f)
    BY DEF Commanded!SumFunction, SumFunction, Commanded!SumFunctionOnSet, SumFunctionOnSet,
      Commanded!FoldFunctionOnSet, FoldFunctionOnSet, Commanded!MapThenFoldSet, MapThenFoldSet
  <1>3. \A outcomes : Commanded!Tally(outcomes) = Tally(outcomes)
    BY <1>1, <1>2 DEF Commanded!Tally, Tally
  <1> QED
  BY <1>3 DEF Commanded!Outcome, Outcome, Commanded!Metrics, Metrics,
         Commanded!CaseResult, CaseResult,
         Commanded!Scored, Scored, Commanded!Skipped, Skipped, Commanded!Error, Error

\* So do the comparator and the summaries.
LEMMA SameVerdicts ==
    /\ \A results : /\ Commanded!RunStatus(results) = RunStatus(results)
                    /\ Commanded!Summaries(results) = Summaries(results)
    /\ \A slice : Commanded!Scope(slice) = Scope(slice)
    /\ \A case, m : Commanded!CaseValue(case, m) = CaseValue(case, m)
    /\ \A results, slice, m : Commanded!Aggregate(results, slice, m) = Aggregate(results, slice, m)
    /\ \A gate, b, c : /\ Commanded!CoveragePasses(b, c) = CoveragePasses(b, c)
                       /\ Commanded!ThresholdPasses(gate, c) = ThresholdPasses(gate, c)
                       /\ Commanded!RegressionPasses(gate, b, c) = RegressionPasses(gate, b, c)
                       /\ Commanded!CompareCase(gate, b, c) = CompareCase(gate, b, c)
  <1>1. \A results, e, m :
           [c \in Cases |-> Commanded!SummarizedOutcome(results[c], e, m)]
              = [c \in Cases |-> SummarizedOutcome(results[c], e, m)]
    BY DEF Commanded!SummarizedOutcome, SummarizedOutcome, Commanded!Error, Error
  <1>2. \A results : Commanded!Summaries(results) = Summaries(results)
    <2> DEFINE owner(m) == CHOOSE e \in Evaluators : m \in MetricsOf[e]
    <2>1. \A results :
             /\ Commanded!Summaries(results)
                  = [m \in Metrics |->
                       Tally([c \in Cases |->
                                Commanded!SummarizedOutcome(results[c], owner(m), m)])]
             /\ Summaries(results)
                  = [m \in Metrics |->
                       Tally([c \in Cases |-> SummarizedOutcome(results[c], owner(m), m)])]
      BY SameCounts DEF Commanded!Summaries, Summaries, Commanded!Cases, Cases
    <2> HIDE DEF owner
    <2>2. ASSUME NEW results, NEW m
          PROVE  Tally([c \in Cases |->
                          Commanded!SummarizedOutcome(results[c], owner(m), m)])
                   = Tally([c \in Cases |-> SummarizedOutcome(results[c], owner(m), m)])
      BY <1>1
    <2> QED
      BY <2>1, <2>2
  <1>3. \A results : Commanded!RunStatus(results) = RunStatus(results)
    BY <1>2, SameCounts
    DEF Commanded!RunStatus, RunStatus, Commanded!Completed, Completed, Commanded!Cases, Cases,
        Commanded!Error, Error
  <1>4. \A slice : Commanded!Scope(slice) = Scope(slice)
    BY DEF Commanded!Scope, Scope, Commanded!Cases, Cases
  <1>5. \A case, m : Commanded!CaseValue(case, m) = CaseValue(case, m)
    BY DEF Commanded!CaseValue, CaseValue, Commanded!Error, Error
  <1>6. \A results, slice, m : Commanded!Aggregate(results, slice, m) = Aggregate(results, slice, m)
    BY <1>4, <1>5, SameCounts DEF Commanded!Aggregate, Aggregate
  <1>7. \A gate, b, c : /\ Commanded!CoveragePasses(b, c) = CoveragePasses(b, c)
                       /\ Commanded!ThresholdPasses(gate, c) = ThresholdPasses(gate, c)
                       /\ Commanded!RegressionPasses(gate, b, c) = RegressionPasses(gate, b, c)
    BY DEF Commanded!CoveragePasses, CoveragePasses, Commanded!ThresholdPasses, ThresholdPasses,
           Commanded!RegressionPasses, RegressionPasses, Commanded!Passes, Passes
  <1>8. \A gate, b, c : Commanded!CompareCase(gate, b, c) = CompareCase(gate, b, c)
    BY DEF Commanded!CompareCase, CompareCase, Commanded!Comparable, Comparable,
           Commanded!Passes, Passes
  <1> QED
    BY <1>2, <1>3, <1>4, <1>5, <1>6, <1>7, <1>8

\* The comparison of two stored runs is the comparison of the evaluation.
LEMMA SameComparison ==
    ASSUME CommandCases = cases, CommandRuns = runs, CommandDecision = decision,
           CommandCases' = cases', CommandRuns' = runs', CommandDecision' = decision',
           CompareRuns
    PROVE  Commanded!CompareRuns
  <1>1. ASSUME NEW gate PROVE Commanded!GateResult(gate) = GateResult(gate)
    <2> DEFINE S == Scope(gate.slice)
               b == Aggregate(cases["baseline"], gate.slice, gate.metric)
               c == Aggregate(cases["candidate"], gate.slice, gate.metric)
               old(i) == CompareCase(gate, CaseValue(cases["baseline"][i], gate.metric),
                                           CaseValue(cases["candidate"][i], gate.metric))
               new(i) == Commanded!CompareCase(gate,
                            Commanded!CaseValue(CommandCases["baseline"][i], gate.metric),
                            Commanded!CaseValue(CommandCases["candidate"][i], gate.metric))
    <2>1. GateResult(gate)
            = [baseline |-> b, candidate |-> c, coverage |-> CoveragePasses(b, c),
               threshold |-> ThresholdPasses(gate, c),
               regression |-> RegressionPasses(gate, b, c), cases |-> [i \in S |-> old(i)]]
      BY DEF GateResult
    <2>2. Commanded!GateResult(gate)
            = [baseline |-> b, candidate |-> c, coverage |-> CoveragePasses(b, c),
               threshold |-> ThresholdPasses(gate, c),
               regression |-> RegressionPasses(gate, b, c), cases |-> [i \in S |-> new(i)]]
      BY SameVerdicts DEF Commanded!GateResult
    <2>3. \A i : new(i) = old(i)
      BY SameVerdicts
    <2> HIDE DEF old, new, S, b, c
    <2>4. [i \in S |-> new(i)] = [i \in S |-> old(i)]
      BY <2>3
    <2> QED
      BY <2>1, <2>2, <2>4
  <1>2. Commanded!Refused <=> Refused
    BY SameVerdicts, SameCounts DEF Commanded!Refused, Refused, Commanded!Sides, Sides
  <1>3. [gate \in policy |-> Commanded!GateResult(gate)] = [gate \in policy |-> GateResult(gate)]
    BY <1>1
  <1> QED
    BY <1>2, <1>3 DEF Commanded!CompareRuns, CompareRuns, Commanded!Sides, Sides

\* A step that an evaluation does not see.
Unseen(side) ==
    /\ UNCHANGED <<cases, runs>>
    /\ \/ process'[side].phase = process[side].phase
       \/ {process[side].phase, process'[side].phase} \cap {"after", "saved", "failed"} = {}

\* The steps of a command, as an evaluation sees them.
LEMMA MovesSeen ==
    ASSUME LocalTypes, NEW side \in Sides, Moves(side)
    PROVE  \/ Unseen(side)
           \/ Fail(side) /\ process[side].phase \in {"start", "before", "after"}
           \/ /\ process[side].phase \in {"invoke", "reference", "candidate"}
              /\ \E case, answer : Record(side, case, answer)
           \/ /\ process[side].phase = "after" /\ process'[side].phase = "saved"
              /\ UNCHANGED <<cases, runs>>
  <1>1. process \in [Sides -> ProcessStates]
    BY DEF LocalTypes
  <1>2. CASE RunOffline(side)
    BY <1>1, <1>2 DEF RunOffline, In, Unseen, ProcessStates
  <1>3. CASE Start(side)
    BY <1>1, <1>3 DEF Start, In, Becomes, evidence, Unseen, ProcessStates
  <1>4. CASE FingerprintCall(side) \/ ReferenceCall(side) \/ CandidateCall(side)
    BY <1>4 DEF FingerprintCall, ReferenceCall, CandidateCall, Call, evidence, Unseen
  <1>5. CASE FingerprintTable(side)
    BY <1>1, <1>5 DEF FingerprintTable, In, Becomes, evidence, Unseen, ProcessStates
  <1>6. CASE Verify(side)
    BY <1>1, <1>6 DEF Verify, In, Becomes, evidence, Unseen, ProcessStates
  <1>7. CASE Invoke(side)
    <2>1. process[side].phase = "invoke"
      BY <1>7 DEF Invoke, In
    <2>2. PICK answer : Answered(side, answer)
      BY <1>7 DEF Invoke
    <2>3. \/ \E case, told : Record(side, case, told)
          \/ /\ process' = [process EXCEPT ![side].phase = "reference",
                                           ![side].output = TargetOutput(answer)]
             /\ UNCHANGED <<cases, runs>>
      BY <2>2 DEF Answered, Score
    <2>4. CASE \E case, told : Record(side, case, told)
      BY <2>1, <2>4
    <2>5. CASE ~\E case, told : Record(side, case, told)
      <3>1. process'[side].phase = "reference" /\ UNCHANGED <<cases, runs>>
        BY <1>1, <2>3, <2>5 DEF ProcessStates
      <3> QED
        BY <2>1, <3>1 DEF Unseen
    <2> QED
      BY <2>4, <2>5
  <1>8. CASE ReferenceReplayed(side)
    BY <1>1, <1>8 DEF ReferenceReplayed, RecordReplays, In, Unseen, ProcessStates
  <1>9. CASE CandidateReplayed(side)
    BY <1>1, <1>9 DEF CandidateReplayed, RecordReplays, In, Unseen, ProcessStates
  <1>10. CASE Save(side) \/ SaveFails(side)
    BY <1>1, <1>10 DEF Save, SaveFails, In, Becomes, evidence, ProcessStates
  <1>11. CASE ReplayStep(side) \/ BreakReplay(side)
    BY <1>11 DEF ReplayStep, BreakReplay, evidence, Unseen
  <1> QED
    BY <1>2, <1>3, <1>4, <1>5, <1>6, <1>7, <1>8, <1>9, <1>10, <1>11 DEF Moves, Step

\* A sequence is its front and its last element.
LEMMA FrontFacts ==
    ASSUME NEW S, NEW s \in Seq(S), NEW x \in S
    PROVE  /\ Front(Append(s, x)) = s
           /\ s # <<>> => /\ Front(s) \in Seq(S) /\ Len(Front(s)) + 1 = Len(s)
                         /\ s[Len(s)] \in S /\ Append(Front(s), s[Len(s)]) = s
  <1>1. Front(Append(s, x)) = s
    <2>1. /\ Append(s, x) \in Seq(S) /\ Len(Append(s, x)) = Len(s) + 1 /\ Len(s) \in Nat
          /\ \A i \in 1 .. Len(s) : Append(s, x)[i] = s[i]
      BY Appended
    <2>2. Front(Append(s, x)) = SubSeq(Append(s, x), 1, Len(s))
      BY <2>1 DEF Front
    <2>3. /\ SubSeq(Append(s, x), 1, Len(s)) \in Seq(S)
          /\ Len(SubSeq(Append(s, x), 1, Len(s))) = Len(s)
          /\ \A i \in 1 .. Len(s) : SubSeq(Append(s, x), 1, Len(s))[i] = s[i]
      BY <2>1
    <2> QED
      BY <2>2, <2>3
  <1>2. ASSUME s # <<>>
        PROVE  /\ Front(s) \in Seq(S) /\ Len(Front(s)) + 1 = Len(s)
               /\ s[Len(s)] \in S /\ Append(Front(s), s[Len(s)]) = s
    <2>1. Len(s) \in Nat \ {0} /\ s[Len(s)] \in S
      BY <1>2
    <2>2. /\ Front(s) \in Seq(S) /\ Len(Front(s)) = Len(s) - 1
          /\ \A i \in 1 .. Len(s) - 1 : Front(s)[i] = s[i]
      <3> DEFINE n == Len(s) - 1
      <3>1. n \in Nat /\ n + 1 = Len(s) /\ Front(s) = SubSeq(s, 1, n)
        BY <2>1 DEF Front
      <3> HIDE DEF n
      <3>2. \A i \in 1 .. n : i \in 1 .. Len(s)
        BY <3>1
      <3>3. \A i \in 1 .. n : s[i] \in S
        BY <3>2
      <3>4. /\ SubSeq(s, 1, n) \in Seq(S) /\ Len(SubSeq(s, 1, n)) = n
            /\ \A i \in 1 .. n : SubSeq(s, 1, n)[i] = s[i]
        BY <3>1, <3>3
      <3> QED
        BY <3>1, <3>4 DEF n
    <2>3. /\ Append(Front(s), s[Len(s)]) \in Seq(S)
          /\ Len(Append(Front(s), s[Len(s)])) = Len(s)
          /\ \A i \in 1 .. Len(s) : Append(Front(s), s[Len(s)])[i] = s[i]
      BY <2>1, <2>2
    <2> QED
      BY <2>1, <2>2, <2>3
  <1> QED
    BY <1>1, <1>2

\* What is known of the runs and of the decision while commands are under way.
RunFollowsCommand(side) ==
    runs[side] = IF process[side].phase \in {"after", "saved"}
                 THEN [status |-> RunStatus(cases[side]), metrics |-> Summaries(cases[side])]
                 ELSE Running

CommandInv ==
    /\ LocalInv
    /\ \A side \in Sides : RunFollowsCommand(side)
    /\ decision.status = "undecided" => decision = Undecided

\* A case result of a command is one of a target that failed or of an evaluator that
\* observed all its metrics.
LEMMA AppendSeen ==
    ASSUME NEW side \in Sides, NEW case \in BridgeCases, CommandRuns[side] = Running,
           CommandCases' = [CommandCases EXCEPT ![side] = Append(@, case)],
           CommandRuns' = IF Len(CommandCases'[side]) < CaseCount THEN CommandRuns
                          ELSE [CommandRuns EXCEPT ![side] =
                                   [status |-> RunStatus(CommandCases'[side]),
                                    metrics |-> Summaries(CommandCases'[side])]],
           policy' = policy, CommandDecision' = CommandDecision
    PROVE  Commanded!InvokeFails(side) \/ Commanded!Evaluate(side)
  <1>1. Commanded!AppendCase(side, case)
    <2> DEFINE results == CommandCases'[side]
    <2>1. /\ Commanded!RunStatus(results) = RunStatus(results)
          /\ Commanded!Summaries(results) = Summaries(results)
      BY SameVerdicts
    <2>2. CommandRuns' = IF Len(results) < CaseCount THEN CommandRuns
                         ELSE [CommandRuns EXCEPT ![side] =
                                  [status |-> Commanded!RunStatus(results),
                                   metrics |-> Commanded!Summaries(results)]]
      BY <2>1
    <2>3. CommandRuns[side].status = "running"
      BY DEF Running
    <2>4. UNCHANGED <<policy, CommandDecision>>
      OBVIOUS
    <2> QED
      BY ONLY <2>2, <2>3, <2>4,
              CommandCases' = [CommandCases EXCEPT ![side] = Append(@, case)]
      DEF Commanded!AppendCase
  <1>2. CASE case = CaseResult(TRUE, {}, <<>>)
    BY <1>1, <1>2, SameCounts DEF Commanded!InvokeFails
  <1>3. CASE case # CaseResult(TRUE, {}, <<>>)
    <2>1. PICK observations \in [BridgeMetrics -> Marks] :
             case = CaseResult(FALSE, {}, observations)
      BY <1>3 DEF BridgeCases
    <2>2. Marks \subseteq Outcome
      BY CompositeAssumption DEF Marks, Outcome
    <2>3. UNION {MetricsOf[e] : e \in Evaluators \ {}} = BridgeMetrics
      BY CompositeAssumption
    <2>4. observations \in [UNION {MetricsOf[e] : e \in Evaluators \ {}} -> Commanded!Outcome]
      BY <2>1, <2>2, <2>3, SameCounts
    <2>5. Commanded!AppendCase(side, Commanded!CaseResult(FALSE, {}, observations))
      BY <1>1, <2>1, SameCounts
    <2> QED
      BY <2>4, <2>5 DEF Commanded!Evaluate
  <1> QED
    BY <1>2, <1>3

\* What an evaluation sees of a command.
LEMMA SeenOf ==
    ASSUME NEW side \in Sides
    PROVE  /\ CommandRuns[side] = IF process[side].phase = "failed" THEN Aborted
                                  ELSE IF process[side].phase = "after" THEN Running
                                  ELSE runs[side]
           /\ CommandCases[side] = IF process[side].phase = "after" THEN Front(cases[side])
                                   ELSE cases[side]
           /\ CommandRuns'[side] = IF process'[side].phase = "failed" THEN Aborted
                                   ELSE IF process'[side].phase = "after" THEN Running
                                   ELSE runs'[side]
           /\ CommandCases'[side] = IF process'[side].phase = "after" THEN Front(cases'[side])
                                    ELSE cases'[side]
  BY DEF CommandRuns, CommandCases, In

\* What is known of a command that is not under way, and what an evaluation sees of it, stay.
LEMMA OthersSeen ==
    ASSUME NEW side \in Sides, OthersHold(side), NEW other \in Sides, other # side,
           runs'[other] = runs[other]
    PROVE  /\ CommandRuns'[other] = CommandRuns[other]
           /\ CommandCases'[other] = CommandCases[other]
           /\ RunFollowsCommand(other) => RunFollowsCommand(other)'
  <1>1. process'[other] = process[other] /\ cases'[other] = cases[other]
    BY DEF OthersHold, Held
  <1>2. RunFollowsCommand(other) => RunFollowsCommand(other)'
    BY <1>1 DEF RunFollowsCommand
  <1> QED
    BY <1>1, <1>2, SeenOf

\* Both views are functions of the runs.
LEMMA SeenAsFunctions ==
    /\ CommandRuns = [side \in Sides |-> CommandRuns[side]]
    /\ CommandCases = [side \in Sides |-> CommandCases[side]]
    /\ CommandRuns' = [side \in Sides |-> CommandRuns'[side]]
    /\ CommandCases' = [side \in Sides |-> CommandCases'[side]]
  BY DEF CommandRuns, CommandCases

\* A step that is not seen changes nothing that is seen.
LEMMA UnseenStep ==
    ASSUME CommandInv, NEW side \in Sides, OthersHold(side), Unseen(side)
    PROVE  /\ CommandRuns' = CommandRuns /\ CommandCases' = CommandCases
           /\ \A s \in Sides : RunFollowsCommand(s)'
  <1>1. RunFollowsCommand(side)'
    BY DEF CommandInv, RunFollowsCommand, Unseen
  <1>2. CommandRuns'[side] = CommandRuns[side] /\ CommandCases'[side] = CommandCases[side]
    BY SeenOf DEF Unseen
  <1>3. \A other \in Sides : other # side =>
           /\ CommandRuns'[other] = CommandRuns[other]
           /\ CommandCases'[other] = CommandCases[other]
           /\ RunFollowsCommand(other)'
    BY OthersSeen DEF CommandInv, Unseen
  <1> QED
    BY <1>1, <1>2, <1>3, SeenAsFunctions

\* A command that fails gives its run up.
LEMMA FailSeen ==
    ASSUME CommandInv, NEW side \in Sides, OthersHold(side), Fail(side),
           process[side].phase \in {"start", "before", "after"}
    PROVE  /\ CommandRuns[side] = Running
           /\ CommandRuns' = [CommandRuns EXCEPT ![side] = Aborted]
           /\ CommandCases' = [CommandCases EXCEPT ![side] = <<>>]
           /\ \A s \in Sides : RunFollowsCommand(s)'
  <1>1. LocalTypes
    BY DEF CommandInv, LocalInv
  <1>2. /\ process'[side].phase = "failed" /\ cases'[side] = <<>> /\ runs'[side] = Running
        /\ \A other \in Sides : other # side => runs'[other] = runs[other]
    BY <1>1 DEF Fail, LocalTypes, NoProcess
  <1>3. CommandRuns[side] = Running
    BY SeenOf DEF CommandInv, RunFollowsCommand
  <1>4. CommandRuns'[side] = Aborted /\ CommandCases'[side] = <<>> /\ RunFollowsCommand(side)'
    BY <1>2, SeenOf DEF RunFollowsCommand
  <1>5. \A other \in Sides : other # side =>
           /\ CommandRuns'[other] = CommandRuns[other]
           /\ CommandCases'[other] = CommandCases[other]
           /\ RunFollowsCommand(other)'
    BY <1>2, OthersSeen DEF CommandInv
  <1> QED
    BY <1>3, <1>4, <1>5, SeenAsFunctions

\* What a command records is a case result, and the run with the last one.
LEMMA RecordedCase ==
    ASSUME CommandInv, LocalTypes', NEW side \in Sides, NEW case, NEW answer,
           Record(side, case, answer),
           process[side].phase \in {"invoke", "reference", "candidate"}
    PROVE  /\ case \in BridgeCases /\ cases[side] \in Seq(BridgeCases)
           /\ cases'[side] = Append(cases[side], case)
           /\ \A other \in Sides : other # side => runs'[other] = runs[other]
           /\ \/ /\ process'[side].phase = "invoke" /\ Len(cases'[side]) < CaseCount
                 /\ runs'[side] = Running
              \/ /\ process'[side].phase = "after"
                 /\ runs'[side] = [status |-> RunStatus(cases'[side]),
                                   metrics |-> Summaries(cases'[side])]
  <1> DEFINE appended == Append(cases[side], case)
  <1>1. LocalTypes /\ Len(cases[side]) < CaseCount /\ runs[side] = Running
    BY DEF CommandInv, LocalInv, Progress, RunFollowsCommand
  <1>2. cases[side] \in Seq(BridgeCases) /\ cases'[side] = appended
    BY <1>1 DEF Record, AppendCase, LocalTypes
  <1>3. cases'[side] \in Seq(BridgeCases)
    BY DEF LocalTypes
  <1>4. Len(cases[side]) \in Nat /\ Len(appended) = Len(cases[side]) + 1
    BY <1>2
  <1>5. case \in BridgeCases
    <2>1. appended[Len(cases[side]) + 1] = case /\ Len(cases[side]) + 1 \in 1 .. Len(appended)
      BY <1>2, <1>4
    <2> HIDE DEF appended
    <2> QED
      BY <1>2, <1>3, <2>1
  <1>6. process'[side].phase = AfterCase(side)
    BY <1>1 DEF Record, LocalTypes, ProcessStates
  <1>7. runs' = IF Len(appended) < CaseCount THEN runs
                ELSE [runs EXCEPT ![side] = [status |-> RunStatus(appended),
                                             metrics |-> Summaries(appended)]]
    BY <1>2 DEF Record, AppendCase
  <1> HIDE DEF appended
  <1>8. CASE Len(cases[side]) + 1 = CaseCount
    BY <1>1, <1>2, <1>4, <1>5, <1>6, <1>7, <1>8, CaseCountNat
    DEF AfterCase, LocalTypes, appended
  <1>9. CASE Len(cases[side]) + 1 # CaseCount
    <2>1. Len(appended) < CaseCount
      BY <1>1, <1>4, <1>9, CaseCountNat
    <2> QED
      BY <1>1, <1>2, <1>5, <1>6, <1>7, <1>9, <2>1 DEF AfterCase, appended
  <1> QED
    BY <1>8, <1>9

\* A case is seen when it is recorded, unless it is the last one, which is seen when the
\* run is stored.
LEMMA RecordSeen ==
    ASSUME CommandInv, LocalTypes', NEW side \in Sides, OthersHold(side),
           NEW case, NEW answer, Record(side, case, answer),
           process[side].phase \in {"invoke", "reference", "candidate"}
    PROVE  /\ \/ CommandRuns' = CommandRuns /\ CommandCases' = CommandCases
              \/ /\ case \in BridgeCases /\ CommandRuns[side] = Running
                 /\ CommandCases' = [CommandCases EXCEPT ![side] = Append(@, case)]
                 /\ CommandRuns' = CommandRuns /\ Len(CommandCases'[side]) < CaseCount
           /\ \A s \in Sides : RunFollowsCommand(s)'
  <1>1. CommandRuns[side] = Running /\ CommandCases[side] = cases[side]
    BY SeenOf DEF CommandInv, RunFollowsCommand
  <1>2. \A other \in Sides : other # side =>
           /\ CommandRuns'[other] = CommandRuns[other]
           /\ CommandCases'[other] = CommandCases[other]
           /\ RunFollowsCommand(other)'
    BY RecordedCase, OthersSeen DEF CommandInv
  <1>3. CASE process'[side].phase = "invoke"
    <2>1. /\ CommandRuns'[side] = Running /\ RunFollowsCommand(side)'
          /\ CommandCases'[side] = Append(cases[side], case)
          /\ case \in BridgeCases /\ Len(CommandCases'[side]) < CaseCount
      BY <1>3, RecordedCase, SeenOf DEF RunFollowsCommand
    <2> QED
      BY <1>1, <1>2, <2>1, SeenAsFunctions
  <1>4. CASE process'[side].phase = "after"
    <2>1. CommandRuns'[side] = Running /\ RunFollowsCommand(side)'
      BY <1>4, RecordedCase, SeenOf DEF RunFollowsCommand
    <2>2. CommandCases'[side] = cases[side]
      <3>1. /\ case \in BridgeCases /\ cases[side] \in Seq(BridgeCases)
            /\ cases'[side] = Append(cases[side], case)
        BY RecordedCase
      <3>2. Front(Append(cases[side], case)) = cases[side]
        BY <3>1, FrontFacts
      <3> QED
        BY <1>4, <3>1, <3>2, SeenOf
    <2> QED
      BY <1>1, <1>2, <2>1, <2>2, SeenAsFunctions
  <1> QED
    BY <1>3, <1>4, RecordedCase

\* When a run is stored its last case is seen, and with it its status and summaries.
LEMMA SaveSeen ==
    ASSUME CommandInv, NEW side \in Sides, OthersHold(side), UNCHANGED <<cases, runs>>,
           process[side].phase = "after", process'[side].phase = "saved"
    PROVE  /\ CommandRuns[side] = Running
           /\ \E case \in BridgeCases :
                 CommandCases' = [CommandCases EXCEPT ![side] = Append(@, case)]
           /\ CommandRuns' = [CommandRuns EXCEPT ![side] =
                                 [status |-> RunStatus(CommandCases'[side]),
                                  metrics |-> Summaries(CommandCases'[side])]]
           /\ ~(Len(CommandCases'[side]) < CaseCount)
           /\ \A s \in Sides : RunFollowsCommand(s)'
  <1> DEFINE last == cases[side][Len(cases[side])]
  <1>1. /\ cases[side] \in Seq(BridgeCases) /\ Len(cases[side]) = CaseCount
        /\ runs[side] = [status |-> RunStatus(cases[side]), metrics |-> Summaries(cases[side])]
    BY DEF CommandInv, LocalInv, LocalTypes, Progress, RunFollowsCommand
  <1>2. cases[side] # <<>>
    BY <1>1, CaseCountNat
  <1>3. last \in BridgeCases /\ Append(Front(cases[side]), last) = cases[side]
    BY <1>1, <1>2, FrontFacts
  <1>4. /\ CommandRuns[side] = Running /\ CommandCases[side] = Front(cases[side])
        /\ CommandRuns'[side] = runs[side] /\ CommandCases'[side] = cases[side]
    BY SeenOf
  <1>5. RunFollowsCommand(side)'
    BY <1>1 DEF RunFollowsCommand
  <1>6. \A other \in Sides : other # side =>
           /\ CommandRuns'[other] = CommandRuns[other]
           /\ CommandCases'[other] = CommandCases[other]
           /\ RunFollowsCommand(other)'
    BY OthersSeen DEF CommandInv
  <1> HIDE DEF last
  <1>7. CommandCases' = [CommandCases EXCEPT ![side] = Append(@, last)]
    BY <1>3, <1>4, <1>6, SeenAsFunctions
  <1>8. CommandRuns' = [CommandRuns EXCEPT ![side] = runs[side]]
    BY <1>4, <1>6, SeenAsFunctions
  <1>9. /\ runs[side] = [status |-> RunStatus(CommandCases'[side]),
                        metrics |-> Summaries(CommandCases'[side])]
        /\ ~(Len(CommandCases'[side]) < CaseCount)
    BY <1>1, <1>4, CaseCountNat
  <1> QED
    BY <1>3, <1>4, <1>5, <1>6, <1>7, <1>8, <1>9

\* Nothing is decided while a command is under way.
LEMMA UndecidedSeen ==
    ASSUME CommandInv, NEW side \in Sides, process[side].phase # "saved", decision' = decision
    PROVE  CommandDecision = Undecided /\ CommandDecision' = Undecided /\ decision = Undecided
  <1>1. decision = Undecided
    BY DEF CommandInv, LocalInv, DecidedAtLast, Saved, In
  <1> QED
    BY <1>1 DEF CommandDecision

\* A step of a command is a step of the runner, or none.
LEMMA MovesRun ==
    ASSUME CommandInv, LocalTypes', NEW side \in Sides, Moves(side)
    PROVE  [Commanded!Next]_(Commanded!vars) /\ \A s \in Sides : RunFollowsCommand(s)'
  <1>1. LocalTypes /\ SideInv(side)
    BY LocalInvIsSideInv DEF CommandInv
  <1>2. OthersHold(side) /\ policy' = policy /\ CommandDecision' = CommandDecision
    BY <1>1, MovesStep, MovesLittle, UndecidedSeen
  <1>3. ASSUME CommandRuns' = CommandRuns, CommandCases' = CommandCases
        PROVE  UNCHANGED Commanded!vars
    BY <1>2, <1>3 DEF Commanded!vars
  <1>4. CASE Unseen(side)
    BY <1>2, <1>3, <1>4, UnseenStep
  <1>5. CASE Fail(side) /\ process[side].phase \in {"start", "before", "after"}
    <2>1. Commanded!Abort(side)
      BY <1>2, <1>5, FailSeen DEF Commanded!Abort, Commanded!Aborted, Aborted, Running
    <2> QED
      BY <1>2, <1>5, <2>1, FailSeen DEF Commanded!Next, Commanded!Sides, Sides
  <1>6. ASSUME process[side].phase \in {"invoke", "reference", "candidate"},
               NEW case, NEW answer, Record(side, case, answer)
        PROVE  [Commanded!Next]_(Commanded!vars) /\ \A s \in Sides : RunFollowsCommand(s)'
    <2>1. CASE CommandRuns' = CommandRuns /\ CommandCases' = CommandCases
      BY <1>2, <1>3, <1>6, <2>1, RecordSeen
    <2>2. CASE ~(CommandRuns' = CommandRuns /\ CommandCases' = CommandCases)
      <3>1. /\ case \in BridgeCases /\ CommandRuns[side] = Running
            /\ CommandCases' = [CommandCases EXCEPT ![side] = Append(@, case)]
            /\ CommandRuns' = CommandRuns /\ Len(CommandCases'[side]) < CaseCount
        BY <1>2, <1>6, <2>2, RecordSeen
      <3>2. Commanded!InvokeFails(side) \/ Commanded!Evaluate(side)
        BY <1>2, <3>1, AppendSeen
      <3> QED
        BY <1>2, <1>6, <3>2, RecordSeen DEF Commanded!Next, Commanded!Sides, Sides
    <2> QED
      BY <2>1, <2>2
  <1>7. CASE process[side].phase = "after" /\ process'[side].phase = "saved"
             /\ UNCHANGED <<cases, runs>>
    <2>1. PICK case \in BridgeCases :
             CommandCases' = [CommandCases EXCEPT ![side] = Append(@, case)]
      BY <1>2, <1>7, SaveSeen
    <2>2. Commanded!InvokeFails(side) \/ Commanded!Evaluate(side)
      BY <1>2, <1>7, <2>1, SaveSeen, AppendSeen
    <2> QED
      BY <1>2, <1>7, <2>2, SaveSeen DEF Commanded!Next, Commanded!Sides, Sides
  <1> QED
    BY <1>1, <1>4, <1>5, <1>6, <1>7, MovesSeen

\* The comparison of stored runs is the comparison of the evaluation, if their modes agree.
LEMMA CompareSeen ==
    ASSUME CommandInv, Compare
    PROVE  /\ [Commanded!Next]_(Commanded!vars)
           /\ \A side \in Sides : RunFollowsCommand(side)'
           /\ decision'.status # "undecided"
  <1>1. /\ LocalTypes /\ \A side \in Sides : process[side].phase = "saved"
        /\ UNCHANGED <<policy, cases, runs, process>>
        /\ decision.status = "undecided"
    BY DEF Compare, CompareRuns, CommandInv, LocalInv, In
  <1>2. decision'.status # "undecided"
    BY ComparedRuns DEF Compare
  <1>3. \A side \in Sides : RunFollowsCommand(side)'
    BY <1>1 DEF CommandInv, RunFollowsCommand
  <1>4. CommandRuns = runs /\ CommandCases = cases
    <2>1. \A side \in Sides : CommandRuns[side] = runs[side] /\ CommandCases[side] = cases[side]
      BY <1>1, SeenOf
    <2>2. runs = [side \in Sides |-> runs[side]] /\ cases = [side \in Sides |-> cases[side]]
      BY <1>1 DEF LocalTypes
    <2> QED
      BY <2>1, <2>2, SeenAsFunctions
  <1>5. CommandRuns' = CommandRuns /\ CommandCases' = CommandCases
    BY <1>1 DEF CommandRuns, CommandCases, In
  <1>6. CASE process["baseline"].mode # process["candidate"].mode
    <2>1. CommandDecision' = CommandDecision
      BY <1>1, <1>6 DEF CommandDecision
    <2> QED
      BY <1>1, <1>2, <1>3, <1>5, <2>1 DEF Commanded!vars
  <1>7. CASE process["baseline"].mode = process["candidate"].mode
    <2>1. CommandDecision = decision /\ CommandDecision' = decision'
      BY <1>1, <1>7 DEF CommandDecision
    <2>2. CompareRuns
      BY <1>7 DEF Compare
    <2>3. Commanded!CompareRuns
      BY <1>1, <1>4, <1>5, <2>1, <2>2, SameComparison
    <2> QED
      BY <1>2, <1>3, <2>3 DEF Commanded!Next
  <1> QED
    BY <1>6, <1>7

\* The commands begin as an evaluation does.
LEMMA InitCommands == LocalInit => CommandInv /\ Commanded!Init
  <1> SUFFICES ASSUME LocalInit PROVE CommandInv /\ Commanded!Init
    OBVIOUS
  <1>1. /\ policy \in Policies /\ cases = [side \in Sides |-> <<>>]
        /\ runs = [side \in Sides |-> Running] /\ decision = Undecided
        /\ process = [side \in Sides |-> NoProcess]
    BY DEF LocalInit, Init
  <1>2. \A side \in Sides : process[side].phase = "start"
    BY <1>1 DEF NoProcess
  <1>3. CommandInv
    BY <1>1, <1>2, InitLocal DEF CommandInv, RunFollowsCommand
  <1>4. /\ CommandRuns = [side \in Sides |-> Running] /\ CommandCases = [side \in Sides |-> <<>>]
        /\ CommandDecision = Undecided
    BY <1>1, <1>2 DEF CommandRuns, CommandCases, CommandDecision, In
  <1> QED
    BY <1>1, <1>3, <1>4 DEF Commanded!Init, Commanded!Sides, Sides, Commanded!Running, Running,
                            Commanded!Undecided, Undecided

\* Every step of the commands and of the world around them is one of the evaluation, or
\* none of it.
LEMMA NextCommands ==
    CommandInv /\ [LocalNext]_localVars => CommandInv' /\ [Commanded!Next]_(Commanded!vars)
  <1> SUFFICES ASSUME CommandInv, [LocalNext]_localVars
               PROVE  CommandInv' /\ [Commanded!Next]_(Commanded!vars)
    OBVIOUS
  <1>1. LocalInv' /\ LocalTypes' /\ LocalTypes /\ \A side \in Sides : SideInv(side)
    <2>1. LocalInv'
      BY NextLocal DEF CommandInv
    <2> QED
      BY <2>1, LocalInvIsSideInv DEF CommandInv, LocalInv
  <1>2. ASSUME NEW side \in Sides, Moves(side)
        PROVE  CommandInv' /\ [Commanded!Next]_(Commanded!vars)
    <2>1. process[side].phase # "saved" /\ decision' = decision
      BY <1>1, <1>2, MovesLittle
    <2>2. decision'.status = "undecided" => decision' = Undecided
      BY <2>1, UndecidedSeen
    <2> QED
      BY <1>1, <1>2, <2>2, MovesRun DEF CommandInv
  <1>3. CASE Compare
    BY <1>1, <1>3, CompareSeen DEF CommandInv
  <1>4. ASSUME UNCHANGED <<policy, cases, runs, decision, process>>
        PROVE  CommandInv' /\ [Commanded!Next]_(Commanded!vars)
    <2>1. \A side \in Sides : RunFollowsCommand(side)'
      BY <1>4 DEF CommandInv, RunFollowsCommand
    <2>2. UNCHANGED Commanded!vars
      BY <1>4 DEF Commanded!vars, CommandRuns, CommandCases, CommandDecision, In
    <2> QED
      BY <1>1, <1>4, <2>1, <2>2 DEF CommandInv
  <1>5. ASSUME NEW t \in Tables, ChangeFixture(t) \/ RestoreFixture(t)
        PROVE  CommandInv' /\ [Commanded!Next]_(Commanded!vars)
    BY <1>4, <1>5 DEF ChangeFixture, RestoreFixture, evidence
  <1>6. CASE UNCHANGED localVars
    BY <1>4, <1>6 DEF localVars
  <1> QED
    BY <1>2, <1>3, <1>5, <1>6 DEF LocalNext, Moves

\* Two commands over one fixture, and the comparison of what they stored, carry out an
\* evaluation (cli.py, InProcessRunner.run, compare_runs): what is proved of Evaluation, for
\* any target and any evaluators, holds of the program's.
THEOREM CommandsImplementEvaluation == LocalSpec => ImplementsEvaluation
  <1>1. CommandInv /\ [LocalNext]_localVars => CommandInv'
    BY NextCommands
  <1>2. CommandInv /\ [LocalNext]_localVars => [Commanded!Next]_(Commanded!vars)
    BY NextCommands
  <1> QED
    BY <1>1, <1>2, InitCommands, PTL DEF LocalSpec, ImplementsEvaluation, Commanded!Spec

===============================================================================
