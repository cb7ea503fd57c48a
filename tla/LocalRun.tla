------------------------------- MODULE LocalRun -------------------------------
(***************************************************************************)
(* An evaluation at the command line (cli.py): "databridge run" once for   *)
(* the baseline and once for the candidate, as processes that share one    *)
(* PostgreSQL fixture, then "compare".  A process checks its options and   *)
(* its dataset, takes the fingerprint of the fixture, asks the target      *)
(* about each case and replays the answer (DataBridgeSqlEvaluator), takes  *)
(* the fingerprint again and stores the run.  The runner and the           *)
(* comparator are those of Evaluation, the replays those of                *)
(* PostgresSandbox.  "run", the offline command with the deterministic     *)
(* target and the built-in evaluators, takes no part in any of this and is *)
(* a single step, for a dataset of one case.                               *)
(*                                                                         *)
(* The latency and usage evaluators, which score every answer, are left    *)
(* out, and so are the texts the commands print.                           *)
(***************************************************************************)
EXTENDS Evaluation, PostgresSandbox

CONSTANTS
    bridge,         \* the composite evaluator
    Datasets,       \* sequences of cases: what each expects, and its input
    Invocations,    \* options of the command
    Replies,        \* of a live target, to each case
    Payloads,       \* inputs of the deterministic target
    Scenarios,      \* its overrides
    Expectations,   \* cases for the built-in evaluators
    MaxCommands     \* bound: commands that run at the same time

\* What a target may reply with: text that need not keep to the contract.
Reply ==
    [status : Int,
     wire : [status : STRING, executions : Seq(Statements), wellformed : BOOLEAN]]

\* An executor belongs to one command; the SQL expectation and the tolerance of a case
\* are validated with the dataset.
ASSUME LocalAssumption ==
    /\ Sides \subseteq Clients
    /\ <<>> \notin Datasets
    /\ \A data \in Datasets :
          /\ DOMAIN data = Cases
          /\ \A c \in Cases : data[c].reference \in Statements \cup {"none"}
    /\ Replies \in [Cases -> SUBSET Reply]
    /\ \A options \in Invocations :
          /\ \A c \in DOMAIN options.manifest : options.manifest[c] \in Reply
          /\ \A c \in DOMAIN options.overrides : options.overrides[c] \in Reply
    /\ \A case \in Expectations :
          /\ case.expected.type = "number" => case.expected.value \in Int
          /\ case.tolerance \in Nat \cup {NoTolerance}

\* The command evaluates with the composite evaluator, whose verdicts are 0 and 1.
ASSUME CompositeAssumption ==
    /\ Evaluators = {bridge} /\ MetricsOf[bridge] = BridgeMetrics
    /\ {0, 1} \subseteq Values

VARIABLES
    dataset,    \* the dataset file
    process,    \* the phase of each command and what it holds
    answers,    \* the target outputs stored with the case results
    broken,     \* history: cases in which the infrastructure failed a replay
    offline,    \* the case of an offline dataset, and its results
    restored    \* history: the fixture was changed back under a running command

localVars ==
    <<policy, cases, runs, decision, database, replay, dataset, process, answers, offline,
      broken, restored>>

evidence == <<policy, cases, runs, decision, answers, offline, broken>>

(***************************************************************************)
(* The target                                                              *)
(***************************************************************************)

Refused403 == Answer(Output("refusal", <<>>, "none"), "refused")

\* _normalized_success: what the wire response of DataBridge becomes.
NormalizedSuccess(wire) ==
    Answer(IF wire.status = "answered"
           THEN Output("query", wire.executions, "none")
           ELSE Output("clarification", <<>>, "provider_clarification"),
           "completed")

\* DataBridgeQueryResponse.require_status_shape and the limits of its fields.
WellFormed(wire) == wire.wellformed /\ (wire.status = "answered" <=> wire.executions # <<>>)

\* DataBridgeHttpTarget.invoke and _map_response: no reply in time, a status other
\* than 200 and 403 and a body that breaks the contract are technical failures.
MapResponse(reply) ==
    CASE reply.status = 403                            -> Refused403
      [] reply.status = 200 /\ WellFormed(reply.wire)  -> NormalizedSuccess(reply.wire)
      [] OTHER                                         -> NoAnswer

\* DataBridgeMockTarget accepts only replies that a live target answers with.
MockFixture(reply) == ~MapResponse(reply).failed

\* DataBridgeMockTarget.invoke
MockAnswer(manifest, c) == IF c \in DOMAIN manifest THEN MapResponse(manifest[c]) ELSE NoAnswer

(***************************************************************************)
(* The options and the dataset                                             *)
(***************************************************************************)

\* _validate_databridge_mode: a manifest, or a live target and both opt-ins.
ValidMode(options) ==
    IF ~options.live
    THEN options.manifest # <<>> /\ ~options.allow /\ ~options.synthetic
    ELSE options.manifest = <<>> /\ options.overrides = <<>> /\ options.allow /\ options.synthetic

\* The responses of a mock run cover the dataset, and its overrides nothing else.
ValidManifest(options, count) ==
    /\ DOMAIN options.manifest = 1 .. count
    /\ DOMAIN options.overrides \subseteq 1 .. count
    /\ \A c \in DOMAIN options.manifest : MockFixture(options.manifest[c])
    /\ \A c \in DOMAIN options.overrides : MockFixture(options.overrides[c])

\* SqlExpectation.require_category_fields, and the case that carries it.
ValidCase(case) ==
    /\ case.input_valid
    /\ case.behavior = "query" <=> case.reference # "none"
    /\ case.behavior = "clarification" <=> case.codes # {}
    /\ case.expected_refusal = (case.behavior = "refusal")

\* DataBridgeSqlEvaluator.preflight_dataset
Preflight(data) ==
    \A c \in DOMAIN data :
        /\ ValidCase(data[c])
        /\ data[c].behavior = "query" => Allowed(data[c].reference)

(***************************************************************************)
(* The command                                                             *)
(***************************************************************************)

In(side, phase) == process[side].phase = phase

NoOptions ==
    [live |-> FALSE, manifest |-> <<>>, overrides |-> <<>>, allow |-> FALSE,
     synthetic |-> FALSE]

NoProcess ==
    [phase |-> "start", options |-> NoOptions, mode |-> "none", manifest |-> <<>>,
     read |-> <<>>, output |-> Invalid, executed |-> 0]

\* The command ends with exit code 2 and stores nothing: what it held is gone.
Fail(side) ==
    /\ process' = [process EXCEPT ![side] = [NoProcess EXCEPT !.phase = "failed"]]
    /\ cases' = [cases EXCEPT ![side] = <<>>]
    /\ runs' = [runs EXCEPT ![side] = Running]
    /\ answers' = [answers EXCEPT ![side] = <<>>]
    /\ broken' = [broken EXCEPT ![side] = {}]
    /\ UNCHANGED <<policy, decision, offline, dataset, restored>>

Becomes(side, state) ==
    /\ process' = [process EXCEPT ![side] = state]
    /\ UNCHANGED <<evidence, dataset, restored>>

UnderWay(side) == process[side].phase \notin {"start", "saved", "failed", "finished"}

NoResults == [side \in Sides |-> [failed |-> TRUE]]

\* run_evaluation: the deterministic target answers as the case or an override says,
\* and the built-in evaluators observe the answer.
RunOffline(side) ==
    /\ In(side, "start")
    /\ dataset = <<>>
    /\ \E override \in Scenarios :
          LET answer == FakeAnswer(offline.payload, override)
          IN  offline' = [offline EXCEPT !.results[side] =
                 IF answer.failed THEN [failed |-> TRUE]
                 ELSE [failed |-> FALSE, observations |-> BuiltIn(offline.case, answer)]]
    /\ process' = [process EXCEPT ![side].phase = "finished"]
    /\ UNCHANGED <<policy, cases, runs, decision, sandboxVars, dataset, answers, broken,
                   restored>>

Start(side) ==
    /\ In(side, "start")
    /\ dataset # <<>>
    /\ Cardinality({other \in Sides : UnderWay(other)}) < MaxCommands
    /\ \E options \in Invocations :
          IF ValidMode(options) /\ Preflight(dataset)
          THEN Becomes(side, [process[side] EXCEPT !.phase = "before", !.options = options])
          ELSE Fail(side)
    /\ UNCHANGED sandboxVars

\* execute(): the call returns its result or raises.
Returned(side) == At(side, "done")

Take(side) ==
    /\ replay' = [replay EXCEPT ![side] = Idle]
    /\ UNCHANGED database

Call(side, sql) ==
    /\ Execute(side, sql)
    /\ UNCHANGED <<evidence, dataset, process, restored>>

\* fingerprint_fixture: one replay per table.
FingerprintCall(side) ==
    /\ In(side, "before") \/ In(side, "after")
    /\ Len(process[side].read) < Len(TableOrder)
    /\ Call(side, TableOrder[Len(process[side].read) + 1])

FingerprintTable(side) ==
    /\ In(side, "before") \/ In(side, "after")
    /\ Returned(side)
    /\ Take(side)
    /\ IF replay[side].result.error # "none" THEN Fail(side)
       ELSE Becomes(side, [process[side] EXCEPT !.read = Append(@, replay[side].result.rows)])

\* The fingerprint the command was told to expect.
Expected == [i \in DOMAIN TableOrder |-> <<<<Normalized(Cell("int", Reviewed, TRUE))>>>>]

FingerprintTaken(side) ==
    /\ At(side, "idle")
    /\ Len(process[side].read) = Len(TableOrder)

Mode(options) == IF options.live THEN "live" ELSE "offline_mock"

\* Overrides replace responses of the manifest.
Manifest(options) ==
    [c \in DOMAIN options.manifest |->
        IF c \in DOMAIN options.overrides THEN options.overrides[c] ELSE options.manifest[c]]

\* The fixture is the expected one, and the target can be built.
Verify(side) ==
    /\ In(side, "before")
    /\ FingerprintTaken(side)
    /\ LET options == process[side].options
       IN  IF process[side].read = Expected
              /\ (options.live \/ ValidManifest(options, Len(dataset)))
           THEN Becomes(side, [process[side] EXCEPT !.phase = "invoke", !.read = <<>>,
                                                    !.options = NoOptions, !.mode = Mode(options),
                                                    !.manifest = Manifest(options)])
           ELSE Fail(side)
    /\ UNCHANGED sandboxVars

Case(side) == dataset[Len(cases[side]) + 1]

\* What remains to be done after a case.
AfterCase(side) == IF Len(cases[side]) + 1 = CaseCount THEN "after" ELSE "invoke"

\* AppendCase of the runner, with the phase that follows.
Record(side, case, answer) ==
    /\ AppendCase(side, case)
    /\ answers' = [answers EXCEPT ![side] = Append(@, answer)]
    /\ process' = [process EXCEPT ![side].phase = AfterCase(side), ![side].executed = 0,
                                        ![side].output = Invalid]

\* The observations of a case whose replays have the given outcomes.
Observed(case, output, replays) ==
    LET decisions == [i \in DOMAIN output.sql |-> Policy(FlawsOf[output.sql[i]])]
    IN  CaseResult(FALSE, {},
            [m \in BridgeMetrics |->
                IF m = "decision_correct" THEN Decision(case, output)[m]
                ELSE IF m \in InteractionMetrics THEN Interaction(case, output)[m]
                ELSE IF m \in ReplayMetrics THEN replays[m]
                ELSE QueryMetrics(case, output, decisions)[m]])

\* DataBridgeSqlEvaluator.evaluate without a replay: none is expected, or the
\* target did not answer with a query.
Score(side, output) ==
    Record(side,
           Observed(Case(side), output,
                    Replays(IF Case(side).behavior = "query" THEN Scored(0) ELSE Skipped)),
           output)

Answered(side, answer) ==
    LET output == TargetOutput(answer)
    IN  IF answer.failed THEN Record(side, CaseResult(TRUE, {}, <<>>), Invalid)
        ELSE IF Case(side).behavior = "query" /\ output.kind = "query"
        THEN /\ process' = [process EXCEPT ![side].phase = "reference",
                                           ![side].output = output]
             /\ UNCHANGED <<policy, cases, runs, decision, answers>>
        ELSE Score(side, output)

\* target.invoke
Invoke(side) ==
    /\ In(side, "invoke")
    /\ IF process[side].mode = "live"
       THEN \E reply \in Replies[Len(cases[side]) + 1] : Answered(side, MapResponse(reply))
       ELSE Answered(side, MockAnswer(process[side].manifest, Len(cases[side]) + 1))
    /\ UNCHANGED <<sandboxVars, dataset, offline, broken, restored>>

\* The replay metrics of a case get one outcome.
RecordReplays(side, replays) ==
    LET output == process[side].output
    IN  Record(side, Observed(Case(side), output, Replays(replays)), output)

\* The reference of the case is replayed first, whatever the candidate emitted.
ReferenceCall(side) ==
    /\ In(side, "reference")
    /\ Call(side, Case(side).reference)

\* _verified_reference and the policy check of _replay_observations
ReferenceReplayed(side) ==
    /\ In(side, "reference")
    /\ Returned(side)
    /\ Take(side)
    /\ IF ~Verified(Case(side), replay[side].result) THEN RecordReplays(side, Error)
       ELSE IF \E i \in DOMAIN process[side].output.sql :
                  ~Allowed(process[side].output.sql[i])
       THEN RecordReplays(side, Scored(0))
       ELSE /\ process' = [process EXCEPT ![side].phase = "candidate"]
            /\ UNCHANGED <<policy, cases, runs, decision, answers>>
    /\ UNCHANGED <<dataset, offline, broken, restored>>

\* The statements of the candidate, one after the other.
CandidateCall(side) ==
    /\ In(side, "candidate")
    /\ Call(side, process[side].output.sql[process[side].executed + 1])

\* A statement that raises scores zero; the last result is compared.
CandidateReplayed(side) ==
    LET output == process[side].output
        result == replay[side].result
    IN  /\ In(side, "candidate")
        /\ Returned(side)
        /\ Take(side)
        /\ IF result.error # "none" THEN RecordReplays(side, Scored(0))
           ELSE IF process[side].executed + 1 < Len(output.sql)
           THEN /\ process' = [process EXCEPT ![side].executed = @ + 1]
                /\ UNCHANGED <<policy, cases, runs, decision, answers>>
           ELSE Record(side, Observed(Case(side), output, Compared(Case(side), result)), output)
        /\ UNCHANGED <<dataset, offline, broken, restored>>

\* Mutant: the fingerprint is not taken again.
SaveUnverified(side) ==
    /\ In(side, "after")
    /\ FingerprintTaken(side)
    /\ Becomes(side, [process[side] EXCEPT !.phase = "saved", !.read = <<>>, !.manifest = <<>>])
    /\ UNCHANGED sandboxVars

\* The fixture is still the one the evaluation began with, and the run is stored.
Save(side) ==
    /\ In(side, "after")
    /\ FingerprintTaken(side)
    /\ IF process[side].read = Expected
       THEN Becomes(side, [process[side] EXCEPT !.phase = "saved", !.read = <<>>,
                                                !.manifest = <<>>])
       ELSE Fail(side)
    /\ UNCHANGED sandboxVars

\* FilesystemRunRepository.save raises.
SaveFails(side) ==
    /\ In(side, "after")
    /\ FingerprintTaken(side)
    /\ Fail(side)
    /\ UNCHANGED sandboxVars

\* compare_evaluations: both runs exist, and their modes agree.
Compare ==
    /\ \A side \in Sides : In(side, "saved")
    /\ IF process["baseline"].mode # process["candidate"].mode
       THEN /\ decision.status = "undecided"
            /\ decision' = [status |-> "refused", gates |-> <<>>]
            /\ UNCHANGED <<policy, cases, runs>>
       ELSE CompareRuns
    /\ UNCHANGED <<sandboxVars, dataset, process, answers, offline, broken, restored>>

(***************************************************************************)
(* The world around the commands                                           *)
(***************************************************************************)

ReplayStep(side) ==
    /\ Replay(side)
    /\ UNCHANGED <<evidence, dataset, process, restored>>

BreakReplay(side) ==
    /\ Break(side)
    /\ broken' = IF In(side, "reference") \/ In(side, "candidate")
                 THEN [broken EXCEPT ![side] = @ \cup {Len(cases[side]) + 1}] ELSE broken
    /\ UNCHANGED <<policy, cases, runs, decision, dataset, process, answers, offline, restored>>

ChangeFixture(t) ==
    /\ ChangeTable(t)
    /\ UNCHANGED <<evidence, dataset, process, restored>>

RestoreFixture(t) ==
    /\ RestoreTable(t)
    /\ restored' = (restored \/ \E side \in Sides : UnderWay(side))
    /\ UNCHANGED <<evidence, dataset, process>>

LocalInit ==
    /\ Init
    /\ SandboxInit
    /\ \/ /\ dataset \in Datasets
          /\ offline = [case |-> <<>>, payload |-> <<>>, results |-> NoResults]
       \/ /\ dataset = <<>>
          /\ \E case \in Expectations, payload \in Payloads :
                offline = [case |-> case, payload |-> payload, results |-> NoResults]
    /\ process = [side \in Sides |-> NoProcess]
    /\ answers = [side \in Sides |-> <<>>]
    /\ broken = [side \in Sides |-> {}]
    /\ restored = FALSE

\* What a command does by itself.
Step(side) ==
    \/ RunOffline(side)
    \/ Start(side)
    \/ FingerprintCall(side)
    \/ FingerprintTable(side)
    \/ Verify(side)
    \/ Invoke(side)
    \/ ReferenceCall(side)
    \/ ReferenceReplayed(side)
    \/ CandidateCall(side)
    \/ CandidateReplayed(side)
    \/ Save(side)
    \/ ReplayStep(side)

LocalNext ==
    \/ \E side \in Sides : Step(side) \/ SaveFails(side) \/ BreakReplay(side)
    \/ Compare
    \/ \E t \in Tables : ChangeFixture(t) \/ RestoreFixture(t)

\* A process that is due runs: the target, the connection and the statements all
\* have a time limit.  Nothing makes a replay break or the store fail.
LocalSpec == LocalInit /\ [][LocalNext]_localVars /\ \A side \in Sides : WF_localVars(Step(side))

(***************************************************************************)
(* Properties                                                              *)
(***************************************************************************)

Saved(side) == In(side, "saved")

\* No statement of the case or of the answer to it is volatile.
Steady(case, output) ==
    case.reference \notin Volatile /\ ToSet(output.sql) \cap Volatile = {}

\* Evidence can be reproduced: when both runs are stored, they observed the same
\* for the same answer to the same case, unless a replay broke on the way or the
\* fixture was changed and changed back under a run, which two fingerprints miss, or
\* the policy let a statement pass whose answer is not the same twice.
EvidenceIsReproducible ==
    ~restored /\ (\A side \in Sides : Saved(side)) =>
        \A c \in 1 .. CaseCount :
            /\ answers["baseline"][c] = answers["candidate"][c]
            /\ answers["baseline"][c] # Invalid
            /\ Steady(dataset[c], answers["baseline"][c])
            /\ \A side \in Sides : c \notin broken[side]
            => cases["baseline"][c] = cases["candidate"][c]

\* Whatever the target emits, a statement that the policy refuses, that writes or
\* that does not end is never recorded as executed.
UnsafeSqlNeverSucceeds ==
    \A side \in Sides : \A c \in 1 .. Len(cases[side]) :
        LET sql == ToSet(answers[side][c].sql)
            unsafe == {s \in sql : ~Allowed(s)} \cup (sql \cap (Writing \cup Endless))
        IN  unsafe # {} => cases[side][c].observations["execution_success"] # Scored(1)

\* The built-in evaluators are fair to both runs of a case: whether one applies
\* does not depend on the answer, and an answer that matches exactly is not faulted
\* by another measure of correctness.
BuiltInsAreFair ==
    (\A side \in Sides : ~offline.results[side].failed) =>
        LET b == offline.results["baseline"].observations
            c == offline.results["candidate"].observations
        IN  \A m \in DOMAIN b :
                /\ b[m] = Skipped <=> c[m] = Skipped
                /\ /\ b["exact_match"] = Scored(1)
                   /\ m \in {"normalized_match", "numeric_within_tolerance"}
                   => b[m] # Scored(0)

\* A command ends, whatever the target emits.
CommandsEnd == \A side \in Sides : <>(process[side].phase \in {"saved", "failed", "finished"})

\* What ADR 0005 says of replays that cannot be completed; the evaluator does not
\* hold to it.

\* "Evaluator infrastructure failure is an error observation and fails release
\* coverage": a candidate is never scored for a replay that broke.
OutagesAreNotMistakes ==
    \A side \in Sides : \A c \in broken[side] :
        Saved(side) => cases[side][c].observations["execution_success"] = Error

(***************************************************************************)
(* The evaluation behind the commands                                      *)
(***************************************************************************)

\* Nothing is known of a run before its command has stored it, and nothing is left of
\* one whose command failed: its last case counts from the moment it is saved.
CommandRuns ==
    [side \in Sides |-> CASE In(side, "failed") -> Aborted
                          [] In(side, "after")  -> Running
                          [] OTHER              -> runs[side]]

CommandCases ==
    [side \in Sides |-> IF In(side, "after") THEN Front(cases[side]) ELSE cases[side]]

\* Runs of different modes are refused before they are compared.
CommandDecision ==
    IF process["baseline"].mode = process["candidate"].mode THEN decision ELSE Undecided

Commanded ==
    INSTANCE Evaluation WITH cases <- CommandCases, runs <- CommandRuns,
                             decision <- CommandDecision

\* The commands, in two processes that share a fixture its owners change, carry out an
\* evaluation: whatever they store and decide, the runner and the comparator could have
\* with some target and some evaluators.
ImplementsEvaluation == Commanded!Spec

(***************************************************************************)
(* The inductive invariant                                                 *)
(***************************************************************************)

Phases ==
    {"start", "before", "invoke", "reference", "candidate", "after", "saved", "failed",
     "finished"}

Outputs ==
    [kind : {"query", "clarification", "refusal", "invalid"}, sql : Seq(Statements),
     code : {"none", "provider_clarification"}]

Codes == {"none", "policy_rejected", "statement_timeout", "query_failed", "unavailable"}

Results ==
    {Failure(code) : code \in Codes}
        \cup {ReadResult(RawOf[s]) : s \in Statements}
        \cup {ReadResult(Gone(s)) : s \in Statements}
        \cup {ReadResult(Content(value)) : value \in {Reviewed, Changed}}

Marks == {Scored(0), Scored(1), Skipped, Error}

BridgeCases ==
    {CaseResult(TRUE, {}, <<>>)}
        \cup {CaseResult(FALSE, {}, observations) : observations \in [BridgeMetrics -> Marks]}

ReplayStates ==
    [step : {"idle", "open", "query", "done"}, sql : Tables \cup Statements \cup {"none"},
     readonly : BOOLEAN, bounded : BOOLEAN, result : Results]

ProcessStates ==
    [phase : Phases, options : Invocations \cup {NoOptions},
     mode : {"none", "live", "offline_mock"},
     manifest : {<<>>} \cup {Manifest(options) : options \in Invocations \cup {NoOptions}},
     read : Seq({result.rows : result \in Results}), output : Outputs, executed : Nat]

LocalTypes ==
    /\ policy \in Policies
    /\ dataset \in Datasets \cup {<<>>}
    /\ cases \in [Sides -> Seq(BridgeCases)]
    /\ answers \in [Sides -> Seq(Outputs)]
    /\ runs = [side \in Sides |-> runs[side]]
    /\ broken \in [Sides -> SUBSET Nat]
    /\ restored \in BOOLEAN
    /\ database \in [Tables -> {Reviewed, Changed}]
    /\ replay \in [Clients -> ReplayStates]
    /\ process \in [Sides -> ProcessStates]

\* How far a command has come: its dataset was accepted before its first case, and no
\* case is missing after its last.
Progress(side) ==
    LET my == process[side]
        recorded == Len(cases[side])
    IN  /\ Len(answers[side]) = recorded
        /\ my.phase \in {"start", "before", "failed", "finished"} => recorded = 0
        /\ my.phase \in {"invoke", "reference", "candidate"} => recorded < CaseCount
        /\ my.phase \in {"after", "saved"} => recorded = CaseCount
        /\ my.phase \notin {"before", "after"} => my.read = <<>>
        /\ my.phase \notin {"start", "failed", "finished"} =>
              dataset # <<>> /\ Preflight(dataset)
        /\ my.phase \in {"reference", "candidate"} =>
              /\ dataset[recorded + 1].behavior = "query"
              /\ my.output.kind = "query" /\ my.output.sql # <<>>
        /\ my.phase # "candidate" => my.executed = 0

\* The statement a command waits for is the one that is due.
ReplayIsDue(side) ==
    LET my == process[side]
        its == replay[side]
    IN  its.step # "idle" =>
            \/ /\ my.phase \in {"before", "after"}
               /\ Len(my.read) < Len(TableOrder) /\ its.sql = TableOrder[Len(my.read) + 1]
            \/ my.phase = "reference" /\ its.sql = Case(side).reference
            \/ /\ my.phase = "candidate" /\ my.executed < Len(my.output.sql)
               /\ its.sql = my.output.sql[my.executed + 1]

\* Only what was allowed reaches the server, in a transaction that is read-only and
\* bounded, and what writes or does not end has no result.
ReplayIsSafe(side) ==
    LET its == replay[side]
    IN  /\ its.step \in {"open", "query"} => Allowed(its.sql)
        /\ its.step = "query" => its.readonly /\ its.bounded
        /\ its.step = "done" /\ its.result.error = "none" =>
              its.sql \notin Writing \cup Endless

\* What a candidate has executed so far is safe, and so is all it will be asked.
CandidateIsSafe(side) ==
    LET sql == process[side].output.sql
        executed == process[side].executed
    IN  process[side].phase = "candidate" =>
            /\ executed < Len(sql)
            /\ \A i \in DOMAIN sql : Allowed(sql[i])
            /\ \A i \in 1 .. executed : sql[i] \notin Writing \cup Endless

\* Which metrics apply to a case.
Applies(case, m) ==
    CASE m \in {"decision_correct", "read_only_policy"}   -> TRUE
      [] m = "clarification_correct"                      -> case.behavior = "clarification"
      [] m = "unsafe_query_rejection"                     -> case.behavior = "refusal"
      [] OTHER                                            -> case.behavior = "query"

\* Whether a metric was skipped depends on the case and not on what was answered.
SkippedAsDue(case, result) ==
    ~result.failed =>
        /\ result.observations \in [BridgeMetrics -> Marks]
        /\ \A m \in BridgeMetrics : result.observations[m] = Skipped <=> ~Applies(case, m)

\* A decision is the last step, and stands on two stored runs.
DecidedAtLast ==
    decision.status # "undecided" => \A side \in Sides : Saved(side)

\* The result of a statement on the reviewed contents.
Reproduced(s) ==
    IF s \in Endless THEN Failure("statement_timeout")
    ELSE IF s \in Writing THEN Failure("query_failed")
    ELSE ReadResult(RawOf[s])

\* What a case result must be if nothing disturbs its replays.
Undisturbed(case, output) ==
    LET sql == output.sql
        results == [i \in DOMAIN sql |-> Reproduced(sql[i])]
    IN  Observed(case, output,
            IF case.behavior # "query" THEN Replays(Skipped)
            ELSE IF output.kind # "query" THEN Replays(Scored(0))
            ELSE IF ~Verified(case, Reproduced(case.reference)) THEN Replays(Error)
            ELSE IF \E i \in DOMAIN sql : ~Allowed(sql[i]) \/ results[i].error # "none"
            THEN Replays(Scored(0))
            ELSE Compared(case, results[Len(sql)]))

\* Every steady case that no replay broke in was observed on the reviewed contents.
Genuine(side) ==
    \A c \in DOMAIN cases[side] :
        c \in broken[side] \/ answers[side][c] = Invalid \/ ~Steady(dataset[c], answers[side][c])
            \/ cases[side][c] = Undisturbed(dataset[c], answers[side][c])

Intact == \A t \in Tables : database[t] = Reviewed

\* A table that was changed is still to be read by the second fingerprint, or was read.
WillBeNoticed(side) ==
    \E i \in DOMAIN TableOrder :
        /\ database[TableOrder[i]] = Changed
        /\ i \in DOMAIN process[side].read => process[side].read[i] # Expected[i]
        /\ /\ i = Len(process[side].read) + 1
           /\ replay[side].step = "done" /\ replay[side].result.error = "none"
           => replay[side].result.rows # Expected[i]

\* As long as nobody restores the fixture behind a command, what it has seen is what
\* it would see again, or the fixture is and stays changed.
EvidenceIsGenuine(side) ==
    LET my == process[side]
        its == replay[side]
        current == Len(cases[side]) + 1
    IN  /\ Intact /\ my.phase \in {"invoke", "reference", "candidate"} => Genuine(side)
        /\ my.phase = "saved" => Genuine(side)
        /\ my.phase = "after" => Genuine(side) \/ WillBeNoticed(side)
        /\ Intact /\ my.phase \in {"reference", "candidate"} /\ current \notin broken[side] =>
              /\ its.step = "done" /\ its.sql \notin Volatile => its.result = Reproduced(its.sql)
              /\ my.phase = "candidate" /\ Steady(dataset[current], my.output) =>
                    /\ Verified(dataset[current], Reproduced(dataset[current].reference))
                    /\ \A i \in 1 .. my.executed : Reproduced(my.output.sql[i]).error = "none"

\* What the offline command stored is what the built-in evaluators say of some answer.
OfflineIsBuiltIn ==
    /\ offline = [case |-> offline.case, payload |-> offline.payload,
                  results |-> [side \in Sides |-> offline.results[side]]]
    /\ dataset = <<>> => offline.case \in Expectations
    /\ \A side \in Sides :
          \/ offline.results[side].failed
          \/ /\ dataset = <<>>
             /\ \E override \in Scenarios :
                   offline.results[side].observations
                       = BuiltIn(offline.case, FakeAnswer(offline.payload, override))

LocalInv ==
    /\ LocalTypes
    /\ \A side \in Sides :
          /\ Progress(side) /\ ReplayIsDue(side) /\ ReplayIsSafe(side) /\ CandidateIsSafe(side)
          /\ \A c \in DOMAIN cases[side] : SkippedAsDue(dataset[c], cases[side][c])
          /\ ~restored => EvidenceIsGenuine(side)
    /\ UnsafeSqlNeverSucceeds
    /\ DecidedAtLast /\ MissingEvidenceFailsClosed
    /\ OfflineIsBuiltIn
===============================================================================
