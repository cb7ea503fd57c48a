------------------------------ MODULE MCLocalRun ------------------------------
\* LocalRun with one query, one request for clarification, and a fixture of two tables.
EXTENDS LocalRun

CONSTANTS
    departments, employees,     \* tables
    count, average,             \* the reviewed statement, and another that agrees with it
    duplicate,                  \* returns a row twice
    sample,                     \* returns a row, or none
    delete, insert, sleep       \* refused by the policy, writes, does not end

CaseA == [behavior |-> "query", reference |-> count, codes |-> {},
          columns |-> <<"n">>, rows |-> <<<<Normalized(Cell("int", 1, TRUE))>>>>,
          order |-> "unordered", expected_refusal |-> FALSE, input_valid |-> TRUE]
CaseB == [behavior |-> "clarification", reference |-> "none", codes |-> {"provider_clarification"},
          columns |-> <<>>, rows |-> <<>>, order |-> "none",
          expected_refusal |-> FALSE, input_valid |-> TRUE]

SomeDatasets ==
    {<<CaseA, CaseB>>, <<CaseA, [CaseB EXCEPT !.expected_refusal = TRUE]>>}

Raw(columns, rows) == [columns |-> columns, rows |-> rows]
One(type) == <<Cell(type, 1, TRUE)>>

Raws == [s \in Statements |->
    CASE s = average   -> Raw(<<"n">>, <<One("decimal")>>)
      [] s = duplicate -> Raw(<<"n">>, <<One("int"), One("int")>>)
      [] OTHER         -> Raw(<<"n">>, <<One("int")>>)]

Reads == [s \in Statements |->
    IF s = count THEN {departments} ELSE {departments, employees}]

FlawsFound == [s \in Statements |-> IF s = delete THEN {"prohibited_operation"} ELSE {}]

TwoTables == <<departments, employees>>

AllMetrics == [e \in {bridge} |-> BridgeMetrics]

NoLabels == [c \in 1 .. 2 |-> {}]

Reply200(executions) ==
    [status |-> 200, wire |-> [status |-> IF executions = <<>> THEN "clarification_required"
                                          ELSE "answered",
                               executions |-> executions, wellformed |-> TRUE]]
NoWire == [status |-> "none", executions |-> <<>>, wellformed |-> FALSE]
Reply403 == [status |-> 403, wire |-> NoWire]
Reply504 == [status |-> 504, wire |-> NoWire]

LiveReplies ==
    <<{Reply200(<<average>>), Reply200(<<count, delete>>), Reply200(<<>>)},
      {Reply200(<<>>), Reply403, Reply504}>>

Mock(manifest, overrides) ==
    [live |-> FALSE, manifest |-> manifest, overrides |-> overrides, allow |-> FALSE,
     synthetic |-> FALSE]
Live(allow) ==
    [live |-> TRUE, manifest |-> <<>>, overrides |-> <<>>, allow |-> allow, synthetic |-> TRUE]

Commands ==
    {Live(TRUE), Live(FALSE), Mock(<<Reply200(<<sleep>>)>>, <<>>),
     Mock(<<Reply200(<<sleep>>), Reply200(<<>>)>>, <<>>),
     Mock(<<Reply200(<<sample>>), Reply403>>, <<>>),
     Mock(<<Reply200(<<duplicate>>), Reply403>>, <<Reply200(<<insert>>)>>)}

Texts == {Json("text", 1, "plain"), Json("text", 1, "upper")}
Numbers == {Json("number", 1, "plain"), Json("number", 2, "plain")}

FakePayloads ==
    [scenario : {"echo", "none"}, value : Texts \cup Numbers \cup {Absent},
     actual : {Null}, offset : {Json("number", 1, "plain")}]

AllScenarios ==
    {"none", "echo", "mismatch", "refuse", "uppercase", "offset", "raise"}

Schemas ==
    {[kind |-> "none", accepts |-> {}], [kind |-> "remote", accepts |-> {}],
     [kind |-> "dangling", accepts |-> {"text"}], [kind |-> "valid", accepts |-> {"text"}]}

BuiltInCases ==
    [expected : Texts \cup Numbers \cup {Absent}, schema : Schemas,
     tolerance : {NoTolerance, 1}, expected_refusal : {TRUE}]

G(m, direction, threshold, allowed) ==
    [metric |-> m, slice |-> Whole, direction |-> direction,
     threshold |-> threshold, allowed |-> allowed]

ReleasePolicies ==
    {{G("clarification_correct", "higher", 0, 1), G("execution_success", "higher", 0, 1)}}
===============================================================================
