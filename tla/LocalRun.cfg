\* Two commands over a query and a clarification, mock or live, against a fixture of
\* two tables that its owners change and restore, with replays that may break.
CONSTANTS
    bridge = bridge
    departments = departments
    employees = employees
    count = count
    average = average
    duplicate = duplicate
    delete = delete
    insert = insert
    sample = sample
    sleep = sleep
    Whole = Whole
    Slices = {}
    CaseCount = 2
    SlicesOf <- NoLabels
    Evaluators = {bridge}
    MetricsOf <- AllMetrics
    Values = {0, 1}
    Policies <- ReleasePolicies
    Clients <- Sides
    TableOrder <- TwoTables
    Statements = {count, average, duplicate, delete, insert, sample, sleep}
    FlawsOf <- FlawsFound
    TablesOf <- Reads
    RawOf <- Raws
    Writing = {insert}
    Endless = {sleep}
    Volatile = {sample}
    MaxColumns = 2
    MaxRows = 2
    MaxCells = 2
    MaxCommands = 1
    Datasets <- SomeDatasets
    Invocations <- Commands
    Replies <- LiveReplies
    Payloads <- FakePayloads
    Scenarios <- AllScenarios
    Expectations <- BuiltInCases
SPECIFICATION LocalSpec
CHECK_DEADLOCK FALSE
INVARIANTS
    EvidenceIsReproducible
    UnsafeSqlNeverSucceeds
    MissingEvidenceFailsClosed
    BuiltInsAreFair
PROPERTIES
    CommandsEnd
