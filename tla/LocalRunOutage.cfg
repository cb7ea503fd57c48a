\* A replay that breaks while the candidate's statement is due.
CONSTANTS
    bridge = bridge
    departments = departments
    employees = employees
    count = count
    average = average
    duplicate = duplicate
    delete = delete
    insert = insert
    sample = sample
    sleep = sleep
    Whole = Whole
    Slices = {}
    CaseCount = 2
    SlicesOf <- NoLabels
    Evaluators = {bridge}
    MetricsOf <- AllMetrics
    Values = {0, 1}
    Policies <- ReleasePolicies
    Clients <- Sides
    TableOrder <- TwoTables
    Statements = {count, average, duplicate, delete, insert, sample, sleep}
    FlawsOf <- FlawsFound
    TablesOf <- Reads
    RawOf <- Raws
    Writing = {insert}
    Endless = {sleep}
    Volatile = {sample}
    MaxColumns = 2
    MaxRows = 2
    MaxCells = 2
    MaxCommands = 1
    Datasets <- SomeDatasets
    Invocations <- Commands
    Replies <- LiveReplies
    Payloads <- FakePayloads
    Scenarios <- AllScenarios
    Expectations <- BuiltInCases
SPECIFICATION LocalSpec
CHECK_DEADLOCK FALSE
INVARIANTS
    OutagesAreNotMistakes
