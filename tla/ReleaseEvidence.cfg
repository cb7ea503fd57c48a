\* Two versions of the code in any order, two runs and a comparison, with and without a
\* suite.
CONSTANTS
    first = first
    second = second
    third = third
    old = old
    new = new
    match = match
    usage = usage
    score = score
    input = input
    total = total
    small = small
    large = large
    hard = hard
    stable = stable
    tuned = tuned
    next = next
    Whole = Whole
    None = None
    Versions = {old, new}
    Offers <- TwoVersions
    Selectors = {match, usage}
    SuiteDocuments <- SomeSuites
    Datasets = {small, large}
    CasesOf <- Sizes
    BytesOf <- Lengths
    Targets = {stable, tuned, next}
    KeyOf <- Keys
    Policies <- SomePolicies
    MaxCaseRecords = 3
    MaxDocumentBytes = 6
    JobIds = {first, second, third}
    MaxOf <- OneComparison
SPECIFICATION Spec
SYMMETRY AnyIdentifiers
CHECK_DEADLOCK FALSE
INVARIANTS
    RunsKeepTheirPins
    DecisionsCompareLikeWithLike
    SuiteComparisonsAreDecided
    DecisionsStayExplained
