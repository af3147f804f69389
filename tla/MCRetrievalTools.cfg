CONSTANTS
    Words = {"f", "g"}
    Nobody = Nobody
    LineChars = 6
    Files = {1, 2, 3}
    Runs = {r1, r2}
    None = None
    Huge = Huge
    Dir <- MCDir
    Scenarios <- MCScenarios
    ForeignTrees <- MCForeignTrees
    Spans <- MCSpans
    MaxLines = 4
    MCCalls = 2
    MCEdits = 1
    MCRuns = 1
    MCCrashes = 1

SPECIFICATION Spec
INVARIANTS
    TypeOK
    BudgetKept
    DeliveredIsPaid
    NothingIsFree
    WalkIsExact
    GrepFindsCode
    DefinitionIsExact
    SearchIsComplete
