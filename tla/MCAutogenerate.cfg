SPECIFICATION Spec
CONSTANTS
    Models <- MCModels
    Columns <- MCColumns
    Home <- MCHome
    Ids <- MCIds
    NoRef = NoRef
    Scenarios <- MCScenarios
    MaxFailures = 1
    Families = {"keys", "columns", "references", "rebuild", "parts", "tables"}
    Admitted = {}
INVARIANTS
    EveryStatementRuns
    NextDiffIsEmpty
    NewColumnsKeepTheirKeys
    DownRestores
    NotNullIsProved
    NothingElseIsLost
CHECK_DEADLOCK FALSE
