SPECIFICATION FairSpec
CONSTANTS
    PrefetchAtLeast = 2
    MaxRuns = 3
    MaxRows = 2
    MaxParamSets = 2
    RowSetSizes = {1, 3}
INVARIANTS
    TypeOK
    RowsConserved
    CountsRight
    ForwardReportedOnce
    ParamSetsServedOnce
PROPERTY
    FetchLoopEnds
