SPECIFICATION Spec
CONSTANTS
    PrefetchAtLeast = 2
    MaxRuns = 2
    MaxRows = 2
    MaxParamSets = 2
    RowSetSizes = {1, 3}
INVARIANT
    CloseIgnoresRemaining
