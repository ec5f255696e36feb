SPECIFICATION Spec
CONSTANTS
    Name = {"", "A", "a", "b", "c"}
    Fold <- MCFold
    TypeOf <- MCTypeOf
    CatalogOrder <- MCCatalogOrder
    Signature <- MCSignature
    Document <- MCDocument
    PrefetchAtLeast = 2
    PoolSize = 2
    Columns = {0, 1, 2, 3}
    RowSetSizes = {1, 2}
    MaxDocuments = 4
INVARIANTS
    
    ColumnsInOrder
PROPERTY StatusTellsRows
