SPECIFICATION Spec
CONSTANTS
    Desc = {ard1, ard2}
    MaxColumn = 2
    CType = {char}
    Buffer = {p}
    Null = Null
    Default = Default
SYMMETRY DescSymmetry
CONSTRAINT CopyOrNew
INVARIANTS
    TypeOK
    WritesWhereAsked
    CountIsHighestBound
