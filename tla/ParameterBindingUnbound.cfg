SPECIFICATION Spec
CONSTANTS
    MaxParam = 2
    Simple = {int}
    Direct = {double}
    Bit = bit
    Timestamp = timestamp
    Other = other
    Output = output
    Unknown = Unknown
    Buffer = {p}
    Null = Null
    NoValue = NoValue
INVARIANTS
    UnboundSentAsNull
