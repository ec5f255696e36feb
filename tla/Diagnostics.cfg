SPECIFICATION Spec
CONSTANTS
    Connection = {dbc}
    Statement = {stmt}
    Descriptor = {desc1, desc2}
    State = {HY024, HY017}
    ReturnCode = {"SUCCESS", "SUCCESS_WITH_INFO", "ERROR"}
    None = None
INVARIANT
    TypeOK
PROPERTIES
    CallsReported
    ErrorForwarded
