SPECIFICATION Spec
CONSTANTS
    Conn = {c1}
    LogFile = {"driver", "other"}
    NoFile = ""
    DefaultLog = "driver"
    UrlParts <- MCUrlParts
    Dotted <- MCDotted
    Piece <- MCPiece
    Malformed <- bad
    ConnString <- MCConnString
    Dsn = {"", "a"}
    DsnFields <- MCDsnFields
    FirstKey <- MCFirstKey
    Timeouts = {7}
    Address = {1, 2}
    MaxBrowse = 3
    OnWindows = TRUE
    Uses = {{"driver_connect"}}
    NoInst = NoInst
INVARIANT
    FieldsReset
