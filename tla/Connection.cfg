SPECIFICATION Spec
CONSTANTS
    Conn = {c1, c2}
    LogFile = {"driver", "other"}
    NoFile = ""
    DefaultLog = "driver"
    UrlParts <- MCUrlParts
    Dotted <- MCDotted
    Piece <- MCPiece
    Malformed <- bad
    ConnString <- MCConnString
    Dsn = {"", "a"}
    DsnFields <- MCDsnFields
    FirstKey <- MCFirstKey
    Timeouts = {7}
    Address = {1, 2}
    MaxBrowse = 3
    OnWindows = TRUE
    Uses = {{"browse", "connect"}, {"browse", "many"},
            {"connect", "driver_connect", "attributes"}, {"connect", "driver_connect", "log"}}
    NoInst = NoInst
INVARIANTS
    TypeOK
    InstancesOwned
    ConfigAsAsked
    LogInStep
    BrowseInStep
