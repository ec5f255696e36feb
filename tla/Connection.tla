----------------------------- MODULE Connection -----------------------------
(* A connection of the driver from its allocation to its release: the       *)
(* configuration a connect call makes, the libcouchbase instance it creates,*)
(* the probe query that decides which catalog queries are used, the steps   *)
(* of SQLBrowseConnect, the connection attributes, and the driver log that  *)
(* all connections share.  One action is one call of the application; the   *)
(* connection states are those in which ODBC's driver manager lets the call *)
(* through, and the manager keeps the driver's handle from one connect to   *)
(* the next.                                                                *)
(*                                                                          *)
(* A connection string is a sequence of pieces, each one a malformed piece  *)
(* or a function from keys to values: how pieces are cut out of characters  *)
(* is the module ConnectionString.                                          *)
EXTENDS Configuration, FiniteSets

CONSTANTS
    Conn,          \* the connection handles
    Piece,         \* the pieces a connection string is made of
    Malformed,     \* a piece the parser refuses
    ConnString,    \* the connection strings of SQLDriverConnect
    Dsn,           \* the DSNs of the registry, the empty name included
    DsnFields,     \* for each DSN, its keys and values
    FirstKey,      \* for each DSN, its first key
    Timeouts,      \* the values of the timeout attributes
    Address,       \* where libcouchbase makes its instances; bounds how many there are
    MaxBrowse,     \* bound on the pieces SQLBrowseConnect collects
    OnWindows,     \* is this the Windows build?
    Uses,          \* bound: the groups of calls one application makes
    NoInst         \* an address at which there never is an instance

ASSUME ConnAssumption ==
    /\ Malformed \in Piece
    /\ "" \in Dsn
    /\ MaxBrowse \in Nat
    /\ NoInst \notin Address

\* Wherever a log file is named, it is one of LogFile, or none.
NamesLogFile(fields) ==
    "DriverLogFile" \in DOMAIN fields => fields["DriverLogFile"] \in LogFile \cup {NoFile}

ASSUME FieldsAssumption ==
    /\ \A p \in Piece \ {Malformed} : NamesLogFile(p)
    /\ \A s \in ConnString :
          /\ DOMAIN s = 1 .. Len(s) /\ Len(s) \in Nat
          /\ \A i \in DOMAIN s : s[i] # Malformed => NamesLogFile(s[i])
    /\ \A d \in Dsn : NamesLogFile(DsnFields[d])

VARIABLES
    manager,    \* what the driver manager knows of each handle
    cfg,        \* the configuration fields of each Connection
    lcb,        \* lcb_instance: the address it holds, whatever is there
    loginSet,   \* is_set_login_timeout
    entity,     \* database_entity_support
    twoPart,    \* two_part_scope_name
    step,       \* browse_connect_step
    result,     \* browse_result, the pieces collected
    instances,  \* libcouchbase: the instance at each address
    log,        \* the driver log
    uses,       \* the groups of calls the application of this behaviour makes
    asked,      \* history: what the last configuration was made from
    brokenOff,  \* history: has SQLDisconnect broken a browse off?
    harmed      \* history: the open connections whose instance a call on another
                \* handle has destroyed

connVars  == <<manager, cfg, lcb, loginSet, entity, twoPart, step, result, asked>>
instVars  == <<instances, brokenOff, harmed>>
vars      == <<connVars, instVars, log, uses>>

NoFields == [k \in {} |-> ""]
NotAsked == [ cs |-> NoFields, dsn |-> NoFields, changed |-> Field, login |-> 0, set |-> FALSE ]

\* What is at an address: no instance, a ready one, or a failed one, which
\* could not be scheduled to connect, did not bootstrap, or let the probe
\* query fail.
InstanceState == {"none", "failed", "ready"}

Init ==
    /\ manager   = [c \in Conn |-> "free"]
    /\ cfg       = [c \in Conn |-> FreshConfig(0)]
    /\ lcb       = [c \in Conn |-> NoInst]
    /\ loginSet  = [c \in Conn |-> FALSE]
    /\ entity    = [c \in Conn |-> FALSE]
    /\ twoPart   = [c \in Conn |-> FALSE]
    /\ step      = [c \in Conn |-> 0]
    /\ result    = [c \in Conn |-> << >>]
    /\ instances = [i \in Address |-> "none"]
    /\ log \in {InitialLog(on, TRUE) : on \in BOOLEAN}
    /\ uses \in Uses
    /\ asked     = [c \in Conn |-> NotAsked]
    /\ brokenOff = FALSE
    /\ harmed    = {}

-----------------------------------------------------------------------------
(* The connection string and the DSN                                        *)

\* readConnectionString on the pieces of a string: of two equal keys the first
\* is used, and a DSN excludes the FileDSN and the Driver that come after it,
\* as either of these excludes a DSN.
FieldsOf(pieces) ==
    LET first(k)      == Min({i \in DOMAIN pieces : k \in DOMAIN pieces[i]})
        keys          == UNION {DOMAIN pieces[i] : i \in DOMAIN pieces}
        before(k, l)  == {k, l} \subseteq keys /\ first(k) < first(l)
        noDsn         == before("FileDSN", "DSN") \/ before("Driver", "DSN")
        used(k)       == CASE k = "DSN" -> ~noDsn
                           [] k \in {"FileDSN", "Driver"} -> noDsn \/ ~before("DSN", k)
                           [] OTHER -> TRUE
    IN  [k \in {k \in keys : used(k)} |-> pieces[first(k)][k]]

KnownKeys == RecognizedKey \ {"HugeIntAsString", "ConnectToCapella", "CollectLogs", "JWT"}

\* readDSNInfo: some driver managers list the first key of a DSN only; the
\* known keys are tried as well.  A name the registry has not got has no keys.
ReadDSNInfo(name, listsAll) ==
    LET all     == IF name \in Dsn THEN DsnFields[name] ELSE NoFields
        present == {k \in DOMAIN all : listsAll \/ k = FirstKey[name] \/ k \in KnownKeys}
    IN  [k \in {k \in present : all[k] # "__default__"} |-> all[k]]

\* The fields of the DSN connect keeps, none when a driver is named.
DsnsOf(cs) ==
    IF "Driver" \in DOMAIN cs THEN {NoFields}
    ELSE { LET all == ReadDSNInfo(IF "DSN" \in DOMAIN cs THEN cs["DSN"] ELSE "", listsAll)
           IN  [k \in DOMAIN all \ {"Driver", "Description", "DSN", "FileDSN", "SaveFile"} |->
                   all[k]]
           : listsAll \in BOOLEAN }

-----------------------------------------------------------------------------
(* Connection::connect                                                      *)

\* On Windows the log of libcouchbase is chosen before the configuration is
\* set; elsewhere log_file is never set.
PreScan(c, cs, dsn) ==
    IF ~OnWindows THEN c
    ELSE LET given == IF "CollectLogs" \in DOMAIN cs THEN {cs["CollectLogs"]}
                      ELSE IF "CollectLogs" \in DOMAIN dsn THEN {dsn["CollectLogs"]} ELSE {}
             on    == IF given = {} THEN c["collect_logs"] ELSE given = {"yes"}
         IN  [c EXCEPT !["collect_logs"] = on,
                       !["log_file"] = IF on THEN "lcb.log" ELSE @]

\* The keys of a connection string that the configuration is made from.
WithoutDriver(fields) == [k \in DOMAIN fields \ {"Driver"} |-> fields[k]]

\* What connect can tell before it makes an instance.
Refused(pieces) ==
    \/ Malformed \in ToSet(pieces)
    \/ {"FileDSN", "SaveFile"} \cap DOMAIN FieldsOf(pieces) # {}

\* The configuration connect makes: [ok, cfg, log].
Configured(c, cs, dsn, opens) ==
    SetConfiguration([ ok  |-> TRUE,
                       cfg |-> PreScan(ResetConfiguration(cfg[c]), cs, dsn),
                       log |-> log ], cs, dsn, loginSet[c], opens)

\* A token is needed for JWT, and TLS for the token.
JwtRefused(k) ==
    k["auth_mode"] = "jwt" /\ (k["jwt_token"] = "" \/ ~IsYes(k["sslmode"]))

\* Where a connect call that got as far as libcouchbase ends.
Outcome == {"not_created", "failed", "ready"}

\* checkDatabaseEntitySupport returns for a first row that is a number; for
\* no row, a NULL or an error the function ends without a value.
Answer == {"one", "other", "no_value"}

EntitySupport(a) == CASE a = "one" -> {TRUE} [] a = "other" -> {FALSE} [] OTHER -> BOOLEAN

\* The rest of connect once the configuration s is made of cs and dsn.  A new
\* instance takes any address that is free.
Proceed(c, cs, dsn, s) ==
    LET stillSet  == asked[c].set /\ "LoginTimeout" \notin DOMAIN cs \cup DOMAIN dsn
        record(k) == [ cs |-> cs, dsn |-> dsn, login |-> asked[c].login, set |-> stillSet,
                       changed |-> IF k = s.cfg THEN {} ELSE {"catalog_part_1", "catalog_part_2"} ]
    IN  /\ log'  = s.log
        /\ step' = [step EXCEPT ![c] = 0]
        /\ IF ~s.ok \/ JwtRefused(s.cfg)
           THEN /\ manager' = [manager EXCEPT ![c] = "allocated"]
                /\ cfg' = [cfg EXCEPT ![c] = s.cfg]
                /\ asked' = [asked EXCEPT ![c] =
                                [NotAsked EXCEPT !.login = asked[c].login, !.set = stillSet]]
                /\ UNCHANGED <<lcb, entity, twoPart, instances>>
           ELSE \E o \in Outcome :
                /\ manager' = [manager EXCEPT ![c] =
                                  IF o = "ready" THEN "connected" ELSE "allocated"]
                /\ LET final == IF o = "ready" THEN ParseDatabaseAndScope(s.cfg) ELSE s.cfg
                   IN  /\ cfg' = [cfg EXCEPT ![c] = final]
                       /\ asked' = [asked EXCEPT ![c] = record(final)]
                /\ IF o = "not_created"
                   THEN /\ \E i \in {lcb[c], NoInst} : lcb' = [lcb EXCEPT ![c] = i]
                        /\ UNCHANGED instances
                   ELSE \E i \in Address :
                        /\ instances[i] = "none"
                        /\ instances' = [instances EXCEPT ![i] = o]
                        /\ lcb' = [lcb EXCEPT ![c] = i]
                /\ IF o = "ready"
                   THEN /\ \E b \in UNION {EntitySupport(a) : a \in Answer} :
                              entity' = [entity EXCEPT ![c] = b]
                        /\ twoPart' = [twoPart EXCEPT ![c] = s.cfg["catalog_part_2"] # ""]
                   ELSE UNCHANGED <<entity, twoPart>>

\* Connection::connect on connection c, from the manager's state of it.  An
\* error takes the manager back to an allocated connection.
Connect(c, pieces, opens) ==
    IF Refused(pieces)
    THEN /\ manager' = [manager EXCEPT ![c] = "allocated"]
         /\ UNCHANGED <<cfg, lcb, entity, twoPart, step, instances, log, asked>>
    ELSE \E dsn \in DsnsOf(FieldsOf(pieces)) :
            LET cs == WithoutDriver(FieldsOf(pieces))
            IN  Proceed(c, cs, dsn, Configured(c, cs, dsn, opens))

BrowseAfter_Fault(c, kept, pieces) == result' = [result EXCEPT ![c] = kept]

\* A connect call that has got past the parser has emptied browse_result.
BrowseAfter(c, kept, pieces) ==
    result' = [result EXCEPT ![c] = IF Refused(pieces) THEN kept ELSE << >>]

-----------------------------------------------------------------------------
(* The calls of the application                                             *)

\* The members of a Connection that is not there, or of one just made.
Blank(c, address) ==
    /\ lcb' = [lcb EXCEPT ![c] = address]
    /\ entity' = [entity EXCEPT ![c] = FALSE]
    /\ twoPart' = [twoPart EXCEPT ![c] = FALSE]
    /\ step' = [step EXCEPT ![c] = 0]
    /\ result' = [result EXCEPT ![c] = << >>]
    /\ asked' = [asked EXCEPT ![c] = NotAsked]

\* SQLAllocHandle: lcb_instance, login_timeout and its flag are not initialised,
\* and what is left in the pointer may be any address.
Allocate(c) ==
    /\ manager[c] = "free"
    /\ manager' = [manager EXCEPT ![c] = "allocated"]
    /\ \E t \in Timeouts, b \in BOOLEAN :
          /\ cfg' = [cfg EXCEPT ![c] = FreshConfig(t)]
          /\ loginSet' = [loginSet EXCEPT ![c] = b]
    /\ \E i \in Address \cup {NoInst} : Blank(c, i)
    /\ UNCHANGED <<instVars, log>>

\* SQLFreeHandle: the destructor leaves the instance alone.
Free(c) ==
    /\ manager[c] = "allocated"
    /\ manager' = [manager EXCEPT ![c] = "free"]
    /\ cfg' = [cfg EXCEPT ![c] = FreshConfig(0)]
    /\ loginSet' = [loginSet EXCEPT ![c] = FALSE]
    /\ Blank(c, NoInst)
    /\ UNCHANGED <<instVars, log>>

\* SQLConnect: the arguments are made into a connection string.
SQLConnect(c, name, user, opens) ==
    LET piece == [k \in {"DSN", "UID"} |-> IF k = "DSN" THEN name ELSE user]
    IN  /\ manager[c] = "allocated"
        /\ Connect(c, <<piece>>, opens)
        /\ BrowseAfter(c, result[c], <<piece>>)
        /\ UNCHANGED <<loginSet, brokenOff, harmed>>

SQLDriverConnect(c, pieces, opens) ==
    /\ manager[c] = "allocated"
    /\ Connect(c, pieces, opens)
    /\ BrowseAfter(c, result[c], pieces)
    /\ UNCHANGED <<loginSet, brokenOff, harmed>>

BrowseMore_Fault(c, p) ==
    /\ manager[c] \in {"allocated", "need_data"}
    /\ Len(result[c]) < MaxBrowse
    /\ step' = [step EXCEPT ![c] = @ + 1]
    /\ result' = [result EXCEPT ![c] = Append(@, p)]
    /\ manager' = [manager EXCEPT ![c] = "need_data"]
    /\ UNCHANGED <<cfg, lcb, loginSet, entity, twoPart, asked, instVars, log>>

\* The first two steps of SQLBrowseConnect ask for more attributes.
BrowseMore(c, p) ==
    /\ manager[c] \in {"allocated", "need_data"}
    /\ step[c] \in {0, 1} /\ Len(result[c]) < MaxBrowse
    /\ step' = [step EXCEPT ![c] = @ + 1]
    /\ result' = [result EXCEPT ![c] = Append(@, p)]
    /\ manager' = [manager EXCEPT ![c] = "need_data"]
    /\ UNCHANGED <<cfg, lcb, loginSet, entity, twoPart, asked,
                   instVars, log>>

\* The third connects with all of them; when it throws before the fields are
\* reset the step and the attributes stay.
BrowseLast(c, p, opens) ==
    LET pieces == Append(result[c], p)
    IN  /\ manager[c] \in {"allocated", "need_data"}
        /\ step[c] = 2 /\ Len(result[c]) < MaxBrowse
        /\ Connect(c, pieces, opens)
        /\ BrowseAfter(c, pieces, pieces)
        /\ UNCHANGED <<loginSet, brokenOff, harmed>>

Disconnect_Fault(c) ==
    /\ manager[c] \in {"connected", "need_data"}
    /\ manager' = [manager EXCEPT ![c] = "allocated"]
    /\ UNCHANGED <<cfg, lcb, loginSet, entity, twoPart, step, result, asked, instVars, log>>

\* SQLDisconnect of a connected handle, or of one that is browsing: what is at
\* the address is destroyed and the pointer kept.  Of a handle that is browsing
\* the pointer may be to nothing, or to an instance another connection has
\* been given since.  (What a destruction of nothing does besides, a crash
\* among it, is not followed.)
Disconnect(c) ==
    /\ manager[c] \in {"connected", "need_data"}
    /\ manager' = [manager EXCEPT ![c] = "allocated"]
    /\ instances' = [i \in Address |-> IF i = lcb[c] THEN "none" ELSE instances[i]]
    /\ brokenOff' = (brokenOff \/ manager[c] = "need_data")
    /\ harmed' = (harmed \cup {d \in Conn : manager[d] = "connected" /\ lcb[d] = lcb[c]}) \ {c}
    /\ UNCHANGED <<cfg, lcb, loginSet, entity, twoPart, step, result, asked, log>>

\* Bound: one attribute is set between two connect calls.
AttributeBound(c) == asked[c].changed \in {{}, {"catalog_part_1", "catalog_part_2"}, Field}

\* SQLSetConnectAttr(SQL_ATTR_LOGIN_TIMEOUT), and the attributes whose cases
\* run on into it: access mode, async, auto IPD, autocommit, dead connection.
SetLoginTimeout(c, t) ==
    /\ manager[c] # "free"
    /\ AttributeBound(c)
    /\ cfg' = [cfg EXCEPT ![c]["login_timeout"] = t]
    /\ loginSet' = [loginSet EXCEPT ![c] = TRUE]
    /\ asked' = [asked EXCEPT ![c] =
                    [asked[c] EXCEPT !.changed = asked[c].changed \cup {"login_timeout"},
                                     !.set = TRUE, !.login = t]]
    /\ UNCHANGED <<manager, lcb, entity, twoPart, step, result,
                   instVars, log>>

\* SQL_ATTR_CONNECTION_TIMEOUT: the value of the call is not used.
SetConnectionTimeout(c) ==
    /\ manager[c] # "free"
    /\ AttributeBound(c)
    /\ cfg' = [cfg EXCEPT ![c]["connection_timeout"] = cfg[c]["timeout"]]
    /\ asked' = [asked EXCEPT ![c].changed = @ \cup {"connection_timeout"}]
    /\ UNCHANGED <<manager, lcb, loginSet, entity, twoPart, step, result,
                   instVars, log>>

\* SQL_ATTR_CURRENT_CATALOG.
SetCurrentCatalog(c, name) ==
    /\ manager[c] # "free"
    /\ AttributeBound(c)
    /\ cfg' = [cfg EXCEPT ![c]["catalog_part_1"] = name]
    /\ asked' = [asked EXCEPT ![c].changed = @ \cup {"catalog_part_1"}]
    /\ UNCHANGED <<manager, lcb, loginSet, entity, twoPart, step, result,
                   instVars, log>>

\* CH_SQL_ATTR_DRIVERLOG and CH_SQL_ATTR_DRIVERLOGFILE.
SetDriverLog(c, on, opens) ==
    /\ manager[c] # "free"
    /\ log' = SetLogEnabled(log, on, opens)
    /\ UNCHANGED <<connVars, instVars>>

SetDriverLogFile(c, file, opens) ==
    /\ manager[c] # "free"
    /\ log' = SetLogFile(log, file, opens)
    /\ UNCHANGED <<connVars, instVars>>

\* A LOG macro somewhere in the driver.
WriteLog ==
    /\ log' = Message(log)
    /\ UNCHANGED <<connVars, instVars>>

Users == {"u"}

\* Bound: only an application that switches the log meets a file that does not
\* open.
Opens == IF "log" \in uses THEN BOOLEAN ELSE {TRUE}

\* Bound: only some applications have more than one connection; those browse
\* with well-formed pieces.
Handles == {c \in Conn : "many" \in uses \/ c = CHOOSE d \in Conn : TRUE}
Pieces  == {p \in Piece : "many" \in uses => p # Malformed}

Next ==
    /\ UNCHANGED uses
    /\ \/ \E c \in Handles :
            \/ Allocate(c)
            \/ Free(c)
            \/ Disconnect(c)
            \/ \E opens \in Opens :
                  \/ "connect" \in uses /\ \E n \in Dsn \ {""}, u \in Users :
                        SQLConnect(c, n, u, opens)
                  \/ "driver_connect" \in uses /\ \E s \in ConnString :
                        SQLDriverConnect(c, s, opens)
            \/ "browse" \in uses /\ \E p \in Pieces :
                  \/ BrowseMore(c, p)
                  \/ \E opens \in Opens : BrowseLast(c, p, opens)
            \/ /\ "attributes" \in uses
               /\ \/ SetConnectionTimeout(c)
                  \/ SetCurrentCatalog(c, "cat")
                  \/ \E t \in Timeouts : SetLoginTimeout(c, t)
            \/ "log" \in uses /\ \E opens \in Opens :
                  \/ \E on \in BOOLEAN : SetDriverLog(c, on, opens)
                  \/ \E f \in LogFile \cup {NoFile} : SetDriverLogFile(c, f, opens)
       \/ "log" \in uses /\ WriteLog

Spec == Init /\ [][Next]_vars

-----------------------------------------------------------------------------
(* Properties                                                               *)

TypeOK ==
    /\ manager   \in [Conn -> {"free", "allocated", "need_data", "connected"}]
    /\ \A c \in Conn : DOMAIN cfg[c] = Field
    /\ instances \in [Address -> InstanceState]
    /\ lcb       \in [Conn -> Address \cup {NoInst}]
    /\ loginSet  \in [Conn -> BOOLEAN]
    /\ entity    \in [Conn -> BOOLEAN]
    /\ twoPart   \in [Conn -> BOOLEAN]
    /\ step      \in [Conn -> 0 .. 2]
    /\ result    \in [Conn -> Seq(Piece)]
    /\ log       \in LogType
    /\ brokenOff \in BOOLEAN
    /\ harmed    \in SUBSET Conn

\* A connection the application was told is open has an instance that
\* bootstrapped and answered the probe, an instance of its own, and such an
\* instance is never left to no connection, however connects fail, handles are
\* freed and addresses are used again.  A connection loses its instance to a
\* call on another handle only after SQLDisconnect has broken a browse off,
\* which destroys what a pointer shows to that its connection does not own.
InstancesOwned ==
    /\ \A c \in Conn : manager[c] = "connected" /\ c \notin harmed =>
          lcb[c] # NoInst /\ instances[lcb[c]] = "ready"
    /\ \A i \in Address : instances[i] = "ready" =>
          Cardinality({c \in Conn : manager[c] = "connected" /\ c \notin harmed /\ lcb[c] = i}) = 1
    /\ harmed # {} => brokenOff

\* What the strings of the call give for a field: the connection string before
\* the DSN.
Given(f, a) ==
    SetBy(f, Present(a.cs), a.cs, SetBy(f, Present(a.dsn), a.dsn, Unset(f)))

\* Has either of them a key for the field?
Named(f, a) ==
    \E i \in DOMAIN KeyField :
        KeyField[i][2] = f /\ KeyField[i][1] \in DOMAIN a.cs \cup DOMAIN a.dsn

OrElse(v, w) == IF v = "" THEN w ELSE v

NoUrl == [ scheme |-> "", host |-> "", user |-> "", password |-> "", path |-> "",
           format |-> "", catalog |-> "" ]

UrlOf(a) == LET url == Given("url", a) IN IF url = "" THEN NoUrl ELSE UrlParts[url]

\* The value a field has after a connect call with the fields of a, by the
\* precedence connection.h states: connection string, DSN, what is deduced from
\* other fields (the URL first), all of it from fields that were reset.
Expected(f, a) ==
    LET given == Given(f, a)
        u     == UrlOf(a)
        path  == OrElse(given, OrElse(u.path, "query"))
    IN  CASE f = "username"       -> OrElse(given, OrElse(u.user, "default"))
          [] f = "password"       -> OrElse(given, u.password)
          [] f = "server"         -> OrElse(given, OrElse(u.host, "localhost"))
          [] f = "proto"          -> OrElse(given, u.scheme)
          [] f = "path"           -> IF path \in Absolute THEN path ELSE "/" \o path
          [] f = "default_format" -> OrElse(u.format, "ODBCDriver2")
          [] f = "catalog_part_1" -> OrElse(given, u.catalog)
          [] f = "dsn"            -> OrElse(given, DsnDefault)
          [] f = "login_timeout"  -> IF Named(f, a) THEN given ELSE IF a.set THEN a.login ELSE 5
          [] f = "query_timeout"  -> IF Named(f, a) THEN given ELSE 75
          [] f = "log_file"       -> IF OnWindows /\ Given("collect_logs", a) THEN "lcb.log" ELSE ""
          [] f = "connection_timeout" -> Given("timeout", a)
          [] f = "string_max_length"  -> IF given = 0 THEN MaxStringSize ELSE given
          [] OTHER                -> given

\* Exempt below, and what FieldsReset is about: a field that is not reset and
\* that this call gives no value is left as it was.  The login timeout is not,
\* when its flag says nobody has set it or when the application has.
LeftAsItWas(f, a, flag) ==
    /\ f \in NotReset /\ ~Named(f, a)
    /\ f = "login_timeout" => flag /\ ~a.set
    /\ f = "log_file" => ~(OnWindows /\ Given("collect_logs", a))

\* Exempt below: the catalog of a URL replaces one that a string has given.
CatalogReplaced(f, a) ==
    f = "catalog_part_1" /\ Given(f, a) # "" /\ UrlOf(a).catalog # ""

\* Every field holds what the last connect call asked for: what its connection
\* string gives, else its DSN, else its URL, else the default, unless an
\* attribute has been set since.  The two exemptions are where the code departs
\* from that.
FieldsAsAsked ==
    \A c \in Conn : \A f \in Field :
        \/ f \in asked[c].changed
        \/ LeftAsItWas(f, asked[c], loginSet[c])
        \/ CatalogReplaced(f, asked[c])
        \/ cfg[c][f] = Expected(f, asked[c])

\* connection.h: "Reset all configuration fields to their
\* default/unintialized values."  What a connect leaves in the fields that are
\* not reset does not come from an earlier one.  (The code violates it.)
FieldsReset ==
    \A c \in Conn : \A f \in NotReset \ {"login_timeout"} :
        f \notin asked[c].changed => cfg[c][f] = Expected(f, asked[c])

\* The string libcouchbase connects with has one question mark, before its
\* first parameter, whichever parameters the configuration calls for.
OneQuestionMark ==
    \A c \in Conn :
        LET s     == ConnStr(cfg[c])
            marks == {i \in DOMAIN s.params : s.params[i][1] = "?"}
        IN  manager[c] = "connected" =>
              marks = IF s.params = << >>
                         \/ (cfg[c]["connect_to_capella"] /\ UrlHasQuery(cfg[c]["url"]))
                      THEN {} ELSE {1}

\* Whatever was configured before on the same handle, by a connect that failed
\* half-way, by a browse or by another DSN, the configuration is the one the
\* last connect call asked for in every field it gives a value to or that is
\* reset (but for a catalog both given and in the URL), and makes a string
\* libcouchbase can parse.
ConfigAsAsked == FieldsAsAsked /\ OneQuestionMark

\* Every log file has one open session while it is the driver's log and none
\* otherwise, whichever connection switched the log, in whatever order the two
\* attributes came and whether or not the file could be opened.
LogSessionsPaired ==
    \A f \in LogFile : log.sessions[f] =
        IF log.enabled /\ log.stream = "open" /\ log.name = f THEN 1 ELSE 0

\* While the log is on it is written where the file attribute says and no
\* message goes to a stream open on nothing.
LogFollowsAttribute == (log.enabled => log.name = log.file) /\ ~log.lost

\* The driver log is in step with its two attributes.
LogInStep == LogSessionsPaired /\ LogFollowsAttribute

\* The pieces SQLBrowseConnect has collected are those of the steps taken
\* since the configuration was last reset; more than two are kept only while
\* they cannot be parsed, and none is left to a connection that is open.
BrowseInStep ==
    \A c \in Conn :
        /\ step[c] < 2 => Len(result[c]) = step[c]
        /\ step[c] = 2 => Len(result[c]) >= 2
        /\ Len(result[c]) > 2 => Refused(result[c])
        /\ manager[c] = "connected" => step[c] = 0
=============================================================================
