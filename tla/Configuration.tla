--------------------------- MODULE Configuration ---------------------------
(* What a connection is configured with: the fields of Connection that      *)
(* setConfiguration fills from the connection string, from the DSN, from    *)
(* the URL and from defaults, and the string handed to libcouchbase.  A     *)
(* configuration is a function from field names to values; a connection     *)
(* string and a DSN, once parsed, are functions from key names to values.   *)
(* Keys are compared without case in the code and are the names of          *)
(* ini_defines.h here.                                                      *)
EXTENDS Integers, SequencesExt, DriverLog

CONSTANTS
    UrlParts, \* what Poco::URI makes of each URL, empty for what it has not got:
              \* the user and the password for a user info without a colon
    Dotted    \* the scopes with a dot: what is before it and after it

(* Values are strings; those the number parser of the code accepts: *)
Numerals == [ v \in {"0", "1", "30"} |-> CASE v = "0" -> 0 [] v = "1" -> 1 [] OTHER -> 30 ]
IsNumber(v)   == v \in DOMAIN Numerals
IsYes(v)      == v \in {"yes", "on", "1"}
IsYesOrNo(v)  == v \in {"yes", "on", "1", "no", "off", "0"}
WithColon     == {"a:b"}             \* the user names with a colon
Absolute      == {"/query", "/path"} \* the paths that begin with a slash

MaxStringSize == 16777215            \* TypeInfo::string_max_size
DsnDefault    == "Couchbase DSN"     \* INI_DSN_DEFAULT

-----------------------------------------------------------------------------
\* The field each recognised key sets, in the order of the map the fields are
\* kept in, which compares keys without case.
KeyField ==
  << <<"AdvancedParams", "advanced_params">>, <<"AuthMode", "auth_mode">>,
     <<"CALocation", "ca_location">>, <<"CertificateFile", "certificate_file">>,
     <<"ClientCert", "client_cert">>, <<"ClientKey", "client_key">>,
     <<"ClientKeyPassword", "client_key_password">>, <<"CollectLogs", "collect_logs">>,
     <<"ConnectToCapella", "connect_to_capella">>, <<"Database", "catalog_part_1">>,
     <<"DriverLog", "log">>, <<"DriverLogFile", "log">>, <<"DSN", "dsn">>,
     <<"Host", "server">>, <<"HugeIntAsString", "huge_int_as_string">>,
     <<"JWT", "jwt_token">>, <<"LoginTimeout", "login_timeout">>,
     <<"Password", "password">>, <<"Path", "path">>,
     <<"PrivateKeyFile", "private_key_file">>, <<"Proto", "proto">>,
     <<"PWD", "password">>, <<"QueryTimeout", "query_timeout">>,
     <<"Scope", "catalog_part_2">>, <<"Server", "server">>, <<"SSLMode", "sslmode">>,
     <<"StringMaxLength", "string_max_length">>, <<"Timeout", "timeout">>,
     <<"UID", "username">>, <<"Url", "url">>, <<"Username", "username">>,
     <<"VerifyConnectionEarly", "verify_connection_early">> >>

RecognizedKey == {KeyField[i][1] : i \in DOMAIN KeyField}

NumberField  == {"timeout", "login_timeout", "query_timeout", "connection_timeout",
                 "string_max_length"}
BooleanField == {"collect_logs", "connect_to_capella", "huge_int_as_string",
                 "verify_connection_early"}
Field        == ({KeyField[i][2] : i \in DOMAIN KeyField} \ {"log"})
                    \cup {"connection_timeout", "default_format", "log_file"}

Unset(f) == IF f \in NumberField THEN 0 ELSE IF f \in BooleanField THEN FALSE ELSE ""

\* What the members hold once the object is made: login_timeout is not
\* initialised, and neither is the flag that says it was set.
FreshConfig(garbage) ==
    [f \in Field |-> IF f = "login_timeout" THEN garbage ELSE Unset(f)]

\* The fields resetConfiguration leaves as they are.
NotReset == {"collect_logs", "connect_to_capella", "huge_int_as_string",
             "verify_connection_early", "login_timeout", "log_file"}

ResetConfiguration_Fault(cfg) ==
    [f \in Field |-> IF f \in NotReset \cup {"jwt_token"} THEN cfg[f] ELSE Unset(f)]

\* Connection::resetConfiguration.
ResetConfiguration(cfg) ==
    [f \in Field |-> IF f \in NotReset THEN cfg[f] ELSE Unset(f)]

-----------------------------------------------------------------------------
\* Is the value of a recognised key one set_config_value accepts?
ValidValue(key, v) ==
    CASE key \in {"UID", "Username"} -> v \notin WithColon
      [] key = "Proto"               -> v \in {"", "http", "https"}
      [] key \in {"Timeout", "LoginTimeout", "QueryTimeout"} -> v = "" \/ IsNumber(v)
      [] key = "StringMaxLength"     -> v = "" \/ (IsNumber(v) /\ Numerals[v] > 0)
      [] key \in {"VerifyConnectionEarly", "SSLMode", "HugeIntAsString", "DriverLog"}
                                     -> v = "" \/ IsYesOrNo(v)
      [] key = "AuthMode"            -> v \in {"basic", "certificate", "ldap", "jwt"}
      [] OTHER                       -> TRUE

\* What the field is set to.
TypedValue(key, v) ==
    CASE key \in {"ConnectToCapella", "CollectLogs"} -> v = "yes"
      [] key \in {"VerifyConnectionEarly", "HugeIntAsString"} -> IsYes(v)
      [] key = "LoginTimeout" -> IF v = "" THEN 75 ELSE Numerals[v]
      [] key \in {"Timeout", "QueryTimeout", "StringMaxLength"}
                              -> IF v = "" THEN 0 ELSE Numerals[v]
      [] OTHER                -> v

\* The indices of the recognised keys of a parsed string, and of those one of
\* the loops of setConfiguration gets to: a bad value throws.
Present(fields) == {i \in DOMAIN KeyField : KeyField[i][1] \in DOMAIN fields}

Accepted(fields) ==
    {i \in Present(fields) : \A j \in Present(fields) :
        j <= i => ValidValue(KeyField[j][1], fields[KeyField[j][1]])}

\* What is set in field f by the keys at the indices in taken: the last of
\* them replaces what the others set, and none leaves what was there.
SetBy(f, taken, fields, before) ==
    LET setting == {i \in taken : KeyField[i][2] = f}
        key     == KeyField[Max(setting)][1]
    IN  IF setting = {} THEN before ELSE TypedValue(key, fields[key])

\* One of the two loops of setConfiguration, calling set_config_value for each
\* key in map order, on the state s of the configuration: [ok, cfg, log].  The
\* two keys of the driver log set the attributes of the Driver at once,
\* whatever becomes of the connection.
SetFields(s, fields, opens) ==
    LET taken   == Accepted(fields)
        has(k)  == \E i \in taken : KeyField[i][1] = k
        enabled == IF has("DriverLog")
                   THEN SetLogEnabled(s.log, IsYes(fields["DriverLog"]), opens) ELSE s.log
    IN  IF ~s.ok THEN s
        ELSE [ ok  |-> taken = Present(fields),
               cfg |-> [f \in Field |-> SetBy(f, taken, fields, s.cfg[f])],
               log |-> IF has("DriverLogFile")
                       THEN SetLogFile(enabled, fields["DriverLogFile"], opens) ELSE enabled ]

\* A text field that is still empty takes the value.
IfEmpty(cfg, f, v) == IF cfg[f] = "" THEN [cfg EXCEPT ![f] = v] ELSE cfg

\* What is deduced from the URL.  The last `catalog' parameter replaces the
\* database whether or not one was given.
FromUrl(cfg, u) ==
    LET named   == IfEmpty(IfEmpty(cfg, "proto", u.scheme), "server", u.host)
        user    == IfEmpty(IfEmpty(named, "password", u.password), "username", u.user)
        pathed  == IfEmpty(user, "path", u.path)
    IN  [pathed EXCEPT !["default_format"] = IF u.format = "" THEN @ ELSE u.format,
                       !["catalog_part_1"] = IF u.catalog = "" THEN @ ELSE u.catalog]

\* The rest of setConfiguration: values deduced for what is still unset.
Deduce(cfg, cs, dsn, loginSet) ==
    LET given(key) == key \in DOMAIN cs \/ key \in DOMAIN dsn
        text == IfEmpty(IfEmpty(IfEmpty(IfEmpty(cfg, "username", "default"),
                    "server", "localhost"), "path", "query"), "default_format", "ODBCDriver2")
    IN  [ text EXCEPT
            !["connection_timeout"] = IF @ = 0 THEN cfg["timeout"] ELSE @,
            !["login_timeout"] = IF given("LoginTimeout") \/ loginSet THEN @ ELSE 5,
            !["query_timeout"] = IF given("QueryTimeout") THEN @ ELSE 75,
            !["path"] = IF @ \in Absolute THEN @ ELSE "/" \o @,
            !["string_max_length"] = IF @ = 0 THEN MaxStringSize ELSE @ ]

\* The keys of the DSN that the connection string has not got.
Remaining(dsn, cs) == [key \in DOMAIN dsn \ DOMAIN cs |-> dsn[key]]

\* What setConfiguration does once its loops have made t of the two strings.
Completed(t, cs, dsn, loginSet) ==
    LET url   == t.cfg["url"]
        named == IfEmpty(t.cfg, "dsn", DsnDefault)
        ofUrl == IF url = "" THEN named ELSE FromUrl(named, UrlParts[url])
    IN  IF ~t.ok THEN t
        ELSE IF url # "" /\ ~UrlParts[url].ok
        THEN [ok |-> FALSE, cfg |-> named, log |-> t.log]
        ELSE [ok |-> TRUE, cfg |-> Deduce(ofUrl, cs, dsn, loginSet), log |-> t.log]

\* Connection::setConfiguration.  A bad value throws in the middle: what was
\* set stays, nothing is deduced.  So does a URL the parser refuses.
SetConfiguration(s, cs, dsn, loginSet, opens) ==
    Completed(SetFields(SetFields(s, Remaining(dsn, cs), opens), cs, opens), cs, dsn, loginSet)

-----------------------------------------------------------------------------
\* Connection::build_conn_str_*: the scheme, the address and the parameters,
\* each with the character put before it.
Joined(s, cond, params) ==
    IF ~cond THEN s
    ELSE [s EXCEPT !.params = @ \o [i \in DOMAIN params |->
             <<IF i = 1 /\ ~s.hasQuery THEN "?" ELSE "&", params[i]>>],
                   !.hasQuery = TRUE]

UrlHasQuery(url) == url # "" /\ UrlParts[url].query

\* The libcouchbase connection string.  For Capella it is the URL and nothing
\* of the rest; advanced_params is taken as one parameter.
ConnStr(cfg) ==
    LET tls   == IsYes(cfg["sslmode"])
        base  == IF cfg["connect_to_capella"]
                 THEN [ scheme |-> "url", host |-> cfg["url"], params |-> << >>,
                        hasQuery |-> UrlHasQuery(cfg["url"]) ]
                 ELSE [ scheme |-> IF tls THEN "couchbases" ELSE "couchbase",
                        host |-> cfg["server"], hasQuery |-> FALSE, params |-> << >> ]
        trust == Joined(base, tls /\ cfg["certificate_file"] # "", <<"truststorepath">>)
        cert  == Joined(trust, tls /\ cfg["auth_mode"] = "certificate", <<"certpath", "keypath">>)
        ldap  == Joined(cert, cfg["auth_mode"] = "ldap", <<"sasl_mech_force">>)
        adv   == Joined(ldap, cfg["advanced_params"] # "", <<"advanced_params">>)
    IN  Joined(IF cfg["connect_to_capella"] THEN base ELSE adv,
               cfg["collect_logs"] /\ cfg["log_file"] # "",
               <<"console_log_level", "console_log_file">>)

\* Connection::parseDatabaseAndScope: a dotted scope names the database too.
ParseDatabaseAndScope(cfg) ==
    IF cfg["catalog_part_2"] \in DOMAIN Dotted
    THEN [cfg EXCEPT !["catalog_part_1"] = Dotted[cfg["catalog_part_2"]][1],
                     !["catalog_part_2"] = Dotted[cfg["catalog_part_2"]][2]]
    ELSE cfg
=============================================================================
