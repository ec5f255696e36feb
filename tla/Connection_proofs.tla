-------------------------- MODULE Connection_proofs --------------------------
(***************************************************************************)
(* The invariants of the connections, for any number of handles, connection*)
(* strings, DSNs, URLs and instances: each open connection has its own     *)
(* instance, the configuration is the one the last connect asked for, the  *)
(* steps of a browse and the attributes it collects agree, and the driver  *)
(* log is in step with its attributes.  Then the texts that pieces of      *)
(* connection strings and table types are read from: of any length, over   *)
(* any characters, with any number of fields.                              *)
(***************************************************************************)
EXTENDS Connection, Strings, FiniteSetTheorems, SequenceTheorems,
        WellFoundedInduction, TLAPS

(***************************************************************************)
(* The least and the greatest of some numbers.                             *)
(***************************************************************************)
LEMMA LeastOf ==
    ASSUME NEW S \in SUBSET Nat, S # {}
    PROVE  Min(S) \in S /\ \A n \in S : Min(S) <= n
<1>1. PICK n \in S : \A m \in S : ~(<<m, n>> \in OpToRel(<, Nat))
    BY WFMin, NatLessThanWellFounded, Zenon
<1>2. ASSUME NEW m \in S PROVE n <= m
    <2>1. m < n => <<m, n>> \in OpToRel(<, Nat)
        <3>1. <<m, n>> \in Nat \X Nat /\ <<m, n>>[1] = m /\ <<m, n>>[2] = n OBVIOUS
        <3> QED BY <3>1, Zenon DEF OpToRel
    <2>2. ~(m < n) BY <1>1, <2>1, Zenon
    <2> QED BY <2>2
<1> QED BY <1>2 DEF Min

LEMMA GreatestOf ==
    ASSUME NEW k \in Nat, NEW S \in SUBSET (1..k), S # {}
    PROVE  Max(S) \in S /\ \A n \in S : n <= Max(S)
<1> DEFINE T == {n \in Nat : k - n \in S}
<1>1. T # {}
    <2>1. PICK n \in S : TRUE OBVIOUS
    <2>2. k - n \in T BY <2>1
    <2> QED BY <2>2
<1>2. T \subseteq Nat OBVIOUS
<1>3. PICK n \in T : \A m \in T : n <= m
    <2> HIDE DEF T
    <2>1. Min(T) \in T /\ \A m \in T : Min(T) <= m BY <1>1, <1>2, LeastOf
    <2> QED BY <2>1
<1>4. k - n \in S /\ \A m \in S : m <= k - n
    <2>1. ASSUME NEW m \in S PROVE m <= k - n
        <3>1. k - m \in T BY <2>1
        <3> QED BY <1>3, <3>1
    <2> QED BY <2>1
<1> QED BY <1>4 DEF Max

(***************************************************************************)
(* The driver log.  A stream is open only on the file of an attribute that *)
(* is on, and a log that is on has been opened.                            *)
(***************************************************************************)
SessionsPaired(l) ==
    \A f \in LogFile : l.sessions[f] = IF l.stream = "open" /\ l.name = f THEN 1 ELSE 0

GoodLog(l) ==
    /\ l \in LogType
    /\ SessionsPaired(l)
    /\ ~l.lost
    /\ l.enabled => l.name = l.file /\ l.stream # "none"
    /\ l.stream = "open" => l.enabled /\ l.name \in LogFile

\* What is left of it while an attribute has just been changed.
Changing(l) ==
    /\ l \in LogType
    /\ SessionsPaired(l)
    /\ ~l.lost
    /\ l.stream = "open" => l.name \in LogFile

LEMMA EndedSession ==
    ASSUME NEW l, Changing(l), l.stream = "open"
    PROVE  /\ SessionEnd(l) \in LogType
           /\ \A f \in LogFile : SessionEnd(l).sessions[f] = 0
           /\ SessionEnd(l) = [l EXCEPT !.sessions = SessionEnd(l).sessions]
BY DEF SessionEnd, Changing, SessionsPaired, LogType

LEMMA ReopenedGood ==
    ASSUME NEW l \in LogType, NEW opens \in BOOLEAN, l.enabled, ~l.lost,
           \A f \in LogFile : l.sessions[f] = 0
    PROVE  GoodLog(Reopened(l, opens))
<1> DEFINE m == [l EXCEPT
        !.name   = l.file,
        !.stream = IF l.file = NoFile THEN "none" ELSE IF opens THEN "open" ELSE "failed"]
<1>1. m \in LogType /\ m.enabled /\ m.name = m.file /\ ~m.lost /\ m.sessions = l.sessions
    BY DEF LogType
<1>2. CASE m.stream = "open"
    <2>1. m.name \in LogFile BY <1>2, <1>1 DEF LogType
    <2>2. Reopened(l, opens) = [m EXCEPT !.sessions[m.name] = m.sessions[m.name] + 1]
        BY <1>2 DEF Reopened, SessionStart
    <2> HIDE DEF m
    <2>3. \A f \in LogFile : Reopened(l, opens).sessions[f] = IF m.name = f THEN 1 ELSE 0
        BY <1>1, <2>1, <2>2 DEF LogType
    <2> QED BY <1>1, <1>2, <2>1, <2>2, <2>3 DEF GoodLog, SessionsPaired, LogType
<1>3. CASE m.stream = "none"
    BY <1>1, <1>3 DEF Reopened, SessionStart, GoodLog, SessionsPaired, LogType
<1>4. CASE m.stream = "failed"
    BY <1>1, <1>4 DEF Reopened, SessionStart, GoodLog, SessionsPaired, LogType
<1> QED BY <1>1, <1>2, <1>3, <1>4 DEF LogType

LEMMA OnAttrChangeGood ==
    ASSUME NEW l, Changing(l), NEW opens \in BOOLEAN
    PROVE  GoodLog(OnAttrChange(l, opens))
<1> USE DEF Changing
<1>1. CASE l.enabled /\ l.stream = "open" /\ l.file = l.name
    BY <1>1 DEF OnAttrChange, GoodLog
<1>2. CASE l.enabled /\ l.stream = "open" /\ l.file # l.name
    <2>1. SessionEnd(l).enabled /\ ~SessionEnd(l).lost
        BY <1>2, EndedSession DEF LogType
    <2>2. GoodLog(Reopened(SessionEnd(l), opens))
        BY <1>2, <2>1, EndedSession, ReopenedGood
    <2> QED BY <1>2, <2>2 DEF OnAttrChange
<1>3. CASE l.enabled /\ l.stream # "open"
    <2>1. \A f \in LogFile : l.sessions[f] = 0
        BY <1>3 DEF SessionsPaired
    <2>2. GoodLog(Reopened(l, opens))
        BY <1>3, <2>1, ReopenedGood
    <2> QED BY <1>3, <2>2 DEF OnAttrChange
<1>4. CASE ~l.enabled /\ l.stream = "open"
    <2>1. OnAttrChange(l, opens)
            = [[SessionEnd(l) EXCEPT !.stream = "none"] EXCEPT !.name = NoFile]
        BY <1>4 DEF OnAttrChange
    <2>2. /\ OnAttrChange(l, opens) \in LogType
          /\ OnAttrChange(l, opens).sessions = SessionEnd(l).sessions
          /\ OnAttrChange(l, opens).stream = "none"
          /\ ~OnAttrChange(l, opens).enabled /\ ~OnAttrChange(l, opens).lost
        <3>1. SessionEnd(l).enabled = l.enabled /\ SessionEnd(l).lost = l.lost
            BY <1>4, EndedSession DEF LogType
        <3> QED BY <1>4, <2>1, <3>1, EndedSession DEF LogType
    <2> QED BY <1>4, <2>2, EndedSession DEF GoodLog, SessionsPaired
<1>5. CASE ~l.enabled /\ l.stream # "open"
    <2>1. OnAttrChange(l, opens) = [l EXCEPT !.name = NoFile]
        BY <1>5 DEF OnAttrChange
    <2> QED BY <1>5, <2>1 DEF GoodLog, SessionsPaired, LogType
<1> QED BY <1>1, <1>2, <1>3, <1>4, <1>5 DEF LogType

\* Whatever changes an attribute of the log leaves it good.
LEMMA SetLogGood ==
    ASSUME NEW l, GoodLog(l), NEW on \in BOOLEAN, NEW file \in LogFile \cup {NoFile},
           NEW opens \in BOOLEAN
    PROVE  GoodLog(SetLogEnabled(l, on, opens)) /\ GoodLog(SetLogFile(l, file, opens))
<1>1. Changing([l EXCEPT !.enabled = on]) /\ Changing([l EXCEPT !.file = file])
    BY DEF GoodLog, Changing, SessionsPaired, LogType
<1> QED BY <1>1, OnAttrChangeGood DEF SetLogEnabled, SetLogFile

LEMMA MessageGood ==
    ASSUME NEW l, GoodLog(l)
    PROVE  GoodLog(Message(l))
BY DEF GoodLog, Message

LEMMA InitialLogGood ==
    ASSUME NEW on \in BOOLEAN
    PROVE  GoodLog(InitialLog(on, TRUE))
<1> DEFINE l == [ enabled |-> on, file |-> DefaultLog, name |-> NoFile, stream |-> "none",
                  sessions |-> [f \in LogFile |-> 0], lost |-> FALSE ]
<1>1. Changing(l)
    BY LogAssumption DEF Changing, SessionsPaired, LogType
<1> QED BY <1>1, OnAttrChangeGood DEF InitialLog

(***************************************************************************)
(* The configuration.  Whatever strings it is made from, it keeps its      *)
(* fields, and the log it switches on the way stays good.                  *)
(***************************************************************************)
GoodState(s) == DOMAIN s.cfg = Field /\ GoodLog(s.log)

LEMMA SetFieldsGood ==
    ASSUME NEW s, GoodState(s), NEW fields, NamesLogFile(fields), NEW opens \in BOOLEAN
    PROVE  GoodState(SetFields(s, fields, opens))
<1> DEFINE taken   == Accepted(fields)
           has(k)  == \E i \in taken : KeyField[i][1] = k
           enabled == IF has("DriverLog")
                      THEN SetLogEnabled(s.log, IsYes(fields["DriverLog"]), opens) ELSE s.log
           after   == IF has("DriverLogFile")
                      THEN SetLogFile(enabled, fields["DriverLogFile"], opens) ELSE enabled
<1>1. GoodLog(enabled)
    <2>1. IsYes(fields["DriverLog"]) \in BOOLEAN BY DEF IsYes
    <2>2. NoFile \in LogFile \cup {NoFile} OBVIOUS
    <2> QED BY <2>1, <2>2, SetLogGood DEF GoodState
<1>2. GoodLog(after)
    <2>1. has("DriverLogFile") => fields["DriverLogFile"] \in LogFile \cup {NoFile}
        BY DEF Accepted, Present, NamesLogFile
    <2> QED BY <1>1, <2>1, SetLogGood
<1>3. SetFields(s, fields, opens) =
        IF ~s.ok THEN s
        ELSE [ ok  |-> taken = Present(fields),
               cfg |-> [f \in Field |-> SetBy(f, taken, fields, s.cfg[f])],
               log |-> after ]
    BY DEF SetFields
<1> HIDE DEF after
<1> QED BY <1>2, <1>3 DEF GoodState

LEMMA DeducedFields ==
    ASSUME NEW k, DOMAIN k = Field
    PROVE  /\ \A f, v : DOMAIN IfEmpty(k, f, v) = Field
           /\ \A u : DOMAIN FromUrl(k, u) = Field
           /\ \A cs, dsn, set : DOMAIN Deduce(k, cs, dsn, set) = Field
           /\ DOMAIN ParseDatabaseAndScope(k) = Field
<1>1. \A f, v : DOMAIN IfEmpty(k, f, v) = Field
    BY DEF IfEmpty
<1>2. \A g, f, v : DOMAIN g = Field => DOMAIN IfEmpty(g, f, v) = Field
    BY DEF IfEmpty
<1>3. \A u : DOMAIN FromUrl(k, u) = Field
    BY <1>2 DEF FromUrl
<1>4. \A cs, dsn, set : DOMAIN Deduce(k, cs, dsn, set) = Field
    BY <1>2 DEF Deduce
<1>5. DOMAIN ParseDatabaseAndScope(k) = Field
    BY DEF ParseDatabaseAndScope
<1> QED BY <1>1, <1>3, <1>4, <1>5

LEMMA SetConfigurationGood ==
    ASSUME NEW s, GoodState(s),
           NEW cs, NamesLogFile(cs), NEW dsn, NamesLogFile(dsn),
           NEW set, NEW opens \in BOOLEAN
    PROVE  GoodState(SetConfiguration(s, cs, dsn, set, opens))
<1> DEFINE t     == SetFields(SetFields(s, Remaining(dsn, cs), opens), cs, opens)
           url   == t.cfg["url"]
           named == IfEmpty(t.cfg, "dsn", DsnDefault)
           ofUrl == IF url = "" THEN named ELSE FromUrl(named, UrlParts[url])
<1>1. NamesLogFile(Remaining(dsn, cs)) BY DEF NamesLogFile, Remaining
<1>2. GoodState(t) BY <1>1, SetFieldsGood
<1> HIDE DEF t
<1>3. DOMAIN named = Field
    BY <1>2, DeducedFields DEF GoodState
<1> HIDE DEF named
<1>4. DOMAIN ofUrl = Field
    BY <1>3, DeducedFields
<1>5. SetConfiguration(s, cs, dsn, set, opens) =
        IF ~t.ok THEN t
        ELSE IF url # "" /\ ~UrlParts[url].ok
        THEN [ok |-> FALSE, cfg |-> named, log |-> t.log]
        ELSE [ok |-> TRUE, cfg |-> Deduce(ofUrl, cs, dsn, set), log |-> t.log]
    BY Zenon DEF SetConfiguration, Completed, t, named
<1> HIDE DEF ofUrl
<1>6. DOMAIN Deduce(ofUrl, cs, dsn, set) = Field
    BY <1>4, DeducedFields
<1> DEFINE whole   == SetConfiguration(s, cs, dsn, set, opens)
           refused == url # "" /\ ~UrlParts[url].ok
<1>7. CASE ~t.ok
    <2>1. whole = t BY <1>5, <1>7
    <2> QED BY <1>2, <2>1
<1>8. CASE t.ok /\ refused
    <2>1. whole = [ok |-> FALSE, cfg |-> named, log |-> t.log] BY <1>5, <1>8
    <2> QED BY <1>2, <1>3, <2>1 DEF GoodState
<1>9. CASE t.ok /\ ~refused
    <2>1. whole = [ok |-> TRUE, cfg |-> Deduce(ofUrl, cs, dsn, set), log |-> t.log]
        BY <1>5, <1>9
    <2> QED BY <1>2, <1>6, <2>1 DEF GoodState
<1> QED BY <1>7, <1>8, <1>9

LEMMA StringNames ==
    ASSUME NEW pieces, DOMAIN pieces \subseteq Nat,
           \A i \in DOMAIN pieces : NamesLogFile(pieces[i])
    PROVE  NamesLogFile(FieldsOf(pieces))
<1> SUFFICES ASSUME "DriverLogFile" \in DOMAIN FieldsOf(pieces)
             PROVE  FieldsOf(pieces)["DriverLogFile"] \in LogFile \cup {NoFile}
    BY DEF NamesLogFile
<1> DEFINE with == {i \in DOMAIN pieces : "DriverLogFile" \in DOMAIN pieces[i]}
<1>1. with # {} /\ FieldsOf(pieces)["DriverLogFile"] = pieces[Min(with)]["DriverLogFile"]
    BY Zenon DEF FieldsOf
<1>2. Min(with) \in with
    BY <1>1, LeastOf
<1> QED BY <1>1, <1>2 DEF NamesLogFile

LEMMA DsnNames ==
    ASSUME NEW cs, NEW dsn \in DsnsOf(cs)
    PROVE  NamesLogFile(dsn)
<1>1. NamesLogFile(NoFields)
    BY DEF NamesLogFile, NoFields
<1>2. ASSUME NEW name, NEW listsAll
      PROVE  NamesLogFile(ReadDSNInfo(name, listsAll))
    BY <1>1, FieldsAssumption DEF ReadDSNInfo, NamesLogFile
<1> QED BY <1>1, <1>2 DEF DsnsOf, NamesLogFile

(***************************************************************************)
(* The invariant.  An open connection no other handle has harmed has an    *)
(* instance that is ready, which is no other's, and a ready one has such a *)
(* connection.  A login timeout the application has set is still there.    *)
(***************************************************************************)
Record(a) == {"changed", "login", "set"} \subseteq DOMAIN a

Typed ==
    /\ TypeOK
    /\ DOMAIN cfg = Conn /\ DOMAIN asked = Conn
    /\ \A c \in Conn : Record(asked[c])

Open(c) == manager[c] = "connected" /\ c \notin harmed

OneOwner == \A c, d \in Conn : Open(c) /\ Open(d) /\ lcb[c] = lcb[d] => c = d

OpenIsReady == \A c \in Conn : Open(c) => lcb[c] \in Address /\ instances[lcb[c]] = "ready"

ReadyIsOpen ==
    \A i \in Address : instances[i] = "ready" => \E c \in Conn : Open(c) /\ lcb[c] = i

HarmedIsOpen ==
    /\ \A c \in harmed : manager[c] = "connected"
    /\ harmed # {} => brokenOff

Owned == OneOwner /\ OpenIsReady /\ ReadyIsOpen /\ HarmedIsOpen

\* The configuration k of a connection whose flag says whether a login timeout
\* has been set is the one the connect call of the record a asked for.
AsAsked(k, a, flag) ==
    \A f \in Field :
        f \in a.changed \/ LeftAsItWas(f, a, flag) \/ CatalogReplaced(f, a)
            \/ k[f] = Expected(f, a)

LoginIsKept(k, a, flag) == a.set => flag /\ k["login_timeout"] = a.login

LoginKept == \A c \in Conn : LoginIsKept(cfg[c], asked[c], loginSet[c])

IInv == Typed /\ Owned /\ BrowseInStep /\ GoodLog(log) /\ FieldsAsAsked /\ LoginKept

\* The strings a connect call may be given.
WellNamed(pieces) ==
    /\ DOMAIN pieces \subseteq Nat
    /\ \A i \in DOMAIN pieces : pieces[i] # Malformed => NamesLogFile(pieces[i])

(***************************************************************************)
(* What a connect call on a handle that is not open does: the instance it  *)
(* has is kept or forgotten, or a new one takes its place.                 *)
(***************************************************************************)
InstanceKept(c) ==
    /\ manager' = [manager EXCEPT ![c] = "allocated"]
    /\ \E i \in {lcb[c], NoInst} : lcb' = [lcb EXCEPT ![c] = i]
    /\ instances' = instances

InstanceMade(c) ==
    \E o \in {"failed", "ready"} :
        /\ manager' = [manager EXCEPT ![c] = IF o = "ready" THEN "connected" ELSE "allocated"]
        /\ \E i \in Address :
              /\ instances[i] = "none"
              /\ instances' = [instances EXCEPT ![i] = o]
              /\ lcb' = [lcb EXCEPT ![c] = i]

ConfigMade(c) ==
    /\ DOMAIN cfg' = Conn /\ DOMAIN asked' = Conn
    /\ \A d \in Conn \ {c} : cfg'[d] = cfg[d] /\ asked'[d] = asked[d]
    /\ DOMAIN cfg'[c] = Field /\ Record(asked'[c])
    /\ \/ cfg'[c] = cfg[c] /\ asked'[c] = asked[c]
       \/ /\ AsAsked(cfg'[c], asked'[c], loginSet[c])
          /\ LoginIsKept(cfg'[c], asked'[c], loginSet[c])

ConnectMade(c, pieces) ==
    /\ GoodLog(log')
    /\ entity' \in [Conn -> BOOLEAN] /\ twoPart' \in [Conn -> BOOLEAN]
    /\ InstanceKept(c) \/ InstanceMade(c)
    /\ ConfigMade(c)
    /\ IF Refused(pieces) THEN step' = step /\ manager'[c] = "allocated"
       ELSE step' = [step EXCEPT ![c] = 0]

LEMMA ConfiguredGood ==
    ASSUME Typed, GoodLog(log), NEW c \in Conn, NEW cs, NamesLogFile(cs),
           NEW dsn, NamesLogFile(dsn), NEW opens \in BOOLEAN
    PROVE  GoodState(Configured(c, cs, dsn, opens))
<1> DEFINE s == [ ok  |-> TRUE, cfg |-> PreScan(ResetConfiguration(cfg[c]), cs, dsn),
                  log |-> log ]
<1>1. DOMAIN PreScan(ResetConfiguration(cfg[c]), cs, dsn) = Field
    BY DEF PreScan, ResetConfiguration
<1>2. GoodState(s)
    BY <1>1 DEF GoodState
<1> HIDE DEF s
<1>3. GoodState(SetConfiguration(s, cs, dsn, loginSet[c], opens))
    BY <1>2, SetConfigurationGood
<1> QED BY <1>3 DEF Configured, s

(***************************************************************************)
(* The fields, one by one.                                                 *)
(***************************************************************************)
LEMMA KeysOfFields ==
    /\ DOMAIN KeyField = 1 .. 32
    /\ \A i \in 1 .. 32 :
         /\ KeyField[i][2] = "login_timeout" <=> KeyField[i][1] = "LoginTimeout"
         /\ KeyField[i][2] = "query_timeout" <=> KeyField[i][1] = "QueryTimeout"
         /\ KeyField[i][2] # "connection_timeout"
         /\ KeyField[i][2] # "default_format"
         /\ KeyField[i][2] # "log_file"
         /\ KeyField[i][2] = "collect_logs" <=> KeyField[i][1] = "CollectLogs"
    /\ {"username", "password", "server", "proto", "path", "catalog_part_1", "catalog_part_2",
        "dsn", "url", "login_timeout", "query_timeout", "timeout", "string_max_length",
        "connection_timeout", "default_format", "sslmode", "log_file", "collect_logs"}
            \subseteq Field
<1>1. DOMAIN KeyField = 1 .. 32 BY DEF KeyField
<1>2. ASSUME NEW i \in 1 .. 32
      PROVE  /\ KeyField[i][2] = "login_timeout" <=> KeyField[i][1] = "LoginTimeout"
             /\ KeyField[i][2] = "query_timeout" <=> KeyField[i][1] = "QueryTimeout"
             /\ KeyField[i][2] # "connection_timeout"
             /\ KeyField[i][2] # "default_format"
             /\ KeyField[i][2] # "log_file"
             /\ KeyField[i][2] = "collect_logs" <=> KeyField[i][1] = "CollectLogs"
    BY DEF KeyField
<1>3. /\ KeyField[29][2] = "username" /\ KeyField[18][2] = "password"
      /\ KeyField[14][2] = "server" /\ KeyField[21][2] = "proto" /\ KeyField[19][2] = "path"
      /\ KeyField[10][2] = "catalog_part_1" /\ KeyField[24][2] = "catalog_part_2"
      /\ KeyField[13][2] = "dsn" /\ KeyField[30][2] = "url"
      /\ KeyField[17][2] = "login_timeout" /\ KeyField[23][2] = "query_timeout"
      /\ KeyField[28][2] = "timeout" /\ KeyField[27][2] = "string_max_length"
      /\ KeyField[26][2] = "sslmode" /\ KeyField[8][2] = "collect_logs"
    BY DEF KeyField
<1>4. \A i \in 1 .. 32 : KeyField[i][2] # "log" => KeyField[i][2] \in Field
    BY <1>1 DEF Field
<1>5. {"connection_timeout", "default_format", "log_file"} \subseteq Field
    BY DEF Field
<1>6. {"username", "password", "server", "proto", "path", "catalog_part_1", "catalog_part_2",
       "dsn", "url", "login_timeout", "query_timeout", "timeout", "string_max_length",
       "sslmode", "collect_logs"} \subseteq Field
    <2> SUFFICES ASSUME NEW i \in 1 .. 32, KeyField[i][2] # "log"
                 PROVE  KeyField[i][2] \in Field
        BY <1>3
    <2> QED BY <1>4
<1> QED BY <1>1, <1>2, <1>5, <1>6

LEMMA IfEmptyAt ==
    ASSUME NEW k, DOMAIN k = Field, NEW f \in Field, NEW v, NEW g \in Field
    PROVE  IfEmpty(k, f, v)[g] = IF g = f THEN OrElse(k[g], v) ELSE k[g]
BY DEF IfEmpty, OrElse

LEMMA FromUrlAt ==
    ASSUME NEW k, DOMAIN k = Field, NEW u, NEW g \in Field
    PROVE  FromUrl(k, u)[g] =
             CASE g = "proto"          -> OrElse(k[g], u.scheme)
               [] g = "server"         -> OrElse(k[g], u.host)
               [] g = "password"       -> OrElse(k[g], u.password)
               [] g = "username"       -> OrElse(k[g], u.user)
               [] g = "path"           -> OrElse(k[g], u.path)
               [] g = "default_format" -> OrElse(u.format, k[g])
               [] g = "catalog_part_1" -> OrElse(u.catalog, k[g])
               [] OTHER                -> k[g]
<1> DEFINE k1 == IfEmpty(k, "proto", u.scheme)
           k2 == IfEmpty(k1, "server", u.host)
           k3 == IfEmpty(k2, "password", u.password)
           k4 == IfEmpty(k3, "username", u.user)
           k5 == IfEmpty(k4, "path", u.path)
<1>1. DOMAIN k1 = Field /\ DOMAIN k2 = Field /\ DOMAIN k3 = Field /\ DOMAIN k4 = Field
      /\ DOMAIN k5 = Field
    BY DeducedFields DEF IfEmpty
<1>2. {"proto", "server", "password", "username", "path", "default_format",
        "catalog_part_1"} \subseteq Field
    BY KeysOfFields
<1>3. k1[g] = IF g = "proto" THEN OrElse(k[g], u.scheme) ELSE k[g]
    BY <1>2, IfEmptyAt
<1>4. k2[g] = IF g = "server" THEN OrElse(k1[g], u.host) ELSE k1[g]
    BY <1>1, <1>2, IfEmptyAt
<1>5. k3[g] = IF g = "password" THEN OrElse(k2[g], u.password) ELSE k2[g]
    BY <1>1, <1>2, IfEmptyAt
<1>6. k4[g] = IF g = "username" THEN OrElse(k3[g], u.user) ELSE k3[g]
    BY <1>1, <1>2, IfEmptyAt
<1>7. k5[g] = IF g = "path" THEN OrElse(k4[g], u.path) ELSE k4[g]
    BY <1>1, <1>2, IfEmptyAt
<1>8. FromUrl(k, u) =
        [k5 EXCEPT !["default_format"] = IF u.format = "" THEN @ ELSE u.format,
                   !["catalog_part_1"] = IF u.catalog = "" THEN @ ELSE u.catalog]
    BY DEF FromUrl
<1> HIDE DEF k1, k2, k3, k4, k5
<1>9. FromUrl(k, u)[g] =
        IF g = "default_format" THEN OrElse(u.format, k5[g])
        ELSE IF g = "catalog_part_1" THEN OrElse(u.catalog, k5[g]) ELSE k5[g]
    BY <1>1, <1>2, <1>8 DEF OrElse
<1> QED BY <1>3, <1>4, <1>5, <1>6, <1>7, <1>9

LEMMA DeduceAt ==
    ASSUME NEW k, DOMAIN k = Field, NEW cs, NEW dsn, NEW set, NEW g \in Field
    PROVE  LET path       == OrElse(k["path"], "query")
               given(key) == key \in DOMAIN cs \/ key \in DOMAIN dsn
           IN  Deduce(k, cs, dsn, set)[g] =
             CASE g = "username"           -> OrElse(k[g], "default")
               [] g = "server"             -> OrElse(k[g], "localhost")
               [] g = "default_format"     -> OrElse(k[g], "ODBCDriver2")
               [] g = "path"               -> IF path \in Absolute THEN path ELSE "/" \o path
               [] g = "connection_timeout" -> IF k[g] = 0 THEN k["timeout"] ELSE k[g]
               [] g = "login_timeout"      -> IF given("LoginTimeout") \/ set THEN k[g] ELSE 5
               [] g = "query_timeout"      -> IF given("QueryTimeout") THEN k[g] ELSE 75
               [] g = "string_max_length"  -> IF k[g] = 0 THEN MaxStringSize ELSE k[g]
               [] OTHER                    -> k[g]
<1> DEFINE k1 == IfEmpty(k, "username", "default")
           k2 == IfEmpty(k1, "server", "localhost")
           k3 == IfEmpty(k2, "path", "query")
           k4 == IfEmpty(k3, "default_format", "ODBCDriver2")
           given(key) == key \in DOMAIN cs \/ key \in DOMAIN dsn
<1>1. DOMAIN k1 = Field /\ DOMAIN k2 = Field /\ DOMAIN k3 = Field /\ DOMAIN k4 = Field
    BY DEF IfEmpty
<1>2. {"username", "server", "path", "default_format", "connection_timeout", "login_timeout",
       "query_timeout", "string_max_length", "timeout"} \subseteq Field
    BY KeysOfFields
<1>3. \A h \in Field :
        /\ k1[h] = IF h = "username" THEN OrElse(k[h], "default") ELSE k[h]
        /\ k2[h] = IF h = "server" THEN OrElse(k1[h], "localhost") ELSE k1[h]
        /\ k3[h] = IF h = "path" THEN OrElse(k2[h], "query") ELSE k2[h]
        /\ k4[h] = IF h = "default_format" THEN OrElse(k3[h], "ODBCDriver2") ELSE k3[h]
    BY <1>1, <1>2, IfEmptyAt
<1>4. Deduce(k, cs, dsn, set) =
        [ k4 EXCEPT
            !["connection_timeout"] = IF @ = 0 THEN k["timeout"] ELSE @,
            !["login_timeout"] = IF given("LoginTimeout") \/ set THEN @ ELSE 5,
            !["query_timeout"] = IF given("QueryTimeout") THEN @ ELSE 75,
            !["path"] = IF @ \in Absolute THEN @ ELSE "/" \o @,
            !["string_max_length"] = IF @ = 0 THEN MaxStringSize ELSE @ ]
    BY DEF Deduce
<1> HIDE DEF k1, k2, k3, k4, given
<1>5. Deduce(k, cs, dsn, set)[g] =
        IF g = "connection_timeout" THEN IF k4[g] = 0 THEN k["timeout"] ELSE k4[g]
        ELSE IF g = "login_timeout" THEN IF given("LoginTimeout") \/ set THEN k4[g] ELSE 5
        ELSE IF g = "query_timeout" THEN IF given("QueryTimeout") THEN k4[g] ELSE 75
        ELSE IF g = "path" THEN IF k4[g] \in Absolute THEN k4[g] ELSE "/" \o k4[g]
        ELSE IF g = "string_max_length" THEN IF k4[g] = 0 THEN MaxStringSize ELSE k4[g]
        ELSE k4[g]
    BY <1>1, <1>2, <1>4
<1> QED BY <1>2, <1>3, <1>5 DEF given

\* The DSN's value of a key the connection string has too is never missed.
LEMMA DsnOverridden ==
    ASSUME NEW f, NEW cs, NEW dsn, NEW v
    PROVE  SetBy(f, Present(cs), cs,
                 SetBy(f, Present(Remaining(dsn, cs)), Remaining(dsn, cs), v))
             = SetBy(f, Present(cs), cs, SetBy(f, Present(dsn), dsn, v))
<1> DEFINE ofDsn == Remaining(dsn, cs)
           A == {i \in Present(cs) : KeyField[i][2] = f}
           B == {i \in Present(ofDsn) : KeyField[i][2] = f}
           C == {i \in Present(dsn) : KeyField[i][2] = f}
<1>1. CASE A # {}
    BY <1>1, Zenon DEF SetBy
<1>2. CASE A = {}
    <2>1. B = C
        BY <1>2 DEF Present, Remaining
    <2>2. CASE C = {}
        BY <2>1, <2>2 DEF SetBy
    <2>3. CASE C # {}
        <3>1. Max(C) \in C
            <4>1. C \in SUBSET (1 .. 32) BY KeysOfFields DEF Present
            <4> QED BY <2>3, <4>1, GreatestOf
        <3>2. ofDsn[KeyField[Max(C)][1]] = dsn[KeyField[Max(C)][1]]
            BY <2>1, <3>1 DEF Present, Remaining
        <3>3. SetBy(f, Present(ofDsn), ofDsn, v)
                = TypedValue(KeyField[Max(B)][1], ofDsn[KeyField[Max(B)][1]])
            BY <2>1, <2>3, Zenon DEF SetBy
        <3>4. SetBy(f, Present(dsn), dsn, v)
                = TypedValue(KeyField[Max(C)][1], dsn[KeyField[Max(C)][1]])
            BY <2>3, Zenon DEF SetBy
        <3> QED BY <2>1, <3>2, <3>3, <3>4
    <2> QED BY <2>2, <2>3
<1> QED BY <1>1, <1>2

\* What the two loops leave in a field.
LEMMA LoopsSet ==
    ASSUME NEW s, NEW cs, NEW dsn, NEW opens, NEW f \in Field, s.ok,
           SetFields(SetFields(s, Remaining(dsn, cs), opens), cs, opens).ok
    PROVE  SetFields(SetFields(s, Remaining(dsn, cs), opens), cs, opens).cfg[f]
             = SetBy(f, Present(cs), cs, SetBy(f, Present(dsn), dsn, s.cfg[f]))
<1> DEFINE ofDsn == Remaining(dsn, cs)
           r == SetFields(s, ofDsn, opens)
           t == SetFields(r, cs, opens)
<1>1. ASSUME NEW u, NEW fields, SetFields(u, fields, opens).ok
      PROVE  /\ u.ok
             /\ SetFields(u, fields, opens).cfg
                  = [g \in Field |-> SetBy(g, Present(fields), fields, u.cfg[g])]
    <2>1. u.ok BY <1>1 DEF SetFields
    <2>2. PICK l : SetFields(u, fields, opens) =
            [ ok  |-> Accepted(fields) = Present(fields),
              cfg |-> [g \in Field |-> SetBy(g, Accepted(fields), fields, u.cfg[g])],
              log |-> l ]
        BY <2>1 DEF SetFields
    <2>3. Accepted(fields) = Present(fields)
        BY <1>1, <2>1 DEF SetFields
    <2> QED BY <2>1, <2>2, <2>3
<1> HIDE DEF t, r
<1>2. r.ok /\ t.cfg = [g \in Field |-> SetBy(g, Present(cs), cs, r.cfg[g])]
    BY <1>1 DEF t, r
<1>3. r.cfg = [g \in Field |-> SetBy(g, Present(ofDsn), ofDsn, s.cfg[g])]
    BY <1>1, <1>2 DEF r
<1>4. t.cfg[f] = SetBy(f, Present(cs), cs, SetBy(f, Present(ofDsn), ofDsn, s.cfg[f]))
    BY <1>2, <1>3
<1>5. t.cfg[f] = SetBy(f, Present(cs), cs, SetBy(f, Present(dsn), dsn, s.cfg[f]))
    BY <1>4, DsnOverridden
<1> QED BY <1>5 DEF t, r

\* A field the strings have a key for is what the keys give, whatever was there
\* before, and one they have none for stays.
LEMMA NamedSet ==
    ASSUME NEW f, NEW a, NEW v, NEW w
    PROVE  LET set(x) == SetBy(f, Present(a.cs), a.cs, SetBy(f, Present(a.dsn), a.dsn, x))
           IN  set(v) = IF Named(f, a) THEN set(w) ELSE v
<1> DEFINE A(fields) == {i \in Present(fields) : KeyField[i][2] = f}
<1>1. Named(f, a) <=> A(a.cs) # {} \/ A(a.dsn) # {}
    BY DEF Named, Present
<1> QED BY <1>1, Zenon DEF SetBy

LEMMA TimeoutKeys ==
    ASSUME NEW a
    PROVE  /\ Named("login_timeout", a) <=> "LoginTimeout" \in DOMAIN a.cs \cup DOMAIN a.dsn
           /\ Named("query_timeout", a) <=> "QueryTimeout" \in DOMAIN a.cs \cup DOMAIN a.dsn
<1>1. /\ KeyField[17] = <<"LoginTimeout", "login_timeout">>
      /\ KeyField[23] = <<"QueryTimeout", "query_timeout">>
      /\ 17 \in 1 .. 32 /\ 23 \in 1 .. 32
    BY DEF KeyField
<1>2. \A j \in DOMAIN KeyField :
         /\ KeyField[j][2] = "login_timeout" => KeyField[j][1] = "LoginTimeout"
         /\ KeyField[j][2] = "query_timeout" => KeyField[j][1] = "QueryTimeout"
    BY KeysOfFields
<1>3. 17 \in DOMAIN KeyField /\ 23 \in DOMAIN KeyField BY <1>1, KeysOfFields
<1>4. Named("login_timeout", a) <=> "LoginTimeout" \in DOMAIN a.cs \cup DOMAIN a.dsn
    BY <1>1, <1>2, <1>3 DEF Named
<1>5. Named("query_timeout", a) <=> "QueryTimeout" \in DOMAIN a.cs \cup DOMAIN a.dsn
    BY <1>1, <1>2, <1>3 DEF Named
<1> QED BY <1>4, <1>5

(***************************************************************************)
(* A connect call that gets as far as libcouchbase has the configuration   *)
(* its strings ask for, whatever was configured on the handle before.      *)
(***************************************************************************)
LEMMA ConfiguredAsAsked ==
    ASSUME Typed, LoginKept, NEW c \in Conn, NEW cs, NEW dsn, NEW opens,
           Configured(c, cs, dsn, opens).ok,
           NEW a, a.cs = cs, a.dsn = dsn, a.login = asked[c].login,
           a.set <=> asked[c].set /\ "LoginTimeout" \notin DOMAIN cs \cup DOMAIN dsn
    PROVE  \A f \in Field :
               \/ LeftAsItWas(f, a, loginSet[c])
               \/ CatalogReplaced(f, a)
               \/ Configured(c, cs, dsn, opens).cfg[f] = Expected(f, a)
<1> DEFINE P     == PreScan(ResetConfiguration(cfg[c]), cs, dsn)
           s     == [ok |-> TRUE, cfg |-> P, log |-> log]
           t     == SetFields(SetFields(s, Remaining(dsn, cs), opens), cs, opens)
           k     == t.cfg
           url   == k["url"]
           named == IfEmpty(k, "dsn", DsnDefault)
           ofUrl == IF url = "" THEN named ELSE FromUrl(named, UrlParts[url])
           u     == IF url = "" THEN NoUrl ELSE UrlParts[url]
           whole == Configured(c, cs, dsn, opens)
<1>1. /\ \A f \in Field \ NotReset : P[f] = Unset(f)
      /\ P["login_timeout"] = cfg[c]["login_timeout"]
      /\ DOMAIN P = Field
    BY KeysOfFields DEF PreScan, ResetConfiguration, NotReset
<1>30. OnWindows /\ Given("collect_logs", a) => P["log_file"] = "lcb.log"
    <2> SUFFICES ASSUME OnWindows, Given("collect_logs", a)
                 PROVE  P["log_file"] = "lcb.log"
        OBVIOUS
    <2> DEFINE A(fields) == {i \in Present(fields) : KeyField[i][2] = "collect_logs"}
               R         == ResetConfiguration(cfg[c])
               given     == IF "CollectLogs" \in DOMAIN cs THEN {cs["CollectLogs"]}
                            ELSE IF "CollectLogs" \in DOMAIN dsn THEN {dsn["CollectLogs"]} ELSE {}
    <2>1. ASSUME NEW fields
          PROVE  A(fields) = IF "CollectLogs" \in DOMAIN fields THEN {8} ELSE {}
        <3>1. KeyField[8] = <<"CollectLogs", "collect_logs">> BY DEF KeyField
        <3>2. \A i \in 1 .. 32 : KeyField[i][1] = "CollectLogs" => i = 8 BY DEF KeyField
        <3>3. 8 \in 1 .. 32 OBVIOUS
        <3> QED BY <3>1, <3>2, <3>3, KeysOfFields DEF Present
    <2>2. Max({8}) = 8
        <3>1. {8} \in SUBSET (1 .. 8) OBVIOUS
        <3> QED BY <3>1, GreatestOf
    <2>3. KeyField[8][1] = "CollectLogs" BY DEF KeyField
    <2>4. \A v : TypedValue("CollectLogs", v) <=> v = "yes" BY DEF TypedValue
    <2>5. ASSUME NEW fields, NEW v
          PROVE  SetBy("collect_logs", Present(fields), fields, v)
                   = IF "CollectLogs" \in DOMAIN fields
                     THEN TypedValue("CollectLogs", fields["CollectLogs"]) ELSE v
        <3>1. SetBy("collect_logs", Present(fields), fields, v)
                = IF A(fields) = {} THEN v
                  ELSE TypedValue(KeyField[Max(A(fields))][1], fields[KeyField[Max(A(fields))][1]])
            BY Zenon DEF SetBy
        <3> HIDE DEF A
        <3> QED BY <2>1, <2>2, <2>3, <3>1
    <2>6. ~Unset("collect_logs") BY DEF Unset, NumberField, BooleanField
    <2>7. given = {"yes"}
        BY <2>4, <2>5, <2>6 DEF Given
    <2>8. P = [R EXCEPT !["collect_logs"] = given = {"yes"},
                        !["log_file"] = IF given = {"yes"} THEN "lcb.log" ELSE @]
        <3>1. given # {} BY <2>7
        <3> QED BY <3>1 DEF PreScan
    <2>9. DOMAIN R = Field BY DEF ResetConfiguration
    <2> HIDE DEF P, R, given
    <2> QED BY <2>7, <2>8, <2>9, KeysOfFields
<1>2. whole = IF ~t.ok THEN t
              ELSE IF url # "" /\ ~UrlParts[url].ok THEN [ok |-> FALSE, cfg |-> named, log |-> t.log]
              ELSE [ok |-> TRUE, cfg |-> Deduce(ofUrl, cs, dsn, loginSet[c]), log |-> t.log]
    BY DEF Configured, SetConfiguration, Completed
<1>3. t.ok /\ whole.cfg = Deduce(ofUrl, cs, dsn, loginSet[c])
    <2> HIDE DEF t, named, ofUrl, whole
    <2>1. CASE ~t.ok
        <3>1. whole = t BY <1>2, <2>1
        <3> QED BY <2>1, <3>1 DEF whole
    <2>2. CASE t.ok /\ url # "" /\ ~UrlParts[url].ok
        <3>1. whole = [ok |-> FALSE, cfg |-> named, log |-> t.log] BY <1>2, <2>2
        <3>2. ~whole.ok BY <3>1
        <3> QED BY <3>2 DEF whole
    <2>3. CASE t.ok /\ ~(url # "" /\ ~UrlParts[url].ok)
        <3>1. whole = [ok |-> TRUE, cfg |-> Deduce(ofUrl, cs, dsn, loginSet[c]), log |-> t.log]
            BY <1>2, <2>3
        <3> QED BY <2>3, <3>1
    <2> QED BY <2>1, <2>2, <2>3
<1>4. \A f \in Field : k[f] = SetBy(f, Present(cs), cs, SetBy(f, Present(dsn), dsn, P[f]))
    <2> HIDE DEF P
    <2>1. s.ok /\ s.cfg = P OBVIOUS
    <2> HIDE DEF s
    <2>2. \A f \in Field : t.cfg[f] = SetBy(f, Present(cs), cs, SetBy(f, Present(dsn), dsn, s.cfg[f]))
        <3> TAKE f \in Field
        <3>1. t.ok BY <1>3
        <3> QED BY <2>1, <3>1, LoopsSet
    <2> QED BY <2>1, <2>2
<1>5. DOMAIN k = Field
    BY <1>3 DEF SetFields
<1> HIDE DEF t, P, s, whole
<1>6. \A f \in Field \ NotReset : k[f] = Given(f, a)
    BY <1>1, <1>4 DEF Given
<1>7. \A f \in Field : k[f] = IF Named(f, a) THEN Given(f, a) ELSE P[f]
    <2> TAKE f \in Field
    <2>1. k[f] = SetBy(f, Present(a.cs), a.cs, SetBy(f, Present(a.dsn), a.dsn, P[f]))
        BY <1>4
    <2> DEFINE set(x) == SetBy(f, Present(a.cs), a.cs, SetBy(f, Present(a.dsn), a.dsn, x))
    <2>2. \A v, w : set(v) = IF Named(f, a) THEN set(w) ELSE v
        BY NamedSet
    <2>3. Given(f, a) = set(Unset(f)) BY DEF Given
    <2>4. k[f] = set(P[f]) BY <2>1
    <2> HIDE DEF set, k
    <2> QED BY <2>2, <2>3, <2>4
<1>8. DOMAIN named = Field /\ DOMAIN ofUrl = Field
    BY <1>5, DeducedFields
<1>9. \A f \in Field : named[f] = IF f = "dsn" THEN OrElse(k[f], DsnDefault) ELSE k[f]
    <2>1. "dsn" \in Field BY KeysOfFields
    <2> QED BY <1>5, <2>1 DEF IfEmpty, OrElse
<1>10. url = Given("url", a)
    <2>1. "url" \in Field \ NotReset BY KeysOfFields DEF NotReset
    <2> QED BY <1>6, <2>1
<1>11. \A f \in Field : ofUrl[f] =
             CASE f = "proto"          -> OrElse(named[f], u.scheme)
               [] f = "server"         -> OrElse(named[f], u.host)
               [] f = "password"       -> OrElse(named[f], u.password)
               [] f = "username"       -> OrElse(named[f], u.user)
               [] f = "path"           -> OrElse(named[f], u.path)
               [] f = "default_format" -> OrElse(u.format, named[f])
               [] f = "catalog_part_1" -> OrElse(u.catalog, named[f])
               [] OTHER                -> named[f]
    <2>1. CASE url # ""
        <3>1. ofUrl = FromUrl(named, u) BY <2>1
        <3> HIDE DEF u, ofUrl, named
        <3> QED BY <1>8, <3>1, FromUrlAt
    <2>2. CASE url = ""
        <3>1. ofUrl = named /\ u = NoUrl BY <2>2
        <3> HIDE DEF u, ofUrl, named
        <3> QED BY <3>1 DEF OrElse, NoUrl
    <2> QED BY <2>1, <2>2
<1>12. u = UrlOf(a)
    BY <1>10 DEF UrlOf
<1> HIDE DEF ofUrl, named, url, u
<1> TAKE f \in Field
<1>13. f \in Field OBVIOUS
<1> DEFINE path == OrElse(ofUrl["path"], "query")
           given(key) == key \in DOMAIN cs \/ key \in DOMAIN dsn
<1>14. whole.cfg[f] =
             CASE f = "username"           -> OrElse(ofUrl[f], "default")
               [] f = "server"             -> OrElse(ofUrl[f], "localhost")
               [] f = "default_format"     -> OrElse(ofUrl[f], "ODBCDriver2")
               [] f = "path"               -> IF path \in Absolute THEN path ELSE "/" \o path
               [] f = "connection_timeout" -> IF ofUrl[f] = 0 THEN ofUrl["timeout"] ELSE ofUrl[f]
               [] f = "login_timeout"      -> IF given("LoginTimeout") \/ loginSet[c] THEN ofUrl[f] ELSE 5
               [] f = "query_timeout"      -> IF given("QueryTimeout") THEN ofUrl[f] ELSE 75
               [] f = "string_max_length"  -> IF ofUrl[f] = 0 THEN MaxStringSize ELSE ofUrl[f]
               [] OTHER                    -> ofUrl[f]
    BY <1>3, <1>8, <1>13, DeduceAt
<1> HIDE DEF given, path
<1>15. f \notin NotReset => k[f] = Given(f, a)
    BY <1>6
<1>16. Given("default_format", a) = "" /\ Given("connection_timeout", a) = 0
    <2>1. ASSUME NEW fields
          PROVE  /\ {i \in Present(fields) : KeyField[i][2] = "default_format"} = {}
                 /\ {i \in Present(fields) : KeyField[i][2] = "connection_timeout"} = {}
        BY KeysOfFields DEF Present
    <2>2. Unset("default_format") = "" /\ Unset("connection_timeout") = 0
        BY DEF Unset, NumberField, BooleanField
    <2> QED BY <2>1, <2>2 DEF Given, SetBy
<1>17. CASE f = "username"
    <2>1. ofUrl[f] = OrElse(named[f], u.user) BY <1>11, <1>13, <1>17
    <2>2. whole.cfg[f] = OrElse(ofUrl[f], "default") BY <1>14, <1>17
    <2>3. named[f] = Given(f, a) BY <1>9, <1>13, <1>15, <1>17 DEF NotReset
    <2>4. Expected(f, a) = OrElse(Given(f, a), OrElse(u.user, "default"))
        BY <1>12, <1>17 DEF Expected
    <2> QED BY <2>1, <2>2, <2>3, <2>4 DEF OrElse, whole
<1>18. CASE f = "password"
    <2>1. ofUrl[f] = OrElse(named[f], u.password) BY <1>11, <1>13, <1>18
    <2>2. whole.cfg[f] = ofUrl[f] BY <1>14, <1>18
    <2>3. named[f] = Given(f, a) BY <1>9, <1>13, <1>15, <1>18 DEF NotReset
    <2>4. Expected(f, a) = OrElse(Given(f, a), u.password)
        BY <1>12, <1>18 DEF Expected
    <2> QED BY <2>1, <2>2, <2>3, <2>4 DEF OrElse, whole
<1>19. CASE f = "server"
    <2>1. ofUrl[f] = OrElse(named[f], u.host) BY <1>11, <1>13, <1>19
    <2>2. whole.cfg[f] = OrElse(ofUrl[f], "localhost") BY <1>14, <1>19
    <2>3. named[f] = Given(f, a) BY <1>9, <1>13, <1>15, <1>19 DEF NotReset
    <2>4. Expected(f, a) = OrElse(Given(f, a), OrElse(u.host, "localhost"))
        BY <1>12, <1>19 DEF Expected
    <2> QED BY <2>1, <2>2, <2>3, <2>4 DEF OrElse, whole
<1>20. CASE f = "proto"
    <2>1. ofUrl[f] = OrElse(named[f], u.scheme) BY <1>11, <1>13, <1>20
    <2>2. whole.cfg[f] = ofUrl[f] BY <1>14, <1>20
    <2>3. named[f] = Given(f, a) BY <1>9, <1>13, <1>15, <1>20 DEF NotReset
    <2>4. Expected(f, a) = OrElse(Given(f, a), u.scheme)
        BY <1>12, <1>20 DEF Expected
    <2> QED BY <2>1, <2>2, <2>3, <2>4 DEF OrElse, whole
<1>21. CASE f = "default_format"
    <2>1. ofUrl[f] = OrElse(u.format, named[f]) BY <1>11, <1>13, <1>21
    <2>2. whole.cfg[f] = OrElse(ofUrl[f], "ODBCDriver2") BY <1>14, <1>21
    <2>3. named[f] = Given(f, a) BY <1>9, <1>13, <1>15, <1>21 DEF NotReset
    <2>4. Expected(f, a) = OrElse(u.format, "ODBCDriver2")
        BY <1>12, <1>21 DEF Expected
    <2> QED BY <1>16, <1>21, <2>1, <2>2, <2>3, <2>4 DEF OrElse, whole
<1>22. CASE f = "catalog_part_1"
    <2>1. ofUrl[f] = OrElse(u.catalog, named[f]) BY <1>11, <1>13, <1>22
    <2>2. whole.cfg[f] = ofUrl[f] BY <1>14, <1>22
    <2>3. named[f] = Given(f, a) BY <1>9, <1>13, <1>15, <1>22 DEF NotReset
    <2>4. Expected(f, a) = OrElse(Given(f, a), u.catalog)
        BY <1>12, <1>22 DEF Expected
    <2>5. CatalogReplaced(f, a) <=> Given(f, a) # "" /\ u.catalog # ""
        BY <1>12, <1>22 DEF CatalogReplaced, UrlOf
    <2> QED BY <2>1, <2>2, <2>3, <2>4, <2>5 DEF OrElse, whole
<1>23. CASE f = "path"
    <2>1. ofUrl[f] = OrElse(named[f], u.path) BY <1>11, <1>13, <1>23
    <2>2. whole.cfg[f] = IF path \in Absolute THEN path ELSE "/" \o path BY <1>14, <1>23
    <2>3. named[f] = Given(f, a) BY <1>9, <1>13, <1>15, <1>23 DEF NotReset
    <2>4. path = OrElse(Given(f, a), OrElse(u.path, "query"))
        BY <1>23, <2>1, <2>3 DEF path, OrElse
    <2>5. Expected(f, a) = IF path \in Absolute THEN path ELSE "/" \o path
        BY <1>12, <1>23, <2>4 DEF Expected
    <2> QED BY <2>2, <2>5 DEF whole
<1>24. CASE f = "dsn"
    <2>1. whole.cfg[f] = OrElse(Given(f, a), DsnDefault)
        BY <1>9, <1>11, <1>13, <1>14, <1>15, <1>24 DEF NotReset
    <2> QED BY <1>24, <2>1 DEF Expected, whole
<1>25. CASE f = "login_timeout"
    <2>1. ofUrl[f] = k[f] BY <1>9, <1>11, <1>13, <1>25
    <2>2. whole.cfg[f] = IF Named(f, a) \/ loginSet[c] THEN k[f] ELSE 5
        <3>1. given("LoginTimeout") <=> Named("login_timeout", a)
            BY TimeoutKeys DEF given
        <3> QED BY <1>14, <1>25, <2>1, <3>1
    <2>3. Expected(f, a) = IF Named(f, a) THEN Given(f, a) ELSE IF a.set THEN a.login ELSE 5
        BY <1>25 DEF Expected
    <2>4. a.set => loginSet[c] /\ P[f] = a.login
        BY <1>1, <1>25 DEF LoginKept, LoginIsKept
    <2>5. loginSet[c] /\ ~a.set /\ ~Named(f, a) => LeftAsItWas(f, a, loginSet[c])
        BY <1>25 DEF LeftAsItWas, NotReset
    <2>6. k[f] = IF Named(f, a) THEN Given(f, a) ELSE P[f]
        BY <1>7, <1>13
    <2>7. CASE Named(f, a) BY <2>2, <2>3, <2>6, <2>7 DEF whole
    <2>8. CASE ~Named(f, a) /\ a.set BY <2>2, <2>3, <2>4, <2>6, <2>8 DEF whole
    <2>9. CASE ~Named(f, a) /\ ~a.set
        BY <2>2, <2>3, <2>5, <2>9 DEF whole
    <2> QED BY <2>7, <2>8, <2>9
<1>26. CASE f = "query_timeout"
    <2>1. ofUrl[f] = k[f] BY <1>9, <1>11, <1>13, <1>26
    <2>2. whole.cfg[f] = IF given("QueryTimeout") THEN k[f] ELSE 75
        BY <1>14, <1>26, <2>1
    <2>3. Expected(f, a) = IF Named(f, a) THEN Given(f, a) ELSE 75
        BY <1>26 DEF Expected
    <2>4. given("QueryTimeout") <=> Named("query_timeout", a)
        BY TimeoutKeys DEF given
    <2> QED BY <1>15, <1>26, <2>2, <2>3, <2>4 DEF whole, NotReset
<1>27. CASE f = "connection_timeout"
    <2>1. "timeout" \in Field \ NotReset BY KeysOfFields DEF NotReset
    <2>2. ofUrl["timeout"] = Given("timeout", a)
        BY <1>6, <1>9, <1>11, <2>1
    <2>3. ofUrl[f] = 0
        BY <1>9, <1>11, <1>13, <1>15, <1>16, <1>27 DEF NotReset
    <2>4. whole.cfg[f] = Given("timeout", a)
        BY <1>14, <1>27, <2>2, <2>3
    <2>5. Expected(f, a) = Given("timeout", a)
        BY <1>27 DEF Expected
    <2> QED BY <2>4, <2>5 DEF whole
<1>28. CASE f = "string_max_length"
    <2>1. ofUrl[f] = Given(f, a)
        BY <1>9, <1>11, <1>13, <1>15, <1>28 DEF NotReset
    <2>2. whole.cfg[f] = IF Given(f, a) = 0 THEN MaxStringSize ELSE Given(f, a)
        BY <1>14, <1>28, <2>1
    <2>3. Expected(f, a) = IF Given(f, a) = 0 THEN MaxStringSize ELSE Given(f, a)
        BY <1>28 DEF Expected
    <2> QED BY <2>2, <2>3 DEF whole
<1>29. CASE f = "log_file"
    <2>1. ~Named(f, a)
        BY <1>29, KeysOfFields, Zenon DEF Named
    <2>2. whole.cfg[f] = P[f]
        BY <1>7, <1>9, <1>11, <1>13, <1>14, <1>29, <2>1
    <2>3. CASE OnWindows /\ Given("collect_logs", a)
        <3>1. Expected(f, a) = "lcb.log" BY <1>29, <2>3 DEF Expected
        <3> QED BY <1>29, <1>30, <2>2, <2>3, <3>1 DEF whole
    <2>4. CASE ~(OnWindows /\ Given("collect_logs", a))
        BY <1>29, <2>1, <2>4 DEF LeftAsItWas, NotReset
    <2> QED BY <2>3, <2>4
<1>31. CASE f \in BooleanField
    <2>1. whole.cfg[f] = IF Named(f, a) THEN Given(f, a) ELSE P[f]
        BY <1>7, <1>9, <1>11, <1>13, <1>14, <1>31 DEF BooleanField
    <2>2. Expected(f, a) = Given(f, a)
        BY <1>31 DEF Expected, BooleanField
    <2>3. ~Named(f, a) => LeftAsItWas(f, a, loginSet[c])
        BY <1>31 DEF LeftAsItWas, NotReset, BooleanField
    <2> QED BY <2>1, <2>2, <2>3 DEF whole
<1>32. CASE f \notin {"username", "password", "server", "proto", "path", "default_format",
                      "catalog_part_1", "dsn", "login_timeout", "query_timeout",
                      "connection_timeout", "string_max_length", "log_file"} \cup BooleanField
    <2>0. f \notin NotReset BY <1>32 DEF NotReset, BooleanField
    <2>1. ofUrl[f] = Given(f, a)
        BY <1>9, <1>11, <1>13, <1>15, <1>32, <2>0
    <2>2. whole.cfg[f] = Given(f, a)
        BY <1>14, <1>32, <2>1
    <2>3. Expected(f, a) = Given(f, a)
        BY <1>32 DEF Expected
    <2> QED BY <2>2, <2>3 DEF whole
<1> QED
    BY <1>17, <1>18, <1>19, <1>20, <1>21, <1>22, <1>23, <1>24, <1>25, <1>26, <1>27, <1>28,
       <1>29, <1>31, <1>32

\* A login timeout the application has set stays, however far the call gets.
LEMMA LoginStays ==
    ASSUME Typed, NEW c \in Conn, NEW cs, NEW dsn, NEW opens, loginSet[c],
           "LoginTimeout" \notin DOMAIN cs \cup DOMAIN dsn
    PROVE  Configured(c, cs, dsn, opens).cfg["login_timeout"] = cfg[c]["login_timeout"]
<1> DEFINE P     == PreScan(ResetConfiguration(cfg[c]), cs, dsn)
           s     == [ok |-> TRUE, cfg |-> P, log |-> log]
           t     == SetFields(SetFields(s, Remaining(dsn, cs), opens), cs, opens)
           k     == t.cfg
           url   == k["url"]
           named == IfEmpty(k, "dsn", DsnDefault)
           ofUrl == IF url = "" THEN named ELSE FromUrl(named, UrlParts[url])
           whole == Configured(c, cs, dsn, opens)
           l     == "login_timeout"
<1>1. P[l] = cfg[c][l] /\ DOMAIN P = Field
    BY KeysOfFields DEF PreScan, ResetConfiguration, NotReset
<1>2. l \in Field /\ "dsn" \in Field BY KeysOfFields
<1>3. ASSUME NEW u, DOMAIN u.cfg = Field, NEW fields, "LoginTimeout" \notin DOMAIN fields
      PROVE  SetFields(u, fields, opens).cfg[l] = u.cfg[l]
             /\ DOMAIN SetFields(u, fields, opens).cfg = Field
    <2>1. {i \in Accepted(fields) : KeyField[i][2] = l} = {}
        BY <1>3, KeysOfFields DEF Accepted, Present
    <2>2. SetBy(l, Accepted(fields), fields, u.cfg[l]) = u.cfg[l]
        BY <2>1 DEF SetBy
    <2>3. CASE ~u.ok BY <1>3, <2>3 DEF SetFields
    <2>4. CASE u.ok
        <3>1. SetFields(u, fields, opens).cfg
                = [f \in Field |-> SetBy(f, Accepted(fields), fields, u.cfg[f])]
            BY <2>4 DEF SetFields
        <3> QED BY <1>2, <2>2, <3>1
    <2> QED BY <2>3, <2>4
<1>4. k[l] = cfg[c][l] /\ DOMAIN k = Field
    <2>1. "LoginTimeout" \notin DOMAIN Remaining(dsn, cs) BY DEF Remaining
    <2>2. s.cfg = P OBVIOUS
    <2> DEFINE r == SetFields(s, Remaining(dsn, cs), opens)
    <2> HIDE DEF s, P
    <2>3. r.cfg[l] = cfg[c][l] /\ DOMAIN r.cfg = Field BY <1>1, <1>3, <2>1, <2>2
    <2> HIDE DEF r
    <2>4. SetFields(r, cs, opens).cfg[l] = cfg[c][l]
          /\ DOMAIN SetFields(r, cs, opens).cfg = Field
        BY <1>3, <2>3
    <2> QED BY <2>4 DEF r
<1>5. whole = IF ~t.ok THEN t
              ELSE IF url # "" /\ ~UrlParts[url].ok THEN [ok |-> FALSE, cfg |-> named, log |-> t.log]
              ELSE [ok |-> TRUE, cfg |-> Deduce(ofUrl, cs, dsn, loginSet[c]), log |-> t.log]
    BY DEF Configured, SetConfiguration, Completed
<1> HIDE DEF t, s, P, whole
<1>6. named[l] = cfg[c][l] /\ DOMAIN named = Field
    <2> HIDE DEF k
    <2>1. DOMAIN named = Field BY <1>4, DeducedFields
    <2>2. named[l] = k[l] BY <1>2, <1>4 DEF IfEmpty
    <2> QED BY <1>4, <2>1, <2>2
<1> HIDE DEF named
<1>7. ofUrl[l] = cfg[c][l] /\ DOMAIN ofUrl = Field
    <2>1. DOMAIN ofUrl = Field BY <1>6, DeducedFields
    <2>2. \A v : FromUrl(named, v)[l] = named[l] BY <1>2, <1>6, FromUrlAt
    <2>3. CASE url = "" BY <1>6, <2>1, <2>3
    <2>4. CASE url # "" BY <1>6, <2>1, <2>2, <2>4
    <2> QED BY <2>3, <2>4
<1> HIDE DEF ofUrl
<1>8. Deduce(ofUrl, cs, dsn, loginSet[c])[l] = cfg[c][l]
    <2>1. ASSUME NEW set, NEW g \in Field, g = l, set
          PROVE  Deduce(ofUrl, cs, dsn, set)[g] = ofUrl[g]
        <3> DEFINE path       == OrElse(ofUrl["path"], "query")
                   given(key) == key \in DOMAIN cs \/ key \in DOMAIN dsn
                   d          == Deduce(ofUrl, cs, dsn, set)
        <3>0. DOMAIN ofUrl = Field BY <1>7
        <3>1. d[g] =
             CASE g = "username"           -> OrElse(ofUrl[g], "default")
               [] g = "server"             -> OrElse(ofUrl[g], "localhost")
               [] g = "default_format"     -> OrElse(ofUrl[g], "ODBCDriver2")
               [] g = "path"               -> IF path \in Absolute THEN path ELSE "/" \o path
               [] g = "connection_timeout" -> IF ofUrl[g] = 0 THEN ofUrl["timeout"] ELSE ofUrl[g]
               [] g = "login_timeout"      -> IF given("LoginTimeout") \/ set THEN ofUrl[g] ELSE 5
               [] g = "query_timeout"      -> IF given("QueryTimeout") THEN ofUrl[g] ELSE 75
               [] g = "string_max_length"  -> IF ofUrl[g] = 0 THEN MaxStringSize ELSE ofUrl[g]
               [] OTHER                    -> ofUrl[g]
            BY <3>0, DeduceAt
        <3> HIDE DEF path, given, d
        <3>2. d[g] = ofUrl[g] BY <2>1, <3>1
        <3> QED BY <3>2 DEF d
    <2>2. Deduce(ofUrl, cs, dsn, loginSet[c])[l] = ofUrl[l]
        BY <1>2, <2>1
    <2> QED BY <1>7, <2>2
<1> DEFINE refused == url # "" /\ ~UrlParts[url].ok
<1>9. CASE ~t.ok
    <2>1. whole = t BY <1>5, <1>9
    <2> QED BY <1>4, <2>1 DEF whole
<1>10. CASE t.ok /\ refused
    <2>1. whole = [ok |-> FALSE, cfg |-> named, log |-> t.log] BY <1>5, <1>10
    <2>2. whole.cfg = named BY <2>1
    <2> QED BY <1>6, <2>2 DEF whole
<1>11. CASE t.ok /\ ~refused
    <2>1. whole = [ok |-> TRUE, cfg |-> Deduce(ofUrl, cs, dsn, loginSet[c]), log |-> t.log]
        BY <1>5, <1>11
    <2> DEFINE d == Deduce(ofUrl, cs, dsn, loginSet[c])
    <2>2. d[l] = cfg[c][l] BY <1>8
    <2> HIDE DEF d
    <2>3. whole.cfg = d BY <2>1 DEF d
    <2> QED BY <2>2, <2>3 DEF whole
<1> QED BY <1>9, <1>10, <1>11

LEMMA ConnectMakes ==
    ASSUME Typed, GoodLog(log), LoginKept, NEW c \in Conn, manager[c] # "connected",
           NEW pieces, WellNamed(pieces), NEW opens \in BOOLEAN, Connect(c, pieces, opens)
    PROVE  ConnectMade(c, pieces)
<1>1. CASE Refused(pieces)
    <2>1. /\ manager' = [manager EXCEPT ![c] = "allocated"]
          /\ UNCHANGED <<cfg, lcb, entity, twoPart, step, instances, log, asked>>
        BY <1>1 DEF Connect
    <2>2. InstanceKept(c)
        BY <2>1 DEF InstanceKept, Typed, TypeOK
    <2>3. ConfigMade(c)
        <3>1. cfg' = cfg /\ asked' = asked
            BY <2>1
        <3> QED BY <3>1 DEF ConfigMade, Typed, TypeOK
    <2>4. manager'[c] = "allocated"
        BY <2>1 DEF Typed, TypeOK
    <2>5. GoodLog(log')
        BY <2>1
    <2> QED BY <1>1, <2>1, <2>2, <2>3, <2>4, <2>5 DEF ConnectMade, Typed, TypeOK
<1>2. CASE ~Refused(pieces)
    <2> DEFINE cs == WithoutDriver(FieldsOf(pieces))
    <2>1. NamesLogFile(cs)
        <3>1. \A i \in DOMAIN pieces : pieces[i] # Malformed
            BY <1>2 DEF Refused, ToSet
        <3>2. NamesLogFile(FieldsOf(pieces))
            BY <3>1, StringNames DEF WellNamed
        <3> QED BY <3>2 DEF NamesLogFile, WithoutDriver
    <2> DEFINE s(dsn) == Configured(c, cs, dsn, opens)
               stillSet(dsn) == asked[c].set /\ "LoginTimeout" \notin DOMAIN cs \cup DOMAIN dsn
               failed(dsn) == [NotAsked EXCEPT !.login = asked[c].login, !.set = stillSet(dsn)]
               record(dsn, k) ==
                   [ cs |-> cs, dsn |-> dsn, login |-> asked[c].login, set |-> stillSet(dsn),
                     changed |-> IF k = s(dsn).cfg THEN {}
                                 ELSE {"catalog_part_1", "catalog_part_2"} ]
    <2>2. PICK dsn \in DsnsOf(FieldsOf(pieces)) :
            /\ log'  = s(dsn).log
            /\ step' = [step EXCEPT ![c] = 0]
            /\ IF ~s(dsn).ok \/ JwtRefused(s(dsn).cfg)
               THEN /\ manager' = [manager EXCEPT ![c] = "allocated"]
                    /\ cfg' = [cfg EXCEPT ![c] = s(dsn).cfg]
                    /\ asked' = [asked EXCEPT ![c] = failed(dsn)]
                    /\ UNCHANGED <<lcb, entity, twoPart, instances>>
               ELSE \E o \in Outcome :
                    /\ manager' = [manager EXCEPT ![c] =
                                      IF o = "ready" THEN "connected" ELSE "allocated"]
                    /\ LET final == IF o = "ready" THEN ParseDatabaseAndScope(s(dsn).cfg)
                                    ELSE s(dsn).cfg
                       IN  /\ cfg' = [cfg EXCEPT ![c] = final]
                           /\ asked' = [asked EXCEPT ![c] = record(dsn, final)]
                    /\ IF o = "not_created"
                       THEN /\ \E i \in {lcb[c], NoInst} : lcb' = [lcb EXCEPT ![c] = i]
                            /\ UNCHANGED instances
                       ELSE \E i \in Address :
                            /\ instances[i] = "none"
                            /\ instances' = [instances EXCEPT ![i] = o]
                            /\ lcb' = [lcb EXCEPT ![c] = i]
                    /\ IF o = "ready"
                       THEN /\ \E b \in UNION {EntitySupport(a) : a \in Answer} :
                                  entity' = [entity EXCEPT ![c] = b]
                            /\ twoPart' = [twoPart EXCEPT ![c] = s(dsn).cfg["catalog_part_2"] # ""]
                       ELSE UNCHANGED <<entity, twoPart>>
        BY <1>2, Zenon DEF Connect, Proceed
    <2>3. GoodState(s(dsn))
        BY <2>1, DsnNames, ConfiguredGood
    <2>6. loginSet[c] /\ stillSet(dsn) => s(dsn).cfg["login_timeout"] = cfg[c]["login_timeout"]
        BY LoginStays
    <2>7. stillSet(dsn) => loginSet[c] /\ cfg[c]["login_timeout"] = asked[c].login
        BY DEF LoginKept, LoginIsKept
    <2> HIDE DEF s, cs
    <2>4. CASE ~s(dsn).ok \/ JwtRefused(s(dsn).cfg)
        <3>1. InstanceKept(c)
            BY <2>2, <2>4 DEF InstanceKept, Typed, TypeOK
        <3>2. asked'[c] = failed(dsn) /\ cfg'[c] = s(dsn).cfg BY <2>2, <2>4 DEF Typed
        <3>4. /\ failed(dsn).changed = Field /\ Record(failed(dsn))
              /\ failed(dsn).set <=> stillSet(dsn)
              /\ failed(dsn).login = asked[c].login
            BY DEF NotAsked, Record
        <3> HIDE DEF failed
        <3>5. AsAsked(cfg'[c], asked'[c], loginSet[c])
            BY <3>2, <3>4 DEF AsAsked
        <3>6. LoginIsKept(cfg'[c], asked'[c], loginSet[c])
            BY <2>6, <2>7, <3>2, <3>4 DEF LoginIsKept
        <3>3. ConfigMade(c)
            BY <2>2, <2>3, <2>4, <3>2, <3>4, <3>5, <3>6 DEF ConfigMade, GoodState, Typed
        <3> QED BY <1>2, <2>2, <2>3, <2>4, <3>1, <3>3 DEF ConnectMade, GoodState, Typed, TypeOK
    <2>5. CASE ~(~s(dsn).ok \/ JwtRefused(s(dsn).cfg))
        <3> DEFINE final(o) == IF o = "ready" THEN ParseDatabaseAndScope(s(dsn).cfg)
                               ELSE s(dsn).cfg
        <3>1. PICK o \in Outcome :
                /\ manager' = [manager EXCEPT ![c] =
                                  IF o = "ready" THEN "connected" ELSE "allocated"]
                /\ cfg' = [cfg EXCEPT ![c] = final(o)]
                /\ asked' = [asked EXCEPT ![c] = record(dsn, final(o))]
                /\ IF o = "not_created"
                   THEN /\ \E i \in {lcb[c], NoInst} : lcb' = [lcb EXCEPT ![c] = i]
                        /\ UNCHANGED instances
                   ELSE \E i \in Address :
                        /\ instances[i] = "none"
                        /\ instances' = [instances EXCEPT ![i] = o]
                        /\ lcb' = [lcb EXCEPT ![c] = i]
                /\ IF o = "ready"
                   THEN /\ \E b \in UNION {EntitySupport(a) : a \in Answer} :
                              entity' = [entity EXCEPT ![c] = b]
                        /\ twoPart' = [twoPart EXCEPT ![c] = s(dsn).cfg["catalog_part_2"] # ""]
                   ELSE UNCHANGED <<entity, twoPart>>
            BY <2>2, <2>5, Zenon
        <3>2. DOMAIN final(o) = Field
            BY <2>3, DeducedFields DEF GoodState
        <3>3. AsAsked(final(o), record(dsn, final(o)), loginSet[c])
            <4>1. s(dsn).ok BY <2>5
            <4> DEFINE a == record(dsn, final(o))
            <4>2. /\ a.cs = cs /\ a.dsn = dsn /\ a.login = asked[c].login
                  /\ a.set <=> asked[c].set /\ "LoginTimeout" \notin DOMAIN cs \cup DOMAIN dsn
                  /\ a.changed = IF final(o) = s(dsn).cfg THEN {}
                                 ELSE {"catalog_part_1", "catalog_part_2"}
                OBVIOUS
            <4>3. \A f \in Field \ {"catalog_part_1", "catalog_part_2"} :
                     final(o)[f] = s(dsn).cfg[f]
                BY <2>3 DEF ParseDatabaseAndScope, GoodState
            <4> HIDE DEF final, record, a, stillSet
            <4>4. \A f \in Field :
                     \/ LeftAsItWas(f, a, loginSet[c])
                     \/ CatalogReplaced(f, a)
                     \/ s(dsn).cfg[f] = Expected(f, a)
                BY <4>1, <4>2, ConfiguredAsAsked DEF s
            <4>5. AsAsked(final(o), a, loginSet[c])
                BY <4>2, <4>3, <4>4 DEF AsAsked
            <4> QED BY <4>5 DEF a
        <3>6. LoginIsKept(final(o), record(dsn, final(o)), loginSet[c])
            <4>1. final(o)["login_timeout"] = s(dsn).cfg["login_timeout"]
                BY <2>3, KeysOfFields DEF ParseDatabaseAndScope, GoodState
            <4>2. /\ record(dsn, final(o)).login = asked[c].login
                  /\ record(dsn, final(o)).set <=> stillSet(dsn)
                OBVIOUS
            <4> HIDE DEF record, final, stillSet
            <4> QED BY <2>6, <2>7, <4>1, <4>2 DEF LoginIsKept
        <3>8. Record(record(dsn, final(o))) BY DEF Record
        <3> HIDE DEF final, record
        <3>9. ConfigMade(c)
            BY <3>1, <3>2, <3>3, <3>6, <3>8 DEF ConfigMade, Typed
        <3>4. InstanceKept(c) \/ InstanceMade(c)
            BY <3>1 DEF Outcome, InstanceKept, InstanceMade
        <3>5. entity' \in [Conn -> BOOLEAN] /\ twoPart' \in [Conn -> BOOLEAN]
            <4>1. \A a : EntitySupport(a) \subseteq BOOLEAN
                BY DEF EntitySupport
            <4>2. \A b \in UNION {EntitySupport(a) : a \in Answer} : b \in BOOLEAN
                BY <4>1
            <4>3. CASE o = "ready"
                <5>1. PICK b \in UNION {EntitySupport(a) : a \in Answer} :
                         entity' = [entity EXCEPT ![c] = b]
                    BY <3>1, <4>3
                <5>2. (s(dsn).cfg["catalog_part_2"] # "") \in BOOLEAN OBVIOUS
                <5>3. twoPart' = [twoPart EXCEPT ![c] = s(dsn).cfg["catalog_part_2"] # ""]
                    BY <3>1, <4>3
                <5> HIDE DEF s
                <5> QED BY <4>2, <5>1, <5>2, <5>3 DEF Typed, TypeOK
            <4>4. CASE o # "ready"
                BY <3>1, <4>4 DEF Typed, TypeOK
            <4> QED BY <4>3, <4>4
        <3> QED BY <1>2, <2>2, <2>3, <3>4, <3>5, <3>9 DEF ConnectMade, GoodState
    <2> QED BY <2>4, <2>5
<1> QED BY <1>1, <1>2

(***************************************************************************)
(* A step at a time: the types, who owns an instance, the steps of a browse*)
(***************************************************************************)
LEMMA ConnectTyped ==
    ASSUME Typed, NEW c \in Conn, NEW pieces, ConnectMade(c, pieces),
           result' \in [Conn -> Seq(Piece)], UNCHANGED <<loginSet, brokenOff, harmed>>
    PROVE  Typed'
<1> USE DEF Typed, TypeOK
<1>0. /\ step' \in [Conn -> 0 .. 2] /\ log' \in LogType
      /\ DOMAIN cfg' = Conn /\ DOMAIN asked' = Conn
      /\ \A d \in Conn : DOMAIN cfg'[d] = Field /\ Record(asked'[d])
      /\ entity' \in [Conn -> BOOLEAN] /\ twoPart' \in [Conn -> BOOLEAN]
      /\ InstanceKept(c) \/ InstanceMade(c)
    <2>1. step' = step \/ step' = [step EXCEPT ![c] = 0] BY DEF ConnectMade
    <2>2. step \in [Conn -> 0 .. 2] /\ 0 \in 0 .. 2 OBVIOUS
    <2>3. step' \in [Conn -> 0 .. 2]
        <3> HIDE DEF Typed, TypeOK
        <3> QED BY <2>1, <2>2
    <2> QED BY <2>3 DEF ConnectMade, ConfigMade, GoodLog
<1>1. CASE InstanceKept(c)
    <2>1. /\ manager' \in [Conn -> {"free", "allocated", "need_data", "connected"}]
          /\ instances' = instances
          /\ lcb' \in [Conn -> Address \cup {NoInst}]
        BY <1>1 DEF InstanceKept
    <2> QED BY <1>0, <2>1
<1>2. CASE InstanceMade(c)
    <2>1. PICK o \in {"failed", "ready"}, i \in Address :
            /\ manager' = [manager EXCEPT ![c] = IF o = "ready" THEN "connected" ELSE "allocated"]
            /\ lcb' = [lcb EXCEPT ![c] = i]
            /\ instances' = [instances EXCEPT ![i] = o]
        BY <1>2 DEF InstanceMade
    <2>2. instances' \in [Address -> InstanceState]
        BY <2>1 DEF InstanceState
    <2> QED BY <1>0, <2>1, <2>2
<1> QED BY <1>0, <1>1, <1>2

\* Calls that are let through with a handle that has no open connection, and
\* leave it so, whatever becomes of its pointer.
LEMMA ForgottenOwned ==
    ASSUME Typed, Owned, NEW c \in Conn, manager[c] # "connected",
           UNCHANGED instVars,
           NEW m, m # "connected", manager' = [manager EXCEPT ![c] = m],
           NEW i, lcb' = [lcb EXCEPT ![c] = i]
    PROVE  Owned'
<1> USE DEF Typed, TypeOK, instVars
<1>1. \A d \in Conn : (Open(d)' <=> Open(d)) /\ (Open(d) => lcb'[d] = lcb[d])
    BY DEF Open
<1>2. OneOwner' BY <1>1 DEF Owned, OneOwner
<1>3. OpenIsReady' BY <1>1 DEF Owned, OpenIsReady
<1>4. ReadyIsOpen'
    <2> SUFFICES ASSUME NEW j \in Address, instances[j] = "ready"
                 PROVE  \E d \in Conn : Open(d)' /\ lcb'[d] = j
        BY DEF ReadyIsOpen
    <2>1. PICK d \in Conn : Open(d) /\ lcb[d] = j BY DEF Owned, ReadyIsOpen
    <2> QED BY <1>1, <2>1
<1>5. HarmedIsOpen' BY DEF Owned, HarmedIsOpen
<1> QED BY <1>2, <1>3, <1>4, <1>5 DEF Owned

LEMMA ConnectOwned ==
    ASSUME Typed, Owned, NEW c \in Conn, manager[c] # "connected",
           InstanceKept(c) \/ InstanceMade(c), UNCHANGED <<brokenOff, harmed>>
    PROVE  Owned'
<1> USE DEF Typed, TypeOK
<1>0. c \notin harmed BY DEF Owned, HarmedIsOpen
<1>1. CASE InstanceKept(c)
    <2>1. PICK i \in {lcb[c], NoInst} : lcb' = [lcb EXCEPT ![c] = i]
        BY <1>1 DEF InstanceKept
    <2>2. manager' = [manager EXCEPT ![c] = "allocated"] /\ instances' = instances
        BY <1>1 DEF InstanceKept
    <2>3. UNCHANGED instVars BY <2>2 DEF instVars
    <2> HIDE DEF Typed, TypeOK
    <2> QED BY <2>1, <2>2, <2>3, ForgottenOwned
<1>2. CASE InstanceMade(c)
    <2>1. PICK o \in {"failed", "ready"}, i \in Address :
            /\ manager' = [manager EXCEPT ![c] = IF o = "ready" THEN "connected" ELSE "allocated"]
            /\ instances[i] = "none"
            /\ lcb' = [lcb EXCEPT ![c] = i]
            /\ instances' = [instances EXCEPT ![i] = o]
        BY <1>2 DEF InstanceMade
    <2>2. \A d \in Conn \ {c} : (Open(d)' <=> Open(d)) /\ lcb'[d] = lcb[d]
        BY <2>1 DEF Open
    <2>3. ~Open(c) /\ (Open(c)' <=> o = "ready") /\ lcb'[c] = i
        BY <1>0, <2>1 DEF Open
    <2>4. \A d \in Conn : Open(d) => lcb[d] # i /\ lcb[d] \in Address
        BY <2>1 DEF Owned, OpenIsReady
    <2>5. OneOwner' BY <2>2, <2>3, <2>4 DEF Owned, OneOwner
    <2>6. instances'[i] = o /\ \A j \in Address \ {i} : instances'[j] = instances[j]
        BY <2>1
    <2>7. OpenIsReady' BY <2>2, <2>3, <2>4, <2>6 DEF Owned, OpenIsReady
    <2>8. ReadyIsOpen'
        <3> SUFFICES ASSUME NEW j \in Address, instances'[j] = "ready"
                     PROVE  \E d \in Conn : Open(d)' /\ lcb'[d] = j
            BY DEF ReadyIsOpen
        <3>1. CASE j = i BY <2>3, <2>6, <3>1
        <3>2. CASE j # i
            <4>1. PICK d \in Conn : Open(d) /\ lcb[d] = j
                BY <2>6, <3>2 DEF Owned, ReadyIsOpen
            <4> QED BY <2>2, <2>3, <4>1
        <3> QED BY <3>1, <3>2
    <2>9. HarmedIsOpen' BY <1>0, <2>1 DEF Owned, HarmedIsOpen
    <2> QED BY <2>5, <2>7, <2>8, <2>9 DEF Owned
<1> QED BY <1>1, <1>2

\* SQLDisconnect takes from a connection the instance its pointer shows to.
\* Only one that has broken a browse off can take another's.
LEMMA DisconnectOwned ==
    ASSUME Typed, Owned, NEW c \in Conn, Disconnect(c)
    PROVE  Typed' /\ Owned'
<1> USE DEF Typed, TypeOK
<1>1. /\ manager[c] \in {"connected", "need_data"}
      /\ manager' = [manager EXCEPT ![c] = "allocated"]
      /\ instances' = [i \in Address |-> IF i = lcb[c] THEN "none" ELSE instances[i]]
      /\ brokenOff' = (brokenOff \/ manager[c] = "need_data")
      /\ harmed' = (harmed \cup {d \in Conn : manager[d] = "connected" /\ lcb[d] = lcb[c]}) \ {c}
      /\ UNCHANGED <<cfg, lcb, loginSet, entity, twoPart, step, result, asked, log>>
    BY DEF Disconnect
<1>2. Typed'
    <2>1. instances' \in [Address -> InstanceState] BY <1>1 DEF InstanceState
    <2>2. brokenOff' \in BOOLEAN /\ harmed' \in SUBSET Conn BY <1>1
    <2> QED BY <1>1, <2>1, <2>2
<1>3. \A d \in Conn : Open(d)' <=> Open(d) /\ d # c /\ lcb[d] # lcb[c]
    BY <1>1 DEF Open
<1>4. OneOwner' BY <1>1, <1>3 DEF Owned, OneOwner
<1>5. OpenIsReady' BY <1>1, <1>3 DEF Owned, OpenIsReady
<1>6. ReadyIsOpen'
    <2> SUFFICES ASSUME NEW j \in Address, instances'[j] = "ready"
                 PROVE  \E d \in Conn : Open(d)' /\ lcb'[d] = j
        BY DEF ReadyIsOpen
    <2>1. j # lcb[c] /\ instances[j] = "ready" BY <1>1
    <2>2. PICK d \in Conn : Open(d) /\ lcb[d] = j BY <2>1 DEF Owned, ReadyIsOpen
    <2> QED BY <1>1, <1>3, <2>1, <2>2
<1>7. HarmedIsOpen'
    <2>1. \A d \in harmed' : manager'[d] = "connected"
        BY <1>1 DEF Owned, HarmedIsOpen
    <2>2. ASSUME NEW d \in harmed', ~brokenOff'
          PROVE  FALSE
        <3>1. harmed = {} /\ manager[c] = "connected"
            BY <1>1, <2>2 DEF Owned, HarmedIsOpen
        <3>2. d \in Conn /\ d # c /\ manager[d] = "connected" /\ lcb[d] = lcb[c]
            BY <1>1, <3>1
        <3>3. Open(c) /\ Open(d) BY <3>1, <3>2 DEF Open
        <3> QED BY <3>2, <3>3 DEF Owned, OneOwner
    <2> QED BY <2>1, <2>2 DEF HarmedIsOpen
<1> QED BY <1>2, <1>4, <1>5, <1>6, <1>7 DEF Owned

(***************************************************************************)
(* The steps of a browse.                                                  *)
(***************************************************************************)
LEMMA ConnectBrowse ==
    ASSUME Typed, BrowseInStep, NEW c \in Conn, manager[c] # "connected",
           NEW pieces, ConnectMade(c, pieces),
           NEW kept, result' = [result EXCEPT ![c] = IF Refused(pieces) THEN kept ELSE << >>],
           \/ kept = result[c]
           \/ step[c] = 2 /\ kept = pieces /\ Len(pieces) = Len(result[c]) + 1
    PROVE  BrowseInStep'
<1> USE DEF Typed, TypeOK
<1> SUFFICES ASSUME NEW d \in Conn
             PROVE  /\ step'[d] < 2 => Len(result'[d]) = step'[d]
                    /\ step'[d] = 2 => Len(result'[d]) >= 2
                    /\ Len(result'[d]) > 2 => Refused(result'[d])
                    /\ manager'[d] = "connected" => step'[d] = 0
    BY DEF BrowseInStep
<1>0. /\ step[d] < 2 => Len(result[d]) = step[d]
      /\ step[d] = 2 => Len(result[d]) >= 2
      /\ Len(result[d]) > 2 => Refused(result[d])
      /\ manager[d] = "connected" => step[d] = 0
      /\ step[d] \in 0 .. 2 /\ Len(result[d]) \in Nat
    BY DEF BrowseInStep
<1>1. CASE d # c
    <2>1. step'[d] = step[d] /\ result'[d] = result[d] /\ manager'[d] = manager[d]
        BY <1>1 DEF ConnectMade, InstanceKept, InstanceMade
    <2> QED BY <1>0, <2>1
<1>2. CASE d = c /\ Refused(pieces)
    <2>1. step'[d] = step[d] /\ result'[d] = kept /\ manager'[d] # "connected"
        BY <1>2 DEF ConnectMade
    <2>2. CASE kept = result[c]
        BY <1>0, <1>2, <2>1, <2>2
    <2>3. CASE kept # result[c]
        <3>1. step[c] = 2 /\ kept = pieces /\ Len(kept) = Len(result[c]) + 1
            BY <2>3
        <3> HIDE DEF Typed, TypeOK
        <3> QED BY <1>0, <1>2, <2>1, <3>1
    <2> QED BY <2>2, <2>3
<1>3. CASE d = c /\ ~Refused(pieces)
    <2>1. step'[d] = 0 /\ result'[d] = << >>
        BY <1>3 DEF ConnectMade
    <2> QED BY <2>1
<1> QED BY <1>1, <1>2, <1>3

LEMMA ConnectAsked ==
    ASSUME FieldsAsAsked, LoginKept, NEW c \in Conn, ConfigMade(c), loginSet' = loginSet
    PROVE  FieldsAsAsked' /\ LoginKept'
<1>1. ASSUME NEW d \in Conn
      PROVE  /\ AsAsked(cfg'[d], asked'[d], loginSet[d])
             /\ LoginIsKept(cfg'[d], asked'[d], loginSet[d])
    <2>1. CASE cfg'[d] = cfg[d] /\ asked'[d] = asked[d]
        BY <2>1 DEF FieldsAsAsked, AsAsked, LoginKept
    <2>2. CASE ~(cfg'[d] = cfg[d] /\ asked'[d] = asked[d])
        BY <2>2 DEF ConfigMade
    <2> QED BY <2>1, <2>2
<1> QED BY <1>1 DEF FieldsAsAsked, AsAsked, LoginKept

\* An attribute that is set is no longer what the last connect call asked for.
\* The one for the login timeout is remembered by the next.
LEMMA AttributeAsked ==
    ASSUME Typed, FieldsAsAsked, LoginKept, NEW c \in Conn, NEW g \in Field, NEW v,
           cfg' = [cfg EXCEPT ![c][g] = v],
           NEW a, asked' = [asked EXCEPT ![c] = a], a.changed = asked[c].changed \cup {g},
           a.cs = asked[c].cs, a.dsn = asked[c].dsn,
           \/ /\ g # "login_timeout" /\ loginSet' = loginSet
              /\ a.login = asked[c].login /\ a.set = asked[c].set
           \/ /\ g = "login_timeout" /\ loginSet' = [loginSet EXCEPT ![c] = TRUE]
              /\ a.login = v
    PROVE  FieldsAsAsked' /\ LoginKept'
<1>1. DOMAIN cfg[c] = Field /\ DOMAIN cfg = Conn /\ DOMAIN asked = Conn
    BY DEF Typed, TypeOK
<1>2. /\ \A d \in Conn \ {c} : cfg'[d] = cfg[d] /\ asked'[d] = asked[d] /\ loginSet'[d] = loginSet[d]
      /\ asked'[c] = a /\ cfg'[c] = [cfg[c] EXCEPT ![g] = v]
    BY <1>1 DEF Typed, TypeOK
<1>3. cfg'[c][g] = v /\ \A f \in Field \ {g} : cfg'[c][f] = cfg[c][f]
    BY <1>1, <1>2
<1>4. FieldsAsAsked'
    <2> SUFFICES ASSUME NEW d \in Conn, NEW f \in Field, f \notin asked'[d].changed
                 PROVE  \/ LeftAsItWas(f, asked'[d], loginSet'[d])
                        \/ CatalogReplaced(f, asked'[d])
                        \/ cfg'[d][f] = Expected(f, asked'[d])
        BY DEF FieldsAsAsked
    <2>1. CASE d # c
        BY <1>2, <2>1 DEF FieldsAsAsked
    <2>2. CASE d = c
        <3>1. f # g /\ f \notin asked[c].changed
            BY <1>2, <2>2
        <3>2. cfg'[c][f] = cfg[c][f] BY <1>3, <3>1
        <3>3. /\ Given(f, a) = Given(f, asked[c]) /\ UrlOf(a) = UrlOf(asked[c])
              /\ Given("collect_logs", a) = Given("collect_logs", asked[c])
              /\ Given("timeout", a) = Given("timeout", asked[c])
              /\ Named(f, a) <=> Named(f, asked[c])
            BY DEF Given, UrlOf, Named
        <3>4. CASE g # "login_timeout"
            <4>1. Expected(f, a) = Expected(f, asked[c])
                BY <3>3, <3>4 DEF Expected
            <4>2. CatalogReplaced(f, asked[c]) => CatalogReplaced(f, a)
                BY <3>3 DEF CatalogReplaced
            <4>3. LeftAsItWas(f, asked[c], loginSet[c]) => LeftAsItWas(f, a, loginSet'[c])
                BY <3>3, <3>4 DEF LeftAsItWas
            <4> QED BY <1>2, <2>2, <3>1, <3>2, <4>1, <4>2, <4>3 DEF FieldsAsAsked
        <3>5. CASE g = "login_timeout"
            <4>1. Expected(f, a) = Expected(f, asked[c])
                BY <3>1, <3>3, <3>5 DEF Expected
            <4>2. CatalogReplaced(f, asked[c]) => CatalogReplaced(f, a)
                BY <3>3 DEF CatalogReplaced
            <4>3. LeftAsItWas(f, asked[c], loginSet[c]) => LeftAsItWas(f, a, loginSet'[c])
                BY <3>1, <3>3, <3>5 DEF LeftAsItWas
            <4> QED BY <1>2, <2>2, <3>1, <3>2, <4>1, <4>2, <4>3 DEF FieldsAsAsked
        <3> QED BY <3>4, <3>5
    <2> QED BY <2>1, <2>2
<1>5. LoginKept'
    <2> SUFFICES ASSUME NEW d \in Conn, asked'[d].set
                 PROVE  loginSet'[d] /\ cfg'[d]["login_timeout"] = asked'[d].login
        BY DEF LoginKept, LoginIsKept
    <2>1. CASE d # c
        BY <1>2, <2>1 DEF LoginKept, LoginIsKept
    <2>2. CASE d = c /\ g # "login_timeout"
        <3>1. "login_timeout" \in Field BY KeysOfFields
        <3> QED BY <1>2, <1>3, <2>2, <3>1 DEF LoginKept, LoginIsKept
    <2>3. CASE d = c /\ g = "login_timeout"
        <3>1. loginSet'[c] BY <2>3 DEF Typed, TypeOK
        <3> QED BY <1>2, <1>3, <2>3, <3>1
    <2> QED BY <2>1, <2>2, <2>3
<1> QED BY <1>4, <1>5

\* A handle that is made or released has nothing of the last connection.
LEMMA BlankInv ==
    ASSUME IInv, NEW c \in Conn, manager[c] # "connected",
           NEW i \in Address \cup {NoInst}, Blank(c, i),
           NEW m \in {"free", "allocated"}, manager' = [manager EXCEPT ![c] = m],
           NEW g, cfg' = [cfg EXCEPT ![c] = FreshConfig(g)],
           NEW b \in BOOLEAN, loginSet' = [loginSet EXCEPT ![c] = b],
           UNCHANGED <<instVars, log>>
    PROVE  IInv'
<1>1. Typed'
    <2>1. DOMAIN FreshConfig(g) = Field BY DEF FreshConfig
    <2>2. Record(NotAsked) BY DEF NotAsked, Record
    <2>3. << >> \in Seq(Piece) OBVIOUS
    <2> QED BY <2>1, <2>2, <2>3 DEF IInv, Typed, TypeOK, Blank, instVars
<1>2. Owned'
    BY ForgottenOwned DEF IInv, Blank
<1>3. BrowseInStep'
    BY DEF IInv, Typed, TypeOK, BrowseInStep, Blank
<1>4. GoodLog(log') BY DEF IInv
<1>5. asked'[c].changed = Field /\ ~asked'[c].set
    BY DEF Blank, NotAsked, IInv, Typed
<1>6. \A d \in Conn \ {c} : cfg'[d] = cfg[d] /\ asked'[d] = asked[d] /\ loginSet'[d] = loginSet[d]
    BY DEF Blank, IInv, Typed, TypeOK
<1>7. FieldsAsAsked'
    BY <1>5, <1>6 DEF IInv, FieldsAsAsked
<1>8. LoginKept'
    BY <1>5, <1>6 DEF IInv, LoginKept, LoginIsKept
<1> QED BY <1>1, <1>2, <1>3, <1>4, <1>7, <1>8 DEF IInv

LEMMA ConnectInv ==
    ASSUME IInv, NEW c \in Conn, manager[c] # "connected",
           NEW pieces, WellNamed(pieces), NEW opens \in BOOLEAN, Connect(c, pieces, opens),
           NEW kept \in Seq(Piece),
           result' = [result EXCEPT ![c] = IF Refused(pieces) THEN kept ELSE << >>],
           \/ kept = result[c]
           \/ step[c] = 2 /\ kept = pieces /\ Len(pieces) = Len(result[c]) + 1,
           UNCHANGED <<loginSet, brokenOff, harmed>>
    PROVE  IInv'
<1>1. ConnectMade(c, pieces) BY ConnectMakes DEF IInv
<1>2. result' \in [Conn -> Seq(Piece)] BY DEF IInv, Typed, TypeOK
<1>3. Typed' BY <1>1, <1>2, ConnectTyped DEF IInv
<1>4. Owned' BY <1>1, ConnectOwned DEF IInv, ConnectMade
<1>5. BrowseInStep' BY <1>1, ConnectBrowse DEF IInv
<1>6. FieldsAsAsked' /\ LoginKept' BY <1>1, ConnectAsked DEF IInv, ConnectMade
<1> QED BY <1>1, <1>3, <1>4, <1>5, <1>6 DEF IInv, ConnectMade

LEMMA AttributeInv ==
    ASSUME IInv, NEW c \in Conn, NEW g \in Field, NEW v,
           cfg' = [cfg EXCEPT ![c][g] = v],
           NEW a, asked' = [asked EXCEPT ![c] = a], Record(a),
           FieldsAsAsked', LoginKept',
           loginSet' \in [Conn -> BOOLEAN],
           UNCHANGED <<manager, lcb, entity, twoPart, step, result, instVars, log>>
    PROVE  IInv'
<1>1. Typed'
    <2>1. \A d \in Conn : DOMAIN cfg'[d] = Field BY DEF IInv, Typed, TypeOK
    <2>2. \A d \in Conn : Record(asked'[d]) BY DEF IInv, Typed
    <2> QED BY <2>1, <2>2 DEF IInv, Typed, TypeOK, instVars
<1>2. Owned'
    BY DEF IInv, Owned, OneOwner, OpenIsReady, ReadyIsOpen, HarmedIsOpen, Open, instVars
<1>3. BrowseInStep' BY DEF IInv, BrowseInStep
<1> QED BY <1>1, <1>2, <1>3 DEF IInv

LEMMA BrowseMoreInv ==
    ASSUME IInv, NEW c \in Conn, NEW p \in Piece, BrowseMore(c, p)
    PROVE  IInv'
<1>1. /\ manager[c] # "connected" /\ manager' = [manager EXCEPT ![c] = "need_data"]
      /\ step[c] \in {0, 1} /\ step' = [step EXCEPT ![c] = step[c] + 1]
      /\ result' = [result EXCEPT ![c] = Append(result[c], p)]
      /\ UNCHANGED <<cfg, lcb, loginSet, entity, twoPart, asked, instVars, log>>
    BY DEF BrowseMore, IInv, Typed, TypeOK
<1>2. /\ Append(result[c], p) \in Seq(Piece)
      /\ Len(Append(result[c], p)) = Len(result[c]) + 1
    BY DEF IInv, Typed, TypeOK
<1>3. Typed' BY <1>1, <1>2 DEF IInv, Typed, TypeOK, instVars
<1>4. Owned'
    <2>1. lcb' = [lcb EXCEPT ![c] = lcb[c]] BY <1>1 DEF IInv, Typed, TypeOK
    <2> QED BY <1>1, <2>1, ForgottenOwned DEF IInv
<1>5. BrowseInStep'
    <2> SUFFICES ASSUME NEW d \in Conn
                 PROVE  /\ step'[d] < 2 => Len(result'[d]) = step'[d]
                        /\ step'[d] = 2 => Len(result'[d]) >= 2
                        /\ Len(result'[d]) > 2 => Refused(result'[d])
                        /\ manager'[d] = "connected" => step'[d] = 0
        BY DEF BrowseInStep
    <2>1. CASE d = c
        <3>1. Len(result[c]) = step[c]
            BY <1>1 DEF IInv, BrowseInStep
        <3>2. /\ step'[c] = step[c] + 1 /\ Len(result'[c]) = step[c] + 1
              /\ manager'[c] = "need_data"
            BY <1>1, <1>2, <3>1 DEF IInv, Typed, TypeOK
        <3> QED BY <1>1, <2>1, <3>2
    <2>2. CASE d # c
        <3>1. step'[d] = step[d] /\ result'[d] = result[d] /\ manager'[d] = manager[d]
            BY <1>1, <2>2 DEF IInv, Typed, TypeOK
        <3> QED BY <3>1 DEF IInv, BrowseInStep
    <2> QED BY <2>1, <2>2
<1>6. FieldsAsAsked' /\ LoginKept' BY <1>1 DEF IInv, FieldsAsAsked, LoginKept
<1> QED BY <1>1, <1>3, <1>4, <1>5, <1>6 DEF IInv

LEMMA LogInv ==
    ASSUME IInv, GoodLog(log'), UNCHANGED <<connVars, instVars>>
    PROVE  IInv'
<1>1. Typed' BY DEF IInv, Typed, TypeOK, connVars, instVars, GoodLog
<1>2. Owned'
    BY DEF IInv, Owned, OneOwner, OpenIsReady, ReadyIsOpen, HarmedIsOpen, Open, connVars, instVars
<1>3. BrowseInStep' BY DEF IInv, BrowseInStep, connVars
<1>4. FieldsAsAsked' /\ LoginKept' BY DEF IInv, FieldsAsAsked, LoginKept, connVars
<1> QED BY <1>1, <1>2, <1>3, <1>4 DEF IInv

(***************************************************************************)
(* The string libcouchbase connects with.                                  *)
(***************************************************************************)
Marks(s) == {i \in DOMAIN s.params : s.params[i][1] = "?"}

ParamName == {"truststorepath", "certpath", "keypath", "sasl_mech_force",
              "advanced_params", "console_log_level", "console_log_file"}

\* The parameters follow one question mark, which the URL may have brought.
Parsable(s, hasQuery) ==
    /\ {"params", "hasQuery"} \subseteq DOMAIN s
    /\ s.params \in Seq({"?", "&"} \X ParamName)
    /\ s.hasQuery <=> hasQuery \/ s.params # << >>
    /\ Marks(s) = IF s.params = << >> \/ hasQuery THEN {} ELSE {1}

\* What is joined is one parameter at least.
ParamList(params) == params \in Seq(ParamName) /\ params # << >>

LEMMA JoinedParsable ==
    ASSUME NEW s, NEW q, Parsable(s, q), NEW cond, NEW params, ParamList(params)
    PROVE  Parsable(Joined(s, cond, params), q)
<1> DEFINE mark(i) == IF i = 1 /\ ~s.hasQuery THEN "?" ELSE "&"
           more == [i \in DOMAIN params |-> <<mark(i), params[i]>>]
           j == Joined(s, cond, params)
<1>1. CASE ~cond
    BY <1>1 DEF Joined
<1>2. CASE cond
    <2>1. /\ more \in Seq({"?", "&"} \X ParamName) /\ Len(more) = Len(params)
          /\ Len(params) \in Nat \ {0}
          /\ \A i \in 1 .. Len(more) : more[i][1] = mark(i)
        BY DEF ParamList
    <2>2. j = [s EXCEPT !.params = s.params \o more, !.hasQuery = TRUE]
        BY <1>2 DEF Joined
    <2> HIDE DEF more, j
    <2>3. j.params = s.params \o more /\ j.hasQuery = TRUE /\ DOMAIN j = DOMAIN s
        BY <2>2 DEF Parsable
    <2>4. /\ j.params \in Seq({"?", "&"} \X ParamName) /\ Len(j.params) = Len(s.params) + Len(more)
          /\ Len(s.params) \in Nat
          /\ \A i \in 1 .. Len(s.params) : j.params[i] = s.params[i]
          /\ \A i \in 1 .. Len(more) : j.params[Len(s.params) + i] = more[i]
        <3> DEFINE Param == {"?", "&"} \X ParamName
        <3> HIDE DEF Param
        <3>1. s.params \in Seq(Param) /\ more \in Seq(Param)
            BY <2>1 DEF Parsable, Param
        <3>2. s.params \o more \in Seq(Param) BY <3>1
        <3>3. Len(s.params \o more) = Len(s.params) + Len(more) BY <3>1
        <3>4. \A i \in 1 .. Len(s.params) : (s.params \o more)[i] = s.params[i] BY <3>1
        <3>5. \A i \in 1 .. Len(more) : (s.params \o more)[Len(s.params) + i] = more[i] BY <3>1
        <3>6. Len(s.params) \in Nat BY <3>1
        <3> QED BY <2>3, <3>2, <3>3, <3>4, <3>5, <3>6 DEF Param
    <2>5. DOMAIN j.params = 1 .. Len(s.params) + Len(more) /\ j.params # << >>
        <3>1. DOMAIN j.params = 1 .. Len(j.params) BY <2>4
        <3> QED BY <2>1, <2>4, <3>1
    <2>6. ASSUME s.params # << >>
          PROVE  Parsable(j, q)
        <3>1. s.hasQuery BY <2>6 DEF Parsable
        <3>2. \A i \in 1 .. Len(more) : more[i][1] = "&" BY <2>1, <3>1 DEF mark
        <3>3. Marks(j) = Marks(s)
            <4>1. ASSUME NEW i \in DOMAIN j.params, i > Len(s.params)
                  PROVE  j.params[i][1] = "&"
                <5> DEFINE n == i - Len(s.params)
                <5>1. n \in 1 .. Len(more) /\ i = Len(s.params) + n
                    BY <2>1, <2>4, <2>5, <4>1
                <5> HIDE DEF n
                <5>2. j.params[i] = more[n] BY <2>4, <5>1
                <5> QED BY <3>2, <5>1, <5>2
            <4>2. DOMAIN s.params = 1 .. Len(s.params) BY DEF Parsable
            <4>3. ASSUME NEW i \in DOMAIN j.params, i <= Len(s.params)
                  PROVE  i \in DOMAIN s.params /\ j.params[i] = s.params[i]
                BY <2>1, <2>4, <2>5, <4>2, <4>3
            <4>4. DOMAIN s.params \subseteq DOMAIN j.params
                BY <2>1, <2>4, <2>5, <4>2
            <4>5. \A i \in DOMAIN s.params : i <= Len(s.params) BY <2>4, <4>2
            <4>6. \A i \in DOMAIN j.params : i <= Len(s.params) \/ i > Len(s.params)
                BY <2>1, <2>4, <2>5
            <4>7. ASSUME NEW i
                  PROVE  i \in Marks(j) <=> i \in Marks(s)
                <5>1. CASE i \in Marks(j)
                    <6>1. i \in DOMAIN j.params /\ j.params[i][1] = "?" BY <5>1 DEF Marks
                    <6>2. i <= Len(s.params) BY <4>1, <4>6, <6>1
                    <6> QED BY <4>3, <6>1, <6>2 DEF Marks
                <5>2. CASE i \in Marks(s)
                    <6>1. i \in DOMAIN s.params /\ s.params[i][1] = "?" BY <5>2 DEF Marks
                    <6> QED BY <4>3, <4>4, <4>5, <6>1 DEF Marks
                <5> QED BY <5>1, <5>2
            <4> QED BY <4>7
        <3>4. j.hasQuery <=> q \/ j.params # << >> BY <2>3, <2>5
        <3>5. Marks(s) = IF s.params = << >> \/ q THEN {} ELSE {1} BY DEF Parsable
        <3>6. Marks(j) = IF j.params = << >> \/ q THEN {} ELSE {1}
            BY <2>5, <2>6, <3>3, <3>5
        <3>7. {"params", "hasQuery"} \subseteq DOMAIN j BY <2>3 DEF Parsable
        <3> QED BY <2>4, <3>4, <3>6, <3>7, Zenon DEF Parsable
    <2>7. ASSUME s.params = << >>
          PROVE  Parsable(j, q)
        <3>1. /\ Len(s.params) = 0 /\ Len(j.params) = Len(more)
              /\ \A i \in 1 .. Len(more) : j.params[i] = more[i]
            BY <2>1, <2>4, <2>7
        <3>2. s.hasQuery <=> q BY <2>7 DEF Parsable
        <3>3. Marks(j) = {i \in 1 .. Len(more) : mark(i) = "?"}
            BY <2>1, <2>5, <3>1 DEF Marks
        <3>4. Marks(j) = IF q THEN {} ELSE {1}
            BY <2>1, <3>2, <3>3 DEF mark
        <3>5. j.hasQuery <=> q \/ j.params # << >> BY <2>3, <2>5
        <3>6. Marks(j) = IF j.params = << >> \/ q THEN {} ELSE {1} BY <2>5, <3>4
        <3>7. {"params", "hasQuery"} \subseteq DOMAIN j BY <2>3 DEF Parsable
        <3> QED BY <2>4, <3>5, <3>6, <3>7, Zenon DEF Parsable
    <2>8. Parsable(j, q) BY <2>6, <2>7
    <2> QED BY <2>8 DEF j
<1> QED BY <1>1, <1>2

\* One question mark at most, for any configuration.
LEMMA ConnStrParsable ==
    ASSUME NEW k
    PROVE  Parsable(ConnStr(k), k["connect_to_capella"] /\ UrlHasQuery(k["url"]))
<1> DEFINE q     == k["connect_to_capella"] /\ UrlHasQuery(k["url"])
           tls   == IsYes(k["sslmode"])
           base  == IF k["connect_to_capella"]
                    THEN [ scheme |-> "url", host |-> k["url"], params |-> << >>,
                           hasQuery |-> UrlHasQuery(k["url"]) ]
                    ELSE [ scheme |-> IF tls THEN "couchbases" ELSE "couchbase",
                           host |-> k["server"], hasQuery |-> FALSE, params |-> << >> ]
           trust == Joined(base, tls /\ k["certificate_file"] # "", <<"truststorepath">>)
           cert  == Joined(trust, tls /\ k["auth_mode"] = "certificate", <<"certpath", "keypath">>)
           ldap  == Joined(cert, k["auth_mode"] = "ldap", <<"sasl_mech_force">>)
           adv   == Joined(ldap, k["advanced_params"] # "", <<"advanced_params">>)
<1>1. Parsable(base, q)
    <2>1. CASE k["connect_to_capella"]
        BY <2>1 DEF Parsable, Marks
    <2>2. CASE ~k["connect_to_capella"]
        BY <2>2 DEF Parsable, Marks
    <2> QED BY <2>1, <2>2
<1>2. /\ ParamList(<<"truststorepath">>) /\ ParamList(<<"certpath", "keypath">>)
      /\ ParamList(<<"sasl_mech_force">>) /\ ParamList(<<"advanced_params">>)
      /\ ParamList(<<"console_log_level", "console_log_file">>)
    BY DEF ParamList, ParamName
<1> HIDE DEF base, q
<1>3. Parsable(trust, q) BY <1>1, <1>2, JoinedParsable
<1> HIDE DEF trust
<1>4. Parsable(cert, q) BY <1>2, <1>3, JoinedParsable
<1> HIDE DEF cert
<1>5. Parsable(ldap, q) BY <1>2, <1>4, JoinedParsable
<1> HIDE DEF ldap
<1>6. Parsable(adv, q) BY <1>2, <1>5, JoinedParsable
<1> HIDE DEF adv
<1> DEFINE whole == IF k["connect_to_capella"] THEN base ELSE adv
<1>7. Parsable(whole, q) BY <1>1, <1>6
<1> HIDE DEF whole
<1>8. Parsable(Joined(whole, k["collect_logs"] /\ k["log_file"] # "",
                      <<"console_log_level", "console_log_file">>), q)
    BY <1>2, <1>7, JoinedParsable
<1> QED BY <1>8, Zenon DEF ConnStr, whole, base, trust, cert, ldap, adv, q

(***************************************************************************)
(* The invariant holds at first and after every call.                      *)
(***************************************************************************)
LEMMA InitInv == Init => IInv
<1> SUFFICES ASSUME Init PROVE IInv
    OBVIOUS
<1> USE DEF Init
<1>1. GoodLog(log) BY InitialLogGood
<1>2. Typed
    <2>1. DOMAIN FreshConfig(0) = Field BY DEF FreshConfig
    <2>2. Record(NotAsked) BY DEF NotAsked, Record
    <2>3. log \in LogType BY <1>1 DEF GoodLog
    <2>4. \A c \in Conn : DOMAIN cfg[c] = Field /\ Record(asked[c])
        BY <2>1, <2>2
    <2>5. /\ manager \in [Conn -> {"free", "allocated", "need_data", "connected"}]
          /\ instances \in [Address -> InstanceState]
          /\ lcb \in [Conn -> Address \cup {NoInst}]
        BY DEF InstanceState
    <2>6. /\ loginSet \in [Conn -> BOOLEAN] /\ entity \in [Conn -> BOOLEAN]
          /\ twoPart \in [Conn -> BOOLEAN] /\ step \in [Conn -> 0 .. 2]
          /\ result \in [Conn -> Seq(Piece)] 
          /\ brokenOff \in BOOLEAN /\ harmed \in SUBSET Conn
        <3>1. << >> \in Seq(Piece) OBVIOUS
        <3>2. result \in [Conn -> Seq(Piece)] BY <3>1
        <3>3. step \in [Conn -> 0 .. 2] OBVIOUS
        <3>4. loginSet \in [Conn -> BOOLEAN] OBVIOUS
        <3> QED BY <3>2, <3>3, <3>4
    <2> QED BY <2>3, <2>4, <2>5, <2>6 DEF Typed, TypeOK
<1>3. Owned BY DEF Owned, OneOwner, OpenIsReady, ReadyIsOpen, HarmedIsOpen, Open
<1>4. BrowseInStep BY DEF BrowseInStep
<1>5. FieldsAsAsked /\ LoginKept
    <2>1. \A c \in Conn : asked[c].changed = Field /\ ~asked[c].set BY DEF NotAsked
    <2> HIDE DEF Init
    <2> QED BY <2>1 DEF FieldsAsAsked, LoginKept, LoginIsKept
<1> QED BY <1>1, <1>2, <1>3, <1>4, <1>5 DEF IInv

LEMMA StepInv == IInv /\ [Next]_vars => IInv'
<1> SUFFICES ASSUME IInv, [Next]_vars PROVE IInv'
    OBVIOUS
<1>1. CASE UNCHANGED vars
    <2>1. log' = log /\ UNCHANGED <<connVars, instVars>>
        BY <1>1 DEF vars
    <2> QED BY <2>1, LogInv DEF IInv
<1>2. Opens \subseteq BOOLEAN /\ Handles \subseteq Conn /\ Pieces \subseteq Piece
    BY DEF Opens, Handles, Pieces
<1>3. ASSUME NEW c \in Conn, Allocate(c) PROVE IInv'
    <2>1. PICK g \in Timeouts, b \in BOOLEAN :
            cfg' = [cfg EXCEPT ![c] = FreshConfig(g)] /\ loginSet' = [loginSet EXCEPT ![c] = b]
        BY <1>3 DEF Allocate
    <2>2. /\ manager[c] # "connected" /\ manager' = [manager EXCEPT ![c] = "allocated"]
          /\ UNCHANGED <<instVars, log>>
        BY <1>3 DEF Allocate
    <2>3. PICK i \in Address \cup {NoInst} : Blank(c, i) BY <1>3 DEF Allocate
    <2> QED BY <2>1, <2>2, <2>3, BlankInv
<1>4. ASSUME NEW c \in Conn, Free(c) PROVE IInv'
    BY <1>4, BlankInv DEF Free
<1>5. ASSUME NEW c \in Conn, Disconnect(c) PROVE IInv'
    <2>1. Typed' /\ Owned' BY <1>5, DisconnectOwned DEF IInv
    <2>2. /\ manager' = [manager EXCEPT ![c] = "allocated"]
          /\ UNCHANGED <<cfg, step, result, asked, log, loginSet>>
        BY <1>5 DEF Disconnect
    <2>3. BrowseInStep' BY <2>2 DEF IInv, Typed, TypeOK, BrowseInStep
    <2>4. FieldsAsAsked' /\ LoginKept' BY <2>2 DEF IInv, FieldsAsAsked, LoginKept
    <2> QED BY <2>1, <2>2, <2>3, <2>4 DEF IInv
<1>6. ASSUME NEW c \in Conn, NEW opens \in Opens, NEW n, NEW u, SQLConnect(c, n, u, opens)
      PROVE  IInv'
    <2> DEFINE piece == [k \in {"DSN", "UID"} |-> IF k = "DSN" THEN n ELSE u]
    <2>1. WellNamed(<<piece>>)
        <3>1. NamesLogFile(piece) BY DEF NamesLogFile
        <3> HIDE DEF piece
        <3> QED BY <3>1 DEF WellNamed
    <2>2. /\ manager[c] = "allocated" /\ Connect(c, <<piece>>, opens)
          /\ BrowseAfter(c, result[c], <<piece>>) /\ UNCHANGED <<loginSet, brokenOff, harmed>>
        BY <1>6 DEF SQLConnect
    <2>3. result[c] \in Seq(Piece) BY DEF IInv, Typed, TypeOK
    <2> HIDE DEF piece
    <2> QED BY <1>2, <2>1, <2>2, <2>3, ConnectInv DEF BrowseAfter
<1>7. ASSUME NEW c \in Conn, NEW opens \in Opens, NEW s \in ConnString,
             SQLDriverConnect(c, s, opens)
      PROVE  IInv'
    <2>1. WellNamed(s) BY FieldsAssumption DEF WellNamed
    <2>2. result[c] \in Seq(Piece) BY DEF IInv, Typed, TypeOK
    <2> QED BY <1>2, <1>7, <2>1, <2>2, ConnectInv DEF SQLDriverConnect, BrowseAfter
<1>8. ASSUME NEW c \in Conn, NEW opens \in Opens, NEW p \in Piece, BrowseLast(c, p, opens)
      PROVE  IInv'
    <2> DEFINE pieces == Append(result[c], p)
    <2>1. pieces \in Seq(Piece) /\ Len(pieces) = Len(result[c]) + 1
        BY DEF IInv, Typed, TypeOK
    <2>2. WellNamed(pieces)
        <3> HIDE DEF pieces
        <3> QED BY <2>1, FieldsAssumption DEF WellNamed
    <2>3. /\ manager[c] # "connected" /\ step[c] = 2 /\ Connect(c, pieces, opens)
          /\ BrowseAfter(c, pieces, pieces) /\ UNCHANGED <<loginSet, brokenOff, harmed>>
        BY <1>8 DEF BrowseLast
    <2> HIDE DEF pieces
    <2> QED BY <1>2, <2>1, <2>2, <2>3, ConnectInv DEF BrowseAfter
<1>9. ASSUME NEW c \in Conn, NEW t, SetLoginTimeout(c, t) PROVE IInv'
    <2> DEFINE a == [asked[c] EXCEPT !.changed = asked[c].changed \cup {"login_timeout"},
                                     !.set = TRUE, !.login = t]
    <2>1. loginSet' \in [Conn -> BOOLEAN] BY <1>9 DEF SetLoginTimeout, IInv, Typed, TypeOK
    <2>2. /\ cfg' = [cfg EXCEPT ![c]["login_timeout"] = t]
          /\ loginSet' = [loginSet EXCEPT ![c] = TRUE]
          /\ UNCHANGED <<manager, lcb, entity, twoPart, step, result, instVars, log>>
        BY <1>9, Zenon DEF SetLoginTimeout
    <2>6. asked' = [asked EXCEPT ![c] = a]
        <3>1. c \in DOMAIN asked BY DEF IInv, Typed
        <3>2. asked' = [asked EXCEPT ![c] =
                [asked[c] EXCEPT !.changed = asked[c].changed \cup {"login_timeout"},
                                 !.set = TRUE, !.login = t]]
            BY <1>9, Zenon DEF SetLoginTimeout
        <3> QED BY <3>1, <3>2
    <2>3. /\ Record(a) /\ a.changed = asked[c].changed \cup {"login_timeout"}
          /\ a.cs = asked[c].cs /\ a.dsn = asked[c].dsn /\ a.login = t
        BY DEF IInv, Typed, Record
    <2>4. "login_timeout" \in Field BY KeysOfFields
    <2> HIDE DEF a
    <2>5. FieldsAsAsked' /\ LoginKept'
        BY <2>2, <2>3, <2>4, <2>6, AttributeAsked DEF IInv
    <2> QED BY <2>1, <2>2, <2>3, <2>4, <2>5, <2>6, AttributeInv
<1>16. ASSUME NEW c \in Conn, NEW g \in Field, g # "login_timeout", NEW v,
              cfg' = [cfg EXCEPT ![c][g] = v],
              asked' = [asked EXCEPT ![c].changed = @ \cup {g}],
              UNCHANGED <<manager, lcb, loginSet, entity, twoPart, step, result, instVars, log>>
       PROVE  IInv'
    <2> DEFINE a == [asked[c] EXCEPT !.changed = @ \cup {g}]
    <2>1. loginSet' \in [Conn -> BOOLEAN] BY <1>16 DEF IInv, Typed, TypeOK
    <2>2. asked' = [asked EXCEPT ![c] = a] BY <1>16 DEF IInv, Typed
    <2>3. /\ Record(a) /\ a.changed = asked[c].changed \cup {g}
          /\ a.cs = asked[c].cs /\ a.dsn = asked[c].dsn
          /\ a.login = asked[c].login /\ a.set = asked[c].set
        BY DEF IInv, Typed, Record
    <2> HIDE DEF a
    <2>4. FieldsAsAsked' /\ LoginKept' BY <1>16, <2>2, <2>3, AttributeAsked DEF IInv
    <2> QED BY <1>16, <2>1, <2>2, <2>3, <2>4, AttributeInv
<1>10. ASSUME NEW c \in Conn, SetConnectionTimeout(c) PROVE IInv'
    BY <1>10, <1>16, KeysOfFields DEF SetConnectionTimeout
<1>11. ASSUME NEW c \in Conn, NEW name, SetCurrentCatalog(c, name) PROVE IInv'
    BY <1>11, <1>16, KeysOfFields DEF SetCurrentCatalog
<1>12. ASSUME NEW c \in Conn, NEW on \in BOOLEAN, NEW opens \in Opens,
              SetDriverLog(c, on, opens)
       PROVE  IInv'
    <2>1. NoFile \in LogFile \cup {NoFile} OBVIOUS
    <2>2. GoodLog(log') BY <1>2, <1>12, <2>1, SetLogGood DEF SetDriverLog, IInv
    <2> QED BY <1>12, <2>2, LogInv DEF SetDriverLog
<1>13. ASSUME NEW c \in Conn, NEW f \in LogFile \cup {NoFile}, NEW opens \in Opens,
              SetDriverLogFile(c, f, opens)
       PROVE  IInv'
    <2>1. GoodLog(log') BY <1>2, <1>13, SetLogGood DEF SetDriverLogFile, IInv
    <2> QED BY <1>13, <2>1, LogInv DEF SetDriverLogFile
<1>14. ASSUME WriteLog PROVE IInv'
    <2>1. GoodLog(log') BY <1>14, MessageGood DEF WriteLog, IInv
    <2> QED BY <1>14, <2>1, LogInv DEF WriteLog
<1>15. CASE Next
    BY <1>2, <1>3, <1>4, <1>5, <1>6, <1>7, <1>8, <1>9, <1>10, <1>11, <1>12, <1>13, <1>14, <1>15,
       BrowseMoreInv DEF Next
<1> QED BY <1>1, <1>15

\* The inductive invariant of a connection: the types, who owns an instance,
\* the steps of a browse, the log and the fields of the configuration.
THEOREM InvariantHolds == Spec => []IInv
BY InitInv, StepInv, PTL DEF Spec

\* Every variable keeps its type, whatever strings the driver is given.
THEOREM TypeCorrect == Spec => []TypeOK
<1>1. IInv => TypeOK BY DEF IInv, Typed
<1> QED BY <1>1, InvariantHolds, PTL

\* A connection that is open has a ready instance of its own, and no ready
\* instance is left without one, however connects fail and addresses are used
\* again; only a SQLDisconnect that breaks a browse off destroys another's.
THEOREM InstancesAreOwned == Spec => []InstancesOwned
<1>1. IInv => InstancesOwned
    <2> SUFFICES ASSUME IInv PROVE InstancesOwned
        OBVIOUS
    <2>1. \A c \in Conn : manager[c] = "connected" /\ c \notin harmed =>
             lcb[c] # NoInst /\ instances[lcb[c]] = "ready"
        BY ConnAssumption DEF IInv, Owned, OpenIsReady, Open
    <2>2. harmed # {} => brokenOff BY DEF IInv, Owned, HarmedIsOpen
    <2>3. ASSUME NEW i \in Address, instances[i] = "ready"
          PROVE  Cardinality({c \in Conn : manager[c] = "connected" /\ c \notin harmed /\ lcb[c] = i}) = 1
        <3>1. PICK c \in Conn : Open(c) /\ lcb[c] = i
            BY <2>3 DEF IInv, Owned, ReadyIsOpen
        <3>2. {d \in Conn : manager[d] = "connected" /\ d \notin harmed /\ lcb[d] = i} = {c}
            BY <3>1 DEF IInv, Owned, OneOwner, Open
        <3> QED BY <3>2, FS_Singleton
    <2> QED BY <2>1, <2>2, <2>3 DEF InstancesOwned
<1> QED BY <1>1, InvariantHolds, PTL

\* SQLBrowseConnect's step counter and the attributes it has collected agree,
\* and an open connection has neither.
THEOREM BrowseIsInStep == Spec => []BrowseInStep
<1>1. IInv => BrowseInStep BY DEF IInv
<1> QED BY <1>1, InvariantHolds, PTL

\* Each log file has its session headers and footers in pairs, the log goes
\* where its attribute says and loses nothing.
THEOREM LogIsInStep == Spec => []LogInStep
<1>1. IInv => LogInStep
    BY DEF IInv, GoodLog, SessionsPaired, LogInStep, LogSessionsPaired, LogFollowsAttribute
<1> QED BY <1>1, InvariantHolds, PTL

\* The configuration is the one the last connect call asked for, by precedence
\* of its strings, its URL and the defaults, but for the fields a call leaves
\* as they were and a catalog the URL replaces; and libcouchbase can parse the
\* string made from it, whatever the handle was configured with before.
THEOREM ConfigIsAsAsked == Spec => []ConfigAsAsked
<1>1. OneQuestionMark
    BY ConnStrParsable DEF OneQuestionMark, Parsable, Marks
<1>2. IInv => ConfigAsAsked BY <1>1 DEF IInv, ConfigAsAsked
<1> QED BY <1>2, InvariantHolds, PTL

(***************************************************************************)
(* Connection strings and lists of table types, character by character.    *)
(***************************************************************************)
\* A set of numbers that is not empty has a least one.
LEMMA LeastNumber ==
    ASSUME NEW S \in SUBSET Nat, S # {}
    PROVE  \E n \in S : \A m \in S : n <= m
  BY LeastOf

\* What holds at 0, and one number further whenever it holds, holds all the way.
LEMMA Onward ==
    ASSUME NEW n \in Nat, NEW S, 0 \in S, \A i \in 0 .. n : i \in S /\ i < n => i + 1 \in S
    PROVE  \A i \in 0 .. n : i \in S
  <1> DEFINE Bad == {i \in 0 .. n : i \notin S}
  <1>1. ASSUME Bad # {}
        PROVE  FALSE
    <2>1. PICK k \in Bad : \A j \in Bad : k <= j
      <3>1. Bad \in SUBSET Nat
        OBVIOUS
      <3> HIDE DEF Bad
      <3> QED
        BY <1>1, <3>1, LeastNumber
    <2>2. k \in 0 .. n /\ k \notin S /\ k # 0
      OBVIOUS
    <2>3. k - 1 \in 0 .. n /\ ~(k <= k - 1) /\ k - 1 < n /\ (k - 1) + 1 = k
      BY <2>2
    <2>4. k - 1 \in S
      BY <2>1, <2>3
    <2> QED
      BY <2>2, <2>3, <2>4
  <1> QED
    BY <1>1

Laid(g, s, n) == g = [i \in 1..n |-> IF i = 1 THEN s[i] ELSE g[i-1] \o s[i]]

\* The function FlattenSeq is defined by is there.
LEMMA LaidOut ==
    ASSUME NEW s, NEW n \in Nat
    PROVE  \E g : Laid(g, s, n)
<1> DEFINE Bad == {k \in Nat : ~\E g : Laid(g, s, k)}
<1>1. Bad = {}
  <2> SUFFICES ASSUME Bad # {} PROVE FALSE
    OBVIOUS
  <2>0. Bad \in SUBSET Nat
    OBVIOUS
  <2>1. PICK k \in Bad : \A m \in Bad : k <= m
    <3> HIDE DEF Bad
    <3> QED BY <2>0, LeastNumber
  <2>2. k \in Nat /\ ~\E g : Laid(g, s, k)
    OBVIOUS
  <2>3. k # 0
    <3>1. Laid([i \in 1..0 |-> 0], s, 0)
      <4>1. 1..0 = {}
        OBVIOUS
      <4> QED BY <4>1 DEF Laid
    <3> QED BY <2>2, <3>1
  <2>4. k - 1 \in Nat /\ ~(k <= k - 1)
    BY <2>2, <2>3
  <2>5. PICK g : Laid(g, s, k - 1)
    <3>1. ~(k - 1 \in Bad)
      BY <2>1, <2>4
    <3> QED BY <2>4, <3>1
  <2> DEFINE h == [i \in 1..k |-> IF i = 1 THEN s[i]
                                  ELSE IF i = k THEN g[k-1] \o s[i] ELSE g[i]]
             e(i) == IF i = 1 THEN s[i] ELSE h[i-1] \o s[i]
  <2>6. ASSUME NEW i \in 1..k PROVE h[i] = e(i)
    <3>1. CASE i = 1
      BY <3>1
    <3>2. CASE i # 1 /\ i = k
      <4>1. i - 1 \in 1..k /\ i - 1 # k /\ i - 1 = k - 1
        BY <2>2, <3>2
      <4>2. h[i-1] = g[i-1]
        <5>1. CASE i - 1 = 1
          <6>1. g[1] = s[1]
            <7>1. 1 \in 1..(k - 1)
              BY <5>1, <3>2, <2>2
            <7> QED BY <7>1, <2>5 DEF Laid
          <6> QED BY <5>1, <4>1, <6>1
        <5>2. CASE i - 1 # 1
          BY <5>2, <4>1
        <5> QED BY <5>1, <5>2
      <4> QED BY <3>2, <4>1, <4>2
    <3>3. CASE i # 1 /\ i # k
      <4>1. i - 1 \in 1..k /\ i - 1 # k /\ i \in 1..(k - 1) /\ i - 1 \in 1..(k - 1)
        BY <2>2, <3>3
      <4>2. h[i-1] = g[i-1]
        <5>1. CASE i - 1 = 1
          <6>1. g[1] = s[1]
            <7>1. 1 \in 1..(k - 1)
              BY <5>1, <4>1
            <7> QED BY <7>1, <2>5 DEF Laid
          <6> QED BY <5>1, <4>1, <6>1
        <5>2. CASE i - 1 # 1
          BY <5>2, <4>1
        <5> QED BY <5>1, <5>2
      <4>3. g[i] = g[i-1] \o s[i]
        <5>1. g = [j \in 1..(k-1) |-> IF j = 1 THEN s[j] ELSE g[j-1] \o s[j]]
          BY <2>5 DEF Laid
        <5> QED BY <3>3, <4>1, <5>1
      <4> QED BY <3>3, <4>1, <4>2, <4>3
    <3> QED BY <3>1, <3>2, <3>3
  <2>7. h = [i \in 1..k |-> e(i)]
    <3>1. h = [i \in 1..k |-> h[i]]
      OBVIOUS
    <3> HIDE DEF h
    <3> QED BY <2>6, <3>1
  <2>8. Laid(h, s, k)
    <3> HIDE DEF h
    <3> QED BY <2>7 DEF Laid
  <2> QED BY <2>2, <2>8
<1> QED BY <1>1

\* A function that lays a sequence longer by one agrees with one that lays
\* the sequence.
LEMMA LaidAlike ==
    ASSUME NEW n \in Nat, NEW m \in Nat, NEW s, NEW t, NEW g, NEW h, n <= m,
           \A i \in 1..n : s[i] = t[i], Laid(g, s, n), Laid(h, t, m)
    PROVE  \A i \in 1..n : g[i] = h[i]
<1> DEFINE Bad == {i \in 1..n : g[i] # h[i]}
<1>1. Bad = {}
  <2> SUFFICES ASSUME Bad # {} PROVE FALSE
    OBVIOUS
  <2>0. Bad \in SUBSET Nat
    OBVIOUS
  <2>1. PICK k \in Bad : \A j \in Bad : k <= j
    <3> HIDE DEF Bad
    <3> QED BY <2>0, LeastNumber
  <2>2. k \in 1..n /\ k \in 1..m /\ g[k] # h[k] /\ s[k] = t[k]
    OBVIOUS
  <2>3. g[k] = (IF k = 1 THEN s[k] ELSE g[k-1] \o s[k])
    BY <2>2 DEF Laid
  <2>4. h[k] = (IF k = 1 THEN t[k] ELSE h[k-1] \o t[k])
    BY <2>2 DEF Laid
  <2>5. k # 1
    BY <2>2, <2>3, <2>4
  <2>6. k - 1 \in 1..n /\ ~(k <= k - 1)
    BY <2>2, <2>5
  <2>7. g[k-1] = h[k-1]
    BY <2>1, <2>6
  <2> QED BY <2>2, <2>3, <2>4, <2>7
<1> QED BY <1>1

\* What FlattenSeq is defined as.
LEMMA FlattenUnfolds ==
    ASSUME NEW s, Len(s) \in Nat \ {0}
    PROVE  \E g : Laid(g, s, Len(s)) /\ FlattenSeq(s) = g[Len(s)]
<1> DEFINE g == CHOOSE g : Laid(g, s, Len(s))
<1>1. Laid(g, s, Len(s))
  BY LaidOut
<1>2. FlattenSeq(s) = g[Len(s)]
  BY DEF FlattenSeq, Laid
<1> QED BY <1>1, <1>2

\* One more sequence is laid after those before it.
LEMMA FlattenAppend ==
    ASSUME NEW S, NEW s \in Seq(Seq(S)), NEW x \in Seq(S)
    PROVE  FlattenSeq(Append(s, x)) = FlattenSeq(s) \o x
<1> DEFINE t == Append(s, x)
           n == Len(s)
<1>1. n \in Nat /\ t \in Seq(Seq(S)) /\ Len(t) = n + 1 /\ t[n + 1] = x
      /\ \A i \in 1..n : t[i] = s[i]
  BY LenProperties, AppendProperties
<1> HIDE DEF t
<1>2. PICK h : Laid(h, t, Len(t)) /\ FlattenSeq(t) = h[Len(t)]
  BY <1>1, FlattenUnfolds
<1>3. h[n + 1] = (IF n + 1 = 1 THEN t[n + 1] ELSE h[(n + 1) - 1] \o t[n + 1])
  <2>1. n + 1 \in 1..Len(t)
    BY <1>1
  <2> QED BY <1>2, <2>1 DEF Laid
<1>4. CASE n = 0
  <2>1. s = << >> /\ FlattenSeq(s) = s
    BY <1>4, EmptySeq DEF FlattenSeq
  <2>2. << >> \o x = x
    BY ConcatEmptySeq
  <2> QED BY <1>1, <1>2, <1>3, <1>4, <2>1, <2>2 DEF t
<1>5. CASE n # 0
  <2>1. PICK g : Laid(g, s, n) /\ FlattenSeq(s) = g[n]
    BY <1>1, <1>5, FlattenUnfolds
  <2>2. g[n] = h[n]
    <3>1. \A i \in 1..n : g[i] = h[i]
      <4>1. n <= n + 1 /\ n + 1 \in Nat /\ Laid(h, t, n + 1)
        BY <1>1, <1>2
      <4>2. \A i \in 1..n : s[i] = t[i]
        BY <1>1
      <4>3. n \in Nat /\ Laid(g, s, n)
        BY <1>1, <2>1
      <4> HIDE DEF n
      <4>4. \A k \in Nat, m \in Nat : \A a, b, c, d : k <= m =>
               ((\A i \in 1..k : a[i] = b[i]) => (Laid(c, a, k) => (Laid(d, b, m) =>
                  \A i \in 1..k : c[i] = d[i])))
        BY LaidAlike, Zenon
      <4> QED BY <4>1, <4>2, <4>3, <4>4
    <3>2. n \in 1..n
      BY <1>1, <1>5
    <3> QED BY <3>1, <3>2
  <2>3. FlattenSeq(t) = h[n] \o x
    BY <1>1, <1>2, <1>3, <1>5
  <2> QED BY <2>1, <2>2, <2>3 DEF t
<1> QED BY <1>4, <1>5

\* Nothing is laid out of nothing, and what is laid are elements of S.
LEMMA FlattenType ==
    ASSUME NEW S, NEW s \in Seq(Seq(S))
    PROVE  /\ FlattenSeq(<< >>) = << >>
           /\ FlattenSeq(s) \in Seq(S)
<1>0. Len(s) \in Nat
  BY LenProperties
<1>1. FlattenSeq(<< >>) = << >>
  BY EmptySeq DEF FlattenSeq
<1> DEFINE Bad == {k \in Nat : k <= Len(s) /\ ~(FlattenSeq(SubSeq(s, 1, k)) \in Seq(S))}
<1>2. Bad = {}
  <2> SUFFICES ASSUME Bad # {} PROVE FALSE
    OBVIOUS
  <2>0. Bad \in SUBSET Nat
    OBVIOUS
  <2>1. PICK k \in Bad : \A m \in Bad : k <= m
    <3> HIDE DEF Bad
    <3> QED BY <2>0, LeastNumber
  <2>2. k \in Nat /\ k <= Len(s) /\ ~(FlattenSeq(SubSeq(s, 1, k)) \in Seq(S))
    OBVIOUS
  <2>3. CASE k = 0
    <3>1. SubSeq(s, 1, 0) = << >>
      BY SubSeqProperties, <1>0
    <3>2. << >> \in Seq(S)
      BY EmptySeq
    <3> QED BY <1>1, <2>2, <2>3, <3>1, <3>2
  <2>4. CASE k # 0
    <3> DEFINE b == SubSeq(s, 1, k - 1)
    <3>1. k - 1 \in Nat /\ k - 1 <= Len(s) /\ ~(k <= k - 1) /\ k \in 1..Len(s)
      BY <1>0, <2>2, <2>4
    <3>2. FlattenSeq(b) \in Seq(S)
      <4>1. ~(k - 1 \in Bad)
        BY <2>1, <3>1
      <4> QED BY <3>1, <4>1
    <3>3. b \in Seq(Seq(S)) /\ s[k] \in Seq(S)
      BY <3>1, ElementOfSeq, SubSeqProperties
    <3>4. SubSeq(s, 1, k) = Append(b, s[k])
      BY <1>0, <3>1
    <3>5. FlattenSeq(Append(b, s[k])) = FlattenSeq(b) \o s[k]
      BY <3>3, FlattenAppend
    <3>6. FlattenSeq(b) \o s[k] \in Seq(S)
      BY <3>2, <3>3, ConcatProperties
    <3> QED BY <2>2, <3>4, <3>5, <3>6
  <2> QED BY <2>3, <2>4
<1>3. SubSeq(s, 1, Len(s)) = s
  BY <1>0
<1>4. ~(Len(s) \in Bad)
  BY <1>2
<1>5. FlattenSeq(SubSeq(s, 1, Len(s))) \in Seq(S)
  BY <1>0, <1>4
<1> QED BY <1>1, <1>3, <1>5

\* A loop whose turns are functions on S comes to a state in S with each turn.
Iteration(n, S, from, T) == \E f \in [0 .. n -> S] : f[0] = from /\ \A i \in 1 .. n : f[i] = T[i][f[i - 1]]

\* Each turn of a loop has a state.
LEMMA Iterates ==
    ASSUME NEW n \in Nat, NEW S, NEW from \in S, NEW T \in [1 .. n -> [S -> S]]
    PROVE  Iteration(n, S, from, T)
  <1> DEFINE Goes(f, k) == f = [i \in 0 .. k |-> IF i = 0 THEN from ELSE T[i][f[i - 1]]]
             K == {k \in Nat : \E f \in [0 .. k -> S] : Goes(f, k)}
  <1>1. 0 \in K
    <2> DEFINE f == [i \in 0 .. 0 |-> from]
    <2>1. f \in [0 .. 0 -> S]
      OBVIOUS
    <2>2. f = [i \in 0 .. 0 |-> IF i = 0 THEN from ELSE T[i][f[i - 1]]]
      OBVIOUS
    <2> QED
      BY <2>1, <2>2
  <1>2. ASSUME NEW k \in 0 .. n, k \in K, k < n
        PROVE  k + 1 \in K
    <2>1. PICK f \in [0 .. k -> S] : Goes(f, k)
      BY <1>2
    <2> DEFINE m == k + 1
               h == [i \in 0 .. m |-> IF i = m THEN T[m][f[k]] ELSE f[i]]
               e(i) == IF i = 0 THEN from ELSE T[i][h[i - 1]]
    <2>2. k \in Nat /\ m \in Nat /\ m # 0 /\ m - 1 = k /\ k # m /\ k \in 0 .. m /\ k \in 0 .. k /\ m \in 1 .. n
      BY <1>2
    <2>3. T[m][f[k]] \in S
      BY <2>2
    <2>4. h \in [0 .. m -> S]
      BY <2>2, <2>3
    <2>5. ASSUME NEW i \in 0 .. m
          PROVE  h[i] = e(i)
      <3>1. CASE i = m
        <4>1. h[i] = T[m][f[k]]
          BY <3>1
        <4>2. h[k] = f[k]
          BY <2>2
        <4> HIDE DEF h
        <4> QED
          BY <2>2, <3>1, <4>1, <4>2
      <3>2. CASE i # m
        <4>1. i \in 0 .. k /\ h[i] = f[i]
          BY <2>2, <3>2
        <4>2. f[i] = IF i = 0 THEN from ELSE T[i][f[i - 1]]
          BY <2>1, <4>1
        <4>3. i # 0 => h[i - 1] = f[i - 1]
          BY <2>2, <4>1
        <4> HIDE DEF h
        <4> QED
          BY <4>1, <4>2, <4>3
      <3> QED
        BY <3>1, <3>2
    <2>6. h = [i \in 0 .. m |-> e(i)]
      <3>1. h = [i \in 0 .. m |-> h[i]]
        OBVIOUS
      <3> HIDE DEF h
      <3> QED
        BY <2>5, <3>1
    <2>7. Goes(h, m)
      <3> HIDE DEF h
      <3> QED
        BY <2>6
    <2> QED
      BY <2>2, <2>4, <2>7
  <1> HIDE DEF K
  <1>3. \A k \in 0 .. n : k \in K
    BY <1>1, <1>2, Onward
  <1>4. n \in K
    BY <1>3
  <1>5. PICK f \in [0 .. n -> S] : Goes(f, n)
    BY <1>4 DEF K
  <1>6. f[0] = from /\ \A i \in 1 .. n : f[i] = T[i][f[i - 1]]
    <2>1. 0 \in 0 .. n /\ \A i \in 1 .. n : i \in 0 .. n /\ i # 0
      OBVIOUS
    <2> QED
      BY <1>5, <2>1
  <1> QED
    BY <1>6 DEF Iteration

-----------------------------------------------------------------------------

\* A text that begins with x: its first character and the rest.
LEMMA Ahead ==
    ASSUME NEW C, NEW s \in Seq(C), s # << >>
    PROVE  /\ s[1] \in C /\ Tail(s) \in Seq(C) /\ Len(s) \in Nat \ {0} /\ Len(Tail(s)) = Len(s) - 1
           /\ \A i \in 1 .. Len(s) - 1 : Tail(s)[i] = s[i + 1]
           /\ s = << s[1] >> \o Tail(s)
  <1>1. /\ s[1] \in C /\ Tail(s) \in Seq(C) /\ Len(s) \in Nat \ {0} /\ Len(Tail(s)) = Len(s) - 1
        /\ \A i \in 1 .. Len(s) - 1 : Tail(s)[i] = s[i + 1]
    <2>1. Tail(s) \in Seq(C) /\ Len(Tail(s)) = Len(s) - 1 /\ \A i \in 1 .. Len(Tail(s)) : Tail(s)[i] = s[i + 1]
      BY HeadTailProperties
    <2>2. Len(s) \in Nat \ {0}
      BY EmptySeq, LenProperties
    <2>3. s[1] \in C
      BY <2>2, ElementOfSeq
    <2> QED
      BY <2>1, <2>2, <2>3
  <1> DEFINE t == << s[1] >> \o Tail(s)
  <1>2. << s[1] >> \in Seq(C) /\ Len(<< s[1] >>) = 1 /\ << s[1] >>[1] = s[1]
    BY <1>1
  <1>3. t \in Seq(C) /\ Len(t) = Len(s) /\ \A i \in 1 .. Len(s) : t[i] = IF i <= 1 THEN << s[1] >>[i] ELSE Tail(s)[i - 1]
    <2>1. t \in Seq(C) /\ Len(t) = 1 + (Len(s) - 1)
          /\ \A i \in 1 .. 1 + (Len(s) - 1) : t[i] = IF i <= 1 THEN << s[1] >>[i] ELSE Tail(s)[i - 1]
      BY <1>1, <1>2, ConcatProperties
    <2> QED
      BY <1>1, <2>1
  <1>4. \A i \in 1 .. Len(s) : t[i] = s[i]
    <2> TAKE i \in 1 .. Len(s)
    <2>1. CASE i = 1
      BY <1>2, <1>3, <2>1
    <2>2. CASE i # 1
      <3>1. i - 1 \in 1 .. Len(s) - 1 /\ (i - 1) + 1 = i /\ ~(i <= 1)
        BY <1>1, <2>2
      <3> QED
        BY <1>1, <1>3, <3>1
    <2> QED
      BY <2>1, <2>2
  <1>5. t = s
    <2> HIDE DEF t
    <2> QED
      BY <1>3, <1>4, SeqEqual
  <1> QED
    BY <1>1, <1>5

\* One character before a text.
LEMMA Preceded ==
    ASSUME NEW C, NEW c \in C, NEW s \in Seq(C)
    PROVE  /\ << c >> \o s \in Seq(C) /\ << c >> \o s # << >> /\ Len(<< c >> \o s) = Len(s) + 1
           /\ (<< c >> \o s)[1] = c /\ Tail(<< c >> \o s) = s
           /\ \A i \in 1 .. Len(s) : (<< c >> \o s)[i + 1] = s[i]
  <1> DEFINE t == << c >> \o s
  <1>1. << c >> \in Seq(C) /\ Len(<< c >>) = 1 /\ << c >>[1] = c /\ Len(s) \in Nat
    OBVIOUS
  <1>2. t \in Seq(C) /\ Len(t) = 1 + Len(s) /\ \A i \in 1 .. 1 + Len(s) : t[i] = IF i <= 1 THEN << c >>[i] ELSE s[i - 1]
    BY <1>1, ConcatProperties
  <1> HIDE DEF t
  <1>3. t # << >>
    BY <1>1, <1>2
  <1>4. t[1] = c
    BY <1>1, <1>2
  <1>5. \A i \in 1 .. Len(s) : t[i + 1] = s[i]
    <2> TAKE i \in 1 .. Len(s)
    <2>1. i + 1 \in 1 .. 1 + Len(s) /\ ~(i + 1 <= 1) /\ (i + 1) - 1 = i
      BY <1>1
    <2> QED
      BY <1>2, <2>1
  <1>6. Tail(t) = s
    <2>1. Tail(t) \in Seq(C) /\ Len(Tail(t)) = Len(s) /\ \A i \in 1 .. Len(s) : Tail(t)[i] = t[i + 1]
      BY <1>1, <1>2, <1>3, HeadTailProperties
    <2> QED
      BY <1>5, <2>1, SeqEqual
  <1> QED
    BY <1>1, <1>2, <1>3, <1>4, <1>5, <1>6 DEF t

\* What is laid begins with the first, and goes on with the others.
LEMMA FlattenFirst ==
    ASSUME NEW S, NEW x \in Seq(S), NEW s \in Seq(Seq(S))
    PROVE  /\ << x >> \o s \in Seq(Seq(S))
           /\ FlattenSeq(<< x >> \o s) = x \o FlattenSeq(s)
  <1> DEFINE n == Len(s)
             u(k) == SubSeq(s, 1, k)
             K == {k \in 0 .. n : FlattenSeq(<< x >> \o u(k)) = x \o FlattenSeq(u(k))}
  <1>1. n \in Nat /\ \A k \in 0 .. n : u(k) \in Seq(Seq(S))
    <2>1. n \in Nat
      OBVIOUS
    <2>2. ASSUME NEW k \in 0 .. n
          PROVE  u(k) \in Seq(Seq(S))
      OBVIOUS
    <2> QED
      BY <2>1, <2>2
  <1>2. 0 \in K
    <2>1. u(0) = << >>
      BY SubSeqEmpty
    <2>2. << x >> = Append(<< >>, x) /\ << x >> \o << >> = << x >>
      OBVIOUS
    <2>3. << >> \in Seq(Seq(S)) /\ FlattenSeq(<< >>) = << >>
      BY EmptySeq, FlattenType
    <2>4. FlattenSeq(<< x >>) = << >> \o x
      BY <2>2, <2>3, FlattenAppend
    <2>5. << >> \o x = x /\ x \o << >> = x
      BY ConcatEmptySeq
    <2>6. FlattenSeq(<< x >> \o u(0)) = x \o FlattenSeq(u(0))
      BY <2>1, <2>2, <2>3, <2>4, <2>5
    <2> QED
      BY <1>1, <2>6
  <1>3. ASSUME NEW k \in 0 .. n, k \in K, k < n
        PROVE  k + 1 \in K
    <2> DEFINE e == s[k + 1]
    <2>1. k + 1 \in 1 .. n /\ e \in Seq(S) /\ k \in Nat
      <3>1. k + 1 \in 1 .. n /\ k \in Nat
        BY <1>1, <1>3
      <3>2. s[k + 1] \in Seq(S)
        BY <3>1, ElementOfSeq
      <3> QED
        BY <3>1, <3>2
    <2>2. u(k + 1) = Append(u(k), e)
      BY <1>1, <2>1
    <2> DEFINE a == << x >> \o u(k)
    <2>3. a \in Seq(Seq(S)) /\ << x >> \o Append(u(k), e) = Append(a, e)
      <3>1. << x >> \in Seq(Seq(S))
        OBVIOUS
      <3>2. u(k) \in Seq(Seq(S)) /\ << e >> \in Seq(Seq(S))
        BY <1>1, <2>1
      <3> HIDE DEF u, e
      <3>3. Append(u(k), e) = u(k) \o << e >> /\ a \in Seq(Seq(S)) /\ Append(a, e) = a \o << e >>
        BY <2>1, <3>1, <3>2, AppendIsConcat, ConcatProperties
      <3>4. << x >> \o (u(k) \o << e >>) = (<< x >> \o u(k)) \o << e >>
        BY <3>1, <3>2, ConcatAssociative
      <3> QED
        BY <3>3, <3>4
    <2>4. FlattenSeq(Append(a, e)) = FlattenSeq(a) \o e
      <3> HIDE DEF a, e
      <3> QED
        BY <2>1, <2>3, FlattenAppend
    <2>5. FlattenSeq(Append(u(k), e)) = FlattenSeq(u(k)) \o e
      <3>1. u(k) \in Seq(Seq(S))
        BY <1>1
      <3> HIDE DEF u, e
      <3> QED
        BY <2>1, <3>1, FlattenAppend
    <2>6. FlattenSeq(a) = x \o FlattenSeq(u(k))
      BY <1>3
    <2>7. FlattenSeq(u(k)) \in Seq(S)
      <3>1. u(k) \in Seq(Seq(S))
        BY <1>1
      <3> HIDE DEF u
      <3> QED
        BY <3>1, FlattenType
    <2>8. (x \o FlattenSeq(u(k))) \o e = x \o (FlattenSeq(u(k)) \o e)
      <3> HIDE DEF u, e
      <3> QED
        BY <2>1, <2>7, ConcatAssociative, SMTT(30)
    <2>9. FlattenSeq(<< x >> \o u(k + 1)) = x \o FlattenSeq(u(k + 1))
      <3> HIDE DEF u, e, a
      <3> QED
        BY <2>2, <2>3, <2>4, <2>5, <2>6, <2>8
    <2>10. k + 1 \in 0 .. n
      BY <1>1, <2>1
    <2> HIDE DEF u, e, a
    <2> QED
      BY <2>9, <2>10
  <1>4. n \in K
    <2> HIDE DEF K
    <2>1. \A k \in 0 .. n : k \in K
      BY <1>1, <1>2, <1>3, Onward
    <2> QED
      BY <1>1, <2>1
  <1>5. u(n) = s
    BY SubSeqFull
  <1>6. << x >> \o s \in Seq(Seq(S))
    OBVIOUS
  <1> HIDE DEF u
  <1> QED
    BY <1>4, <1>5, <1>6

\* What is left of a sequence begins with its next element.
Remainder(s, i) == SubSeq(s, i + 1, Len(s))

\* What is left of a sequence after i of its elements.
LEMMA RemainderIs ==
    ASSUME NEW C, NEW s \in Seq(C)
    PROVE  /\ Remainder(s, 0) = s /\ Remainder(s, Len(s)) = << >>
           /\ \A i \in 0 .. Len(s) : Remainder(s, i) \in Seq(C) /\ Len(Remainder(s, i)) = Len(s) - i
           /\ \A i \in 0 .. Len(s) : i < Len(s) =>
                 s[i + 1] \in C /\ i + 1 \in 0 .. Len(s) /\ Remainder(s, i) = << s[i + 1] >> \o Remainder(s, i + 1)
  <1>1. Len(s) \in Nat
    OBVIOUS
  <1>2. Remainder(s, 0) = s
    BY SubSeqFull DEF Remainder
  <1>3. Remainder(s, Len(s)) = << >>
    BY <1>1, SubSeqEmpty DEF Remainder
  <1>4. ASSUME NEW i \in 0 .. Len(s)
        PROVE  Remainder(s, i) \in Seq(C) /\ Len(Remainder(s, i)) = Len(s) - i
    <2>1. \A j \in i + 1 .. Len(s) : s[j] \in C
      BY ElementOfSeq
    <2>2. Remainder(s, i) \in Seq(C) /\ Len(Remainder(s, i)) = IF i + 1 <= Len(s) THEN Len(s) - (i + 1) + 1 ELSE 0
      BY <1>1, <2>1, SubSeqProperties DEF Remainder
    <2> QED
      BY <1>1, <2>2
  <1>5. ASSUME NEW i \in 0 .. Len(s), i < Len(s)
        PROVE  s[i + 1] \in C /\ i + 1 \in 0 .. Len(s) /\ Remainder(s, i) = << s[i + 1] >> \o Remainder(s, i + 1)
    <2>1. i + 1 \in 1 .. Len(s) /\ Len(s) \in i + 1 .. Len(s)
      BY <1>1, <1>5
    <2> QED
      BY <2>1, ElementOfSeq, SubSeqRecursiveFirst DEF Remainder
  <1> QED
    BY <1>2, <1>3, <1>4, <1>5

\* CS!From begins at the first character that is not in cs.
LEMMA FromAt ==
    ASSUME NEW s, Len(s) \in Nat, NEW cs
    PROVE  /\ (\A j \in 1 .. Len(s) : s[j] \in cs) => CS!From(s, cs) = << >>
           /\ \A i \in 1 .. Len(s) : s[i] \notin cs /\ (\A j \in 1 .. i - 1 : s[j] \in cs) =>
                 CS!From(s, cs) = SubSeq(s, i, Len(s))
  <1> DEFINE I == {i \in 1 .. Len(s) : s[i] \notin cs}
             k == IF I # {} THEN Min(I) ELSE 0
  <1>1. CS!From(s, cs) = IF k = 0 THEN << >> ELSE SubSeq(s, k, Len(s))
    BY DEF CS!From, CS!SelectInSeq, CS!Min, Min
  <1>2. ASSUME NEW i \in 1 .. Len(s), s[i] \notin cs, \A j \in 1 .. i - 1 : s[j] \in cs
        PROVE  k = i
    <2>1. i \in I /\ \A j \in I : i <= j
      BY <1>2
    <2>2. I \subseteq Nat
      OBVIOUS
    <2> HIDE DEF I
    <2>3. Min(I) = i
      <3>1. Min(I) \in I /\ \A j \in I : Min(I) <= j
        BY <2>1 DEF Min
      <3>2. Min(I) <= i /\ i <= Min(I) /\ Min(I) \in Nat /\ i \in Nat
        BY <2>1, <2>2, <3>1
      <3> QED
        BY <3>2
    <2> QED
      BY <2>1, <2>3
  <1>3. (\A j \in 1 .. Len(s) : s[j] \in cs) => k = 0
    OBVIOUS
  <1> HIDE DEF k
  <1>4. \A i \in 1 .. Len(s) : i # 0
    OBVIOUS
  <1> QED
    BY <1>1, <1>2, <1>3, <1>4

\* Characters in cs are left out one by one.
LEMMA FromIs ==
    ASSUME NEW C, NEW s \in Seq(C), NEW cs
    PROVE  /\ CS!From(<< >>, cs) = << >>
           /\ CS!From(s, cs) \in Seq(C) /\ Len(CS!From(s, cs)) <= Len(s)
           /\ CS!From(s, cs) # << >> => CS!From(s, cs)[1] \notin cs
           /\ s # << >> /\ s[1] \notin cs => CS!From(s, cs) = s
           /\ s # << >> /\ s[1] \in cs => CS!From(s, cs) = CS!From(Tail(s), cs)
  <1>1. CS!From(<< >>, cs) = << >>
    <2>1. Len(<< >>) = 0 /\ \A j \in 1 .. 0 : << >>[j] \in cs
      OBVIOUS
    <2> QED
      BY <2>1, FromAt
  <1>2. Len(s) \in Nat /\ \A i \in 1 .. Len(s) : s[i] \in C
    OBVIOUS
  <1>3. \/ \A j \in 1 .. Len(s) : s[j] \in cs
        \/ \E i \in 1 .. Len(s) : s[i] \notin cs /\ \A j \in 1 .. i - 1 : s[j] \in cs
    <2> DEFINE I == {i \in 1 .. Len(s) : s[i] \notin cs}
    <2>1. ASSUME I # {}
          PROVE  \E i \in 1 .. Len(s) : s[i] \notin cs /\ \A j \in 1 .. i - 1 : s[j] \in cs
      <3>1. PICK i \in I : \A j \in I : i <= j
        <4>1. I \in SUBSET Nat
          OBVIOUS
        <4> HIDE DEF I
        <4> QED
          BY <2>1, <4>1, LeastNumber
      <3>2. \A j \in 1 .. i - 1 : j \in 1 .. Len(s) /\ ~(i <= j)
        BY <1>2
      <3> QED
        BY <3>1, <3>2
    <2> QED
      BY <2>1
  <1>4. CS!From(s, cs) \in Seq(C) /\ Len(CS!From(s, cs)) <= Len(s) /\ (CS!From(s, cs) # << >> => CS!From(s, cs)[1] \notin cs)
    <2>1. CASE \A j \in 1 .. Len(s) : s[j] \in cs
      <3>1. CS!From(s, cs) = << >>
        BY <1>2, <2>1, FromAt
      <3>2. << >> \in Seq(C) /\ Len(<< >>) = 0
        BY EmptySeq
      <3> QED
        BY <1>2, <3>1, <3>2
    <2>2. ASSUME NEW i \in 1 .. Len(s), s[i] \notin cs, \A j \in 1 .. i - 1 : s[j] \in cs
          PROVE  CS!From(s, cs) \in Seq(C) /\ Len(CS!From(s, cs)) <= Len(s) /\ (CS!From(s, cs) # << >> => CS!From(s, cs)[1] \notin cs)
      <3>1. CS!From(s, cs) = SubSeq(s, i, Len(s))
        BY <1>2, <2>2, FromAt
      <3> DEFINE t == SubSeq(s, i, Len(s))
      <3>2. t \in Seq(C) /\ Len(t) = Len(s) - i + 1 /\ t[1] = s[i]
        <4>1. t \in Seq(C)
          OBVIOUS
        <4>2. Len(t) = Len(s) - i + 1
          BY <1>2
        <4>3. t[1] = s[i]
          BY <1>2
        <4> QED
          BY <4>1, <4>2, <4>3
      <3> HIDE DEF t
      <3>3. Len(t) <= Len(s)
        BY <1>2, <3>2
      <3> QED
        BY <2>2, <3>1, <3>2, <3>3 DEF t
    <2> QED
      BY <1>3, <2>1, <2>2
  <1>5. ASSUME s # << >>, s[1] \notin cs
        PROVE  CS!From(s, cs) = s
    <2>1. 1 \in 1 .. Len(s) /\ \A j \in 1 .. 1 - 1 : s[j] \in cs
      BY <1>5, Ahead
    <2>2. CS!From(s, cs) = SubSeq(s, 1, Len(s))
      BY <1>2, <1>5, <2>1, FromAt
    <2> QED
      BY <2>2, SubSeqFull
  <1>6. ASSUME s # << >>, s[1] \in cs
        PROVE  CS!From(s, cs) = CS!From(Tail(s), cs)
    <2> DEFINE t == Tail(s)
               n == Len(s)
    <2>1. t \in Seq(C) /\ n \in Nat \ {0} /\ Len(t) = n - 1 /\ \A i \in 1 .. n - 1 : t[i] = s[i + 1]
      BY <1>6, Ahead
    <2>2. CASE \A j \in 1 .. n : s[j] \in cs
      <3>1. \A j \in 1 .. Len(t) : t[j] \in cs
        BY <2>1, <2>2
      <3>2. Len(t) \in Nat
        BY <2>1
      <3>3. CS!From(t, cs) = << >>
        BY <3>1, <3>2, FromAt
      <3> QED
        BY <1>2, <2>2, <3>3, FromAt
    <2>3. ASSUME NEW i \in 1 .. n, s[i] \notin cs, \A j \in 1 .. i - 1 : s[j] \in cs
          PROVE  CS!From(s, cs) = CS!From(t, cs)
      <3>1. CS!From(s, cs) = SubSeq(s, i, n)
        BY <1>2, <2>3, FromAt
      <3>2. i - 1 \in 1 .. Len(t) /\ t[i - 1] = s[i] /\ Len(t) \in Nat
        <4>1. i # 1
          BY <1>6, <2>3
        <4>2. i - 1 \in 1 .. n - 1 /\ (i - 1) + 1 = i
          BY <2>1, <4>1
        <4> QED
          BY <2>1, <4>2
      <3>3. \A j \in 1 .. (i - 1) - 1 : t[j] \in cs
        <4> TAKE j \in 1 .. (i - 1) - 1
        <4>1. j \in 1 .. n - 1 /\ j + 1 \in 1 .. i - 1
          BY <2>1
        <4> QED
          BY <2>1, <2>3, <4>1
      <3>4. CS!From(t, cs) = SubSeq(t, i - 1, Len(t))
        BY <2>3, <3>2, <3>3, FromAt
      <3>5. SubSeq(s, i, n) = SubSeq(t, i - 1, Len(t))
        <4> DEFINE a == SubSeq(s, i, n)
                   b == SubSeq(t, i - 1, Len(t))
        <4>1. a \in Seq(C) /\ Len(a) = (IF i <= n THEN n - i + 1 ELSE 0) /\ \A j \in 1 .. n - i + 1 : a[j] = s[i + j - 1]
          <5>1. \A j \in i .. n : s[j] \in C
            BY <1>2
          <5> QED
            BY <2>1, <5>1, SubSeqProperties
        <4>2. b \in Seq(C) /\ Len(b) = (IF i - 1 <= Len(t) THEN Len(t) - (i - 1) + 1 ELSE 0)
              /\ \A j \in 1 .. Len(t) - (i - 1) + 1 : b[j] = t[(i - 1) + j - 1]
          <5>1. \A j \in i - 1 .. Len(t) : t[j] \in C
            BY <2>1, <3>2
          <5>2. i - 1 \in Int /\ Len(t) \in Int
            BY <3>2
          <5> DEFINE m == i - 1
          <5> HIDE DEF t, m
          <5>3. /\ SubSeq(t, m, Len(t)) \in Seq(C)
                /\ Len(SubSeq(t, m, Len(t))) = IF m <= Len(t) THEN Len(t) - m + 1 ELSE 0
                /\ \A j \in 1 .. Len(t) - m + 1 : SubSeq(t, m, Len(t))[j] = t[m + j - 1]
            <6>1. m \in Int /\ Len(t) \in Int /\ \A j \in m .. Len(t) : t[j] \in C
              BY <5>1, <5>2 DEF m
            <6> QED
              BY <6>1, SubSeqProperties, SMTT(30)
          <5> QED
            BY <5>3 DEF m
        <4>3. Len(a) = n - i + 1 /\ Len(b) = n - i + 1
          <5>1. i <= n /\ i - 1 <= Len(t) /\ Len(t) - (i - 1) + 1 = n - i + 1
            BY <2>1, <3>2
          <5> HIDE DEF a, b
          <5> QED
            BY <4>1, <4>2, <5>1
        <4>4. \A j \in 1 .. n - i + 1 : a[j] = b[j]
          <5> TAKE j \in 1 .. n - i + 1
          <5>1. j \in 1 .. Len(t) - (i - 1) + 1 /\ (i - 1) + j - 1 \in 1 .. n - 1 /\ ((i - 1) + j - 1) + 1 = i + j - 1
            BY <2>1, <3>2
          <5>2. a[j] = s[i + j - 1] /\ b[j] = t[(i - 1) + j - 1]
            BY <4>1, <4>2, <5>1
          <5> QED
            BY <2>1, <5>1, <5>2
        <4> HIDE DEF a, b
        <4>5. \A j \in 1 .. Len(a) : a[j] = b[j]
          BY <4>3, <4>4
        <4>6. a = b
          BY <4>1, <4>2, <4>3, <4>5, SeqEqual
        <4> QED
          BY <4>6 DEF a, b
      <3> QED
        BY <3>1, <3>4, <3>5
    <2> QED
      BY <1>3, <2>2, <2>3
  <1> QED
    BY <1>1, <1>4, <1>5, <1>6

CharacterText == Seq(Character)

\* The marks, by name: with the characters themselves in sight the provers give
\* up on sequences.
Equals    == "="
Semicolon == ";"
Opening   == "{"
Closing   == "}"
Comma     == ","
Quotation == "'"

\* Marks and keywords are characters, all of them different.
LEMMA MarksAre ==
    /\ {Equals, Semicolon, Opening, Closing, Comma, Quotation, CS!Space} \subseteq Character
    /\ {"DSN", "FILEDSN", "DRIVER", "UID", "PWD"} \subseteq Character
    /\ Equals \notin {Semicolon, Opening, Closing, Comma, Quotation, CS!Space}
    /\ Semicolon \notin {Opening, Closing, Comma, Quotation, CS!Space}
    /\ Opening \notin {Closing, Comma, Quotation, CS!Space}
    /\ Closing \notin {Comma, Quotation, CS!Space}
    /\ Comma \notin {Quotation, CS!Space} /\ Quotation # CS!Space
  <1>1. Mark \cup Keyword \subseteq Character
    BY StringsAssumption
  <1> QED
    BY <1>1 DEF Mark, Keyword, CS!Space, Equals, Semicolon, Opening, Closing, Comma, Quotation

\* What a character of a key is written as.
DoubledOf(c) == IF c = Equals THEN << Equals, Equals >> ELSE << c >>

\* A key is written character by character.
LEMMA DoubledFirst ==
    ASSUME NEW c \in Character, NEW s \in CharacterText
    PROVE  /\ Doubled(<< >>) = << >>
           /\ DoubledOf(c) \in CharacterText /\ Doubled(s) \in CharacterText
           /\ Doubled(<< c >> \o s) = DoubledOf(c) \o Doubled(s)
  <1> DEFINE d(t) == [i \in DOMAIN t |-> DoubledOf(t[i])]
             cs == << c >> \o s
  <1>1. \A t : Doubled(t) = FlattenSeq(d(t))
    BY DEF Doubled, DoubledOf, Equals
  <1>2. ASSUME NEW e \in Character
        PROVE  DoubledOf(e) \in Seq(Character)
    <2>1. Equals \in Character
      BY MarksAre
    <2>2. << Equals, Equals >> \in Seq(Character) /\ << e >> \in Seq(Character)
      BY <2>1
    <2> QED
      BY <2>2 DEF DoubledOf
  <1>3. ASSUME NEW t \in Seq(Character)
        PROVE  d(t) \in Seq(Seq(Character)) /\ Len(d(t)) = Len(t) /\ \A i \in 1 .. Len(t) : d(t)[i] = DoubledOf(t[i])
    <2>1. DOMAIN t = 1 .. Len(t) /\ Len(t) \in Nat /\ \A i \in 1 .. Len(t) : t[i] \in Character
      BY LenProperties, ElementOfSeq
    <2>2. \A i \in 1 .. Len(t) : DoubledOf(t[i]) \in Seq(Character)
      BY <1>2, <2>1
    <2>3. d(t) = [i \in 1 .. Len(t) |-> DoubledOf(t[i])]
      BY <2>1
    <2> HIDE DEF d
    <2>4. d(t) \in Seq(Seq(Character))
      BY <2>1, <2>2, <2>3, IsASeq
    <2> QED
      BY <2>1, <2>3, <2>4
  <1>4. Doubled(<< >>) = << >>
    <2>1. d(<< >>) = << >>
      OBVIOUS
    <2>2. << >> \in Seq(Seq(Character))
      BY EmptySeq
    <2>3. FlattenSeq(<< >>) = << >>
      BY <2>2, FlattenType
    <2> HIDE DEF d
    <2> QED
      BY <1>1, <2>1, <2>3
  <1>5. s \in Seq(Character)
    BY DEF CharacterText
  <1>6. Doubled(s) \in CharacterText
    <2>1. d(s) \in Seq(Seq(Character))
      BY <1>3, <1>5
    <2> HIDE DEF d
    <2> QED
      BY <1>1, <2>1, FlattenType DEF CharacterText
  <1>7. d(cs) = << DoubledOf(c) >> \o d(s)
    <2> DEFINE t == << DoubledOf(c) >> \o d(s)
    <2>1. /\ cs \in Seq(Character) /\ Len(cs) = Len(s) + 1 /\ cs[1] = c
          /\ \A i \in 1 .. Len(s) : cs[i + 1] = s[i]
      BY <1>5, Preceded
    <2>2. DoubledOf(c) \in Seq(Character) /\ d(s) \in Seq(Seq(Character)) /\ Len(d(s)) = Len(s)
          /\ \A i \in 1 .. Len(s) : d(s)[i] = DoubledOf(s[i])
      BY <1>2, <1>3, <1>5
    <2>3. /\ d(cs) \in Seq(Seq(Character)) /\ Len(d(cs)) = Len(s) + 1
          /\ \A i \in 1 .. Len(s) + 1 : d(cs)[i] = DoubledOf(cs[i])
      <3>1. d(cs) \in Seq(Seq(Character)) /\ Len(d(cs)) = Len(cs) /\ \A i \in 1 .. Len(cs) : d(cs)[i] = DoubledOf(cs[i])
        BY <1>3, <2>1
      <3> HIDE DEF d, cs
      <3> QED
        BY <2>1, <3>1
    <2>4. /\ t \in Seq(Seq(Character)) /\ Len(t) = Len(s) + 1 /\ t[1] = DoubledOf(c)
          /\ \A i \in 1 .. Len(s) : t[i + 1] = d(s)[i]
      <3> HIDE DEF d
      <3> QED
        BY <2>2, Preceded
    <2> HIDE DEF t, d, cs
    <2>5. \A i \in 1 .. Len(s) + 1 : d(cs)[i] = t[i]
      <3> TAKE i \in 1 .. Len(s) + 1
      <3>1. CASE i = 1
        BY <2>1, <2>3, <2>4, <3>1
      <3>2. CASE i # 1
        <4>1. i - 1 \in 1 .. Len(s) /\ (i - 1) + 1 = i
          BY <1>5, <3>2
        <4>2. t[i] = d(s)[i - 1] /\ cs[i] = s[i - 1]
          BY <2>1, <2>4, <4>1
        <4> QED
          BY <2>2, <2>3, <4>1, <4>2
      <3> QED
        BY <3>1, <3>2
    <2>6. d(cs) = t
      BY <2>3, <2>4, <2>5, SeqEqual
    <2> QED
      BY <2>6 DEF t
  <1>8. FlattenSeq(<< DoubledOf(c) >> \o d(s)) = DoubledOf(c) \o FlattenSeq(d(s))
    <2>1. DoubledOf(c) \in Seq(Character) /\ d(s) \in Seq(Seq(Character))
      BY <1>2, <1>3, <1>5
    <2> HIDE DEF d
    <2> QED
      BY <2>1, FlattenFirst
  <1>9. DoubledOf(c) \in CharacterText
    BY <1>2 DEF CharacterText
  <1> HIDE DEF d
  <1> QED
    BY <1>1, <1>4, <1>6, <1>7, <1>8, <1>9

\* A turn of the loop that reads a key.
KeyState == [rest : CharacterText, key : CharacterText, met : BOOLEAN]

\* extract_key_name: the cases of a turn, said with the marks by name.
LEMMA KeyTurnIs ==
    ASSUME NEW s \in KeyState
    PROVE  /\ CS!KeyTurn(s) \in KeyState
           /\ s.met \/ s.rest = << >> \/ s.rest[1] = Semicolon => CS!KeyTurn(s) = s
           /\ ~s.met /\ s.rest # << >> /\ s.rest[1] \notin {Semicolon, Equals} =>
                 CS!KeyTurn(s) = [rest |-> Tail(s.rest), key |-> Append(s.key, s.rest[1]), met |-> FALSE]
           /\ ~s.met /\ s.rest # << >> /\ s.rest[1] = Equals /\ Tail(s.rest) # << >> /\ Tail(s.rest)[1] = Equals =>
                 CS!KeyTurn(s) = [rest |-> Tail(Tail(s.rest)), key |-> Append(s.key, Equals), met |-> FALSE]
           /\ ~s.met /\ s.rest # << >> /\ s.rest[1] = Equals /\ (Tail(s.rest) = << >> \/ Tail(s.rest)[1] # Equals) =>
                 CS!KeyTurn(s) = [rest |-> Tail(s.rest), key |-> s.key, met |-> TRUE]
  <1> DEFINE r == s.rest
             k == s.key
             a == [rest |-> Tail(r), key |-> Append(k, r[1]), met |-> FALSE]
             b == [rest |-> Tail(Tail(r)), key |-> Append(k, Equals), met |-> FALSE]
             c == [rest |-> Tail(r), key |-> k, met |-> TRUE]
  <1>1. r \in Seq(Character) /\ k \in Seq(Character) /\ s.met \in BOOLEAN /\ s = [rest |-> r, key |-> k, met |-> s.met]
    BY DEF KeyState, CharacterText
  <1>3. ASSUME r # << >>
        PROVE  /\ r[1] \in Character /\ Tail(r) \in Seq(Character)
               /\ Len(r) > 1 <=> Tail(r) # << >>
               /\ Len(r) > 1 => r[2] = Tail(r)[1] /\ Tail(Tail(r)) \in Seq(Character)
    <2> HIDE DEF r
    <2>1. /\ r[1] \in Character /\ Tail(r) \in Seq(Character) /\ Len(r) \in Nat \ {0} /\ Len(Tail(r)) = Len(r) - 1
          /\ \A i \in 1 .. Len(r) - 1 : Tail(r)[i] = r[i + 1]
      BY <1>1, <1>3, Ahead
    <2>2. Tail(r) # << >> <=> Len(Tail(r)) # 0
      BY <2>1, EmptySeq
    <2>3. Len(r) > 1 => 1 \in 1 .. Len(r) - 1 /\ 1 + 1 = 2
      BY <2>1
    <2>4. Len(r) > 1 => r[2] = Tail(r)[1]
      BY <2>1, <2>3
    <2>5. Tail(r) # << >> => Tail(Tail(r)) \in Seq(Character)
      BY <2>1, Ahead
    <2> QED
      BY <2>1, <2>2, <2>4, <2>5
  <1>4. CS!KeyTurn(s) = IF s.met \/ r = << >> \/ r[1] = Semicolon THEN s
                        ELSE IF r[1] # Equals THEN a
                        ELSE IF Len(r) > 1 /\ r[2] = Equals THEN b
                        ELSE c
    BY Zenon DEF CS!KeyTurn, Equals, Semicolon
  <1>5. Equals \in Character /\ Equals # Semicolon
    BY MarksAre
  <1> DEFINE A == ~s.met /\ r # << >> /\ r[1] \notin {Semicolon, Equals}
             B == ~s.met /\ r # << >> /\ r[1] = Equals /\ Tail(r) # << >> /\ Tail(r)[1] = Equals
             D == ~s.met /\ r # << >> /\ r[1] = Equals /\ (Tail(r) = << >> \/ Tail(r)[1] # Equals)
             E == s.met \/ r = << >> \/ r[1] = Semicolon
  <1>6. s.met = FALSE \/ s.met = TRUE
    BY <1>1
  <1>7. E => CS!KeyTurn(s) = s
    BY <1>4
  <1>8. A => CS!KeyTurn(s) = a
    <2> HIDE DEF r, k, a, b, c
    <2> QED
      BY <1>4, <1>6
  <1>9. B => CS!KeyTurn(s) = b
    <2> HIDE DEF r, k, a, b, c
    <2> QED
      BY <1>3, <1>4, <1>5, <1>6
  <1>10. D => CS!KeyTurn(s) = c
    <2> HIDE DEF r, k, a, b, c
    <2> QED
      BY <1>3, <1>4, <1>5, <1>6
  <1>11. A \/ B \/ D \/ E
    BY <1>6
  <1>12. (A => a \in KeyState) /\ (B => b \in KeyState) /\ (D => c \in KeyState)
    <2>1. A => Tail(r) \in Seq(Character) /\ Append(k, r[1]) \in Seq(Character)
      <3> HIDE DEF r, k
      <3> QED
        BY <1>1, <1>3, AppendProperties
    <2>2. B => Tail(Tail(r)) \in Seq(Character) /\ Append(k, Equals) \in Seq(Character)
      <3> HIDE DEF r, k
      <3> QED
        BY <1>1, <1>3, <1>5, AppendProperties
    <2>3. D => Tail(r) \in Seq(Character) /\ k \in Seq(Character)
      <3> HIDE DEF r, k
      <3> QED
        BY <1>1, <1>3
    <2> HIDE DEF A, B, D, r, k
    <2> QED
      BY <2>1, <2>2, <2>3 DEF KeyState, CharacterText
  <1>13. CS!KeyTurn(s) \in KeyState
    <2> HIDE DEF A, B, D, E, a, b, c
    <2> QED
      BY <1>7, <1>8, <1>9, <1>10, <1>11, <1>12
  <1> QED
    BY <1>7, <1>8, <1>9, <1>10, <1>13

\* The turns extract_key_name makes of a text.
LEMMA KeyReadUnfolds ==
    ASSUME NEW str \in CharacterText
    PROVE  \E f \in [0 .. Len(str) -> KeyState] :
              /\ CS!KeyRead(str) = f[Len(str)]
              /\ f[0] = [rest |-> str, key |-> << >>, met |-> FALSE]
              /\ \A i \in 1 .. Len(str) : f[i] = CS!KeyTurn(f[i - 1])
  <1> DEFINE n == Len(str)
             from == [rest |-> str, key |-> << >>, met |-> FALSE]
             T == [i \in 1 .. n |-> [s \in KeyState |-> CS!KeyTurn(s)]]
             Goes(f) == f = [i \in 0 .. n |-> IF i = 0 THEN from ELSE CS!KeyTurn(f[i - 1])]
  <1>1. n \in Nat
    BY DEF CharacterText
  <1>2. from \in KeyState
    <2>1. << >> \in CharacterText
      BY EmptySeq DEF CharacterText
    <2> QED
      BY <2>1 DEF KeyState
  <1>3. T \in [1 .. n -> [KeyState -> KeyState]]
    <2>1. \A s \in KeyState : CS!KeyTurn(s) \in KeyState
      BY KeyTurnIs
    <2> QED
      BY <2>1
  <1>4. PICK f \in [0 .. n -> KeyState] : f[0] = from /\ \A i \in 1 .. n : f[i] = T[i][f[i - 1]]
    <2> HIDE DEF n, from, T
    <2>1. n \in Nat
      BY <1>1
    <2>2. from \in KeyState
      BY <1>2
    <2>3. T \in [1 .. n -> [KeyState -> KeyState]]
      BY <1>3
    <2>4. Iteration(n, KeyState, from, T)
      BY <2>1, <2>2, <2>3, Iterates
    <2> QED
      BY <2>4 DEF Iteration
  <1>5. \A i \in 1 .. n : f[i] = CS!KeyTurn(f[i - 1])
    <2>1. \A i \in 1 .. n : f[i - 1] \in KeyState
      BY <1>1
    <2>2. \A i \in 1 .. n, s \in KeyState : T[i][s] = CS!KeyTurn(s)
      OBVIOUS
    <2> HIDE DEF n, T
    <2> QED
      BY <1>4, <2>1, <2>2
  <1>6. Goes(f)
    <2>1. \A i \in 0 .. n : f[i] = IF i = 0 THEN from ELSE CS!KeyTurn(f[i - 1])
      <3>1. \A i \in 0 .. n : i # 0 => i \in 1 .. n
        BY <1>1
      <3> HIDE DEF n, from, T
      <3> QED
        BY <1>4, <1>5, <3>1
    <2>2. f = [i \in 0 .. n |-> f[i]]
      OBVIOUS
    <2> HIDE DEF n, from
    <2> QED
      BY <2>1, <2>2
  <1> DEFINE c == CHOOSE g : Goes(g)
  <1>7. Goes(c)
    BY <1>6
  <1>8. CS!KeyRead(str) = c[n]
    BY DEF CS!KeyRead
  <1> HIDE DEF c
  <1>9. c = f
    <2> DEFINE K == {i \in 0 .. n : c[i] = f[i]}
    <2>1. 0 \in K
      BY <1>1, <1>6, <1>7
    <2>2. ASSUME NEW i \in 0 .. n, i \in K, i < n
          PROVE  i + 1 \in K
      <3>1. i + 1 \in 0 .. n /\ i + 1 # 0 /\ (i + 1) - 1 = i
        BY <1>1, <2>2
      <3>2. c[i + 1] = CS!KeyTurn(c[(i + 1) - 1]) /\ f[i + 1] = CS!KeyTurn(f[(i + 1) - 1])
        <4> HIDE DEF from
        <4> QED
          BY <1>6, <1>7, <3>1
      <3> QED
        BY <2>2, <3>1, <3>2
    <2>3. \A i \in 0 .. n : c[i] = f[i]
      <3> HIDE DEF K
      <3>1. \A i \in 0 .. n : i \in K
        BY <1>1, <2>1, <2>2, Onward
      <3> QED
        BY <3>1 DEF K
    <2>4. f = [i \in 0 .. n |-> f[i]]
      OBVIOUS
    <2>5. c = [i \in 0 .. n |-> c[i]]
      <3> HIDE DEF from
      <3>1. DOMAIN c = 0 .. n
        BY <1>7
      <3> QED
        BY <1>7
    <2> QED
      BY <2>3, <2>4, <2>5
  <1> QED
    BY <1>4, <1>5, <1>8, <1>9

\* A loop that has come to a state it does not leave ends there.
LEMMA Stayed ==
    ASSUME NEW f, NEW n \in Nat, NEW k \in 0 .. n, \A i \in 1 .. n : f[i - 1] = f[k] => f[i] = f[k]
    PROVE  f[n] = f[k]
  <1> DEFINE S == {i \in 0 .. n : i < k \/ f[i] = f[k]}
  <1>1. 0 \in S
    OBVIOUS
  <1>2. ASSUME NEW i \in 0 .. n, i \in S, i < n
        PROVE  i + 1 \in S
    <2>1. i + 1 \in 1 .. n /\ (i + 1) - 1 = i /\ (i < k => i + 1 < k \/ i + 1 = k)
      BY <1>2
    <2>2. f[i] = f[k] => f[i + 1] = f[k]
      BY <2>1
    <2> QED
      BY <1>2, <2>1, <2>2
  <1>3. n \in S
    <2> HIDE DEF S
    <2>1. \A i \in 0 .. n : i \in S
      BY <1>1, <1>2, Onward
    <2> QED
      BY <2>1
  <1> QED
    BY <1>3

\* TrimRight ends with the last character that is not a space.
LEMMA TrimAt ==
    ASSUME NEW s, Len(s) \in Nat
    PROVE  /\ (\A j \in 1 .. Len(s) : s[j] = CS!Space) => CS!TrimRight(s) = SubSeq(s, 1, 0)
           /\ \A i \in 1 .. Len(s) : s[i] # CS!Space /\ (\A j \in i + 1 .. Len(s) : s[j] = CS!Space) =>
                 CS!TrimRight(s) = SubSeq(s, 1, i)
  <1> DEFINE I == {i \in 1 .. Len(s) : s[i] # CS!Space}
             k == IF I # {} THEN CS!Max(I) ELSE 0
  <1>1. CS!TrimRight(s) = SubSeq(s, 1, k)
    BY DEF CS!TrimRight, CS!SelectLastInSeq
  <1>2. ASSUME NEW i \in 1 .. Len(s), s[i] # CS!Space, \A j \in i + 1 .. Len(s) : s[j] = CS!Space
        PROVE  k = i
    <2>1. i \in I /\ \A j \in I : i >= j
      <3>1. \A j \in I : ~(j \in i + 1 .. Len(s))
        BY <1>2
      <3> QED
        BY <1>2, <3>1
    <2>2. I \subseteq Nat
      OBVIOUS
    <2> HIDE DEF I
    <2>3. CS!Max(I) = i
      <3>1. CS!Max(I) \in I /\ \A j \in I : CS!Max(I) >= j
        BY <2>1 DEF CS!Max
      <3>2. CS!Max(I) >= i /\ i >= CS!Max(I) /\ CS!Max(I) \in Nat /\ i \in Nat
        BY <2>1, <2>2, <3>1
      <3> QED
        BY <3>2
    <2> QED
      BY <2>1, <2>3
  <1>3. (\A j \in 1 .. Len(s) : s[j] = CS!Space) => k = 0
    OBVIOUS
  <1> HIDE DEF k
  <1> QED
    BY <1>1, <1>2, <1>3

\* The text between two others.
LEMMA Between ==
    ASSUME NEW C, NEW p \in Seq(C), NEW u \in Seq(C), NEW w \in Seq(C)
    PROVE  SubSeq(p \o (u \o w), Len(p) + 1, Len(p) + Len(u)) = u
  <1> DEFINE s == p \o (u \o w)
             m == Len(p)
             n == Len(u)
             t == SubSeq(s, m + 1, m + n)
  <1>1. m \in Nat /\ n \in Nat /\ Len(w) \in Nat
    BY LenProperties
  <1>2. u \o w \in Seq(C) /\ Len(u \o w) = n + Len(w) /\ \A i \in 1 .. n + Len(w) : (u \o w)[i] = IF i <= n THEN u[i] ELSE w[i - n]
    BY ConcatProperties
  <1> DEFINE q == u \o w
  <1>3. /\ s \in Seq(C) /\ Len(s) = m + (n + Len(w))
        /\ \A i \in 1 .. m + (n + Len(w)) : s[i] = IF i <= m THEN p[i] ELSE q[i - m]
    <2>1. q \in Seq(C) /\ Len(q) = n + Len(w)
      BY <1>2
    <2> HIDE DEF q, m, n, s, t
    <2>2. p \o q \in Seq(C) /\ Len(p \o q) = Len(p) + Len(q) /\ \A i \in 1 .. Len(p) + Len(q) : (p \o q)[i] = IF i <= Len(p) THEN p[i] ELSE q[i - Len(p)]
      BY <2>1, ConcatProperties
    <2> QED
      BY <2>1, <2>2 DEF q, m, s
  <1>4. \A i \in 1 .. n : s[m + i] = u[i] /\ s[m + i] \in C
    <2> TAKE i \in 1 .. n
    <2>1. m + i \in 1 .. m + (n + Len(w)) /\ ~(m + i <= m) /\ (m + i) - m = i /\ i \in 1 .. n + Len(w) /\ i <= n
      BY <1>1
    <2>2. u[i] \in C
      BY ElementOfSeq
    <2> HIDE DEF s, m, n
    <2> QED
      BY <1>2, <1>3, <2>1, <2>2
  <1> HIDE DEF s, m, n
  <1>5. t \in Seq(C) /\ Len(t) = n /\ \A i \in 1 .. n : t[i] = s[m + i]
    <2>1. m + 1 \in Int /\ m + n \in Int
      BY <1>1
    <2>4. ASSUME NEW i \in m + 1 .. m + n
          PROVE  s[i] \in C
      <3>1. i - m \in 1 .. n /\ m + (i - m) = i
        BY <1>1
      <3>2. s[m + (i - m)] \in C
        BY <1>4, <3>1
      <3> QED
        BY <3>1, <3>2
    <2>2. /\ t \in Seq(C) /\ Len(t) = (IF m + 1 <= m + n THEN (m + n) - (m + 1) + 1 ELSE 0)
          /\ \A i \in 1 .. (m + n) - (m + 1) + 1 : t[i] = s[(m + 1) + i - 1]
      BY <2>1, <2>4, SubSeqProperties
    <2>3. (m + n) - (m + 1) + 1 = n /\ (~(m + 1 <= m + n) => n = 0) /\ \A i \in 1 .. n : (m + 1) + i - 1 = m + i
      BY <1>1
    <2> HIDE DEF t
    <2> QED
      BY <2>2, <2>3
  <1>6. t = u
    <2> HIDE DEF t
    <2>1. \A i \in 1 .. Len(t) : t[i] = u[i]
      BY <1>4, <1>5
    <2> QED
      BY <1>5, <2>1, SeqEqual DEF n
  <1> QED
    BY <1>6 DEF t, s, m, n

\* The two halves of a text.
LEMMA Halves ==
    ASSUME NEW C, NEW u \in Seq(C), NEW w \in Seq(C)
    PROVE  /\ SubSeq(u \o w, 1, Len(u)) = u
           /\ SubSeq(u \o w, Len(u) + 1, Len(u \o w)) = w
  <1>1. << >> \in Seq(C) /\ Len(<< >>) = 0 /\ Len(u) \in Nat /\ Len(w) \in Nat /\ u \o w \in Seq(C) /\ Len(u \o w) = Len(u) + Len(w)
    BY EmptySeq, LenProperties, ConcatProperties
  <1>2. SubSeq(<< >> \o (u \o w), Len(<< >>) + 1, Len(<< >>) + Len(u)) = u
    BY <1>1, Between
  <1>3. SubSeq(u \o (w \o << >>), Len(u) + 1, Len(u) + Len(w)) = w
    BY <1>1, Between
  <1>4. << >> \o (u \o w) = u \o w /\ w \o << >> = w
    BY <1>1, ConcatEmptySeq
  <1>5. Len(<< >>) + 1 = 1 /\ Len(<< >>) + Len(u) = Len(u)
    BY <1>1
  <1> QED
    BY <1>1, <1>2, <1>3, <1>4, <1>5

\* The spaces after a text that does not end with one.
LEMMA TrimRightIs ==
    ASSUME NEW u \in CharacterText, NEW v \in CharacterText,
           u = << >> \/ u[Len(u)] # CS!Space, \A i \in 1 .. Len(v) : v[i] = CS!Space
    PROVE  CS!TrimRight(u \o v) = u
  <1> DEFINE s == u \o v
             m == Len(u)
  <1>1. m \in Nat /\ Len(v) \in Nat /\ u \in Seq(Character) /\ v \in Seq(Character)
    BY DEF CharacterText
  <1>2. s \in Seq(Character) /\ Len(s) = m + Len(v) /\ \A i \in 1 .. m + Len(v) : s[i] = IF i <= m THEN u[i] ELSE v[i - m]
    BY <1>1, ConcatProperties
  <1> HIDE DEF s
  <1>3. Len(s) \in Nat
    BY <1>1, <1>2
  <1>4. \A j \in m + 1 .. Len(s) : s[j] = CS!Space
    <2> TAKE j \in m + 1 .. Len(s)
    <2>1. j \in 1 .. m + Len(v) /\ ~(j <= m) /\ j - m \in 1 .. Len(v)
      BY <1>1, <1>2
    <2> QED
      BY <1>2, <2>1
  <1>5. CS!TrimRight(s) = SubSeq(s, 1, m)
    <2>1. CASE u = << >>
      <3>1. m = 0 /\ m + 1 = 1
        BY <2>1
      <3> HIDE DEF m
      <3>2. \A j \in 1 .. Len(s) : s[j] = CS!Space
        BY <1>4, <3>1
      <3> QED
        BY <1>3, <3>1, <3>2, TrimAt
    <2>2. CASE u # << >>
      <3>1. m \in 1 .. Len(s) /\ s[m] = u[m]
        <4>1. m # 0
          BY <1>1, <2>2, EmptySeq
        <4>2. m \in 1 .. m + Len(v)
          BY <1>1, <4>1
        <4> HIDE DEF m
        <4> QED
          BY <1>1, <1>2, <4>2
      <3>2. s[m] # CS!Space
        BY <2>2, <3>1
      <3> HIDE DEF m
      <3> QED
        BY <1>3, <1>4, <3>1, <3>2, TrimAt
    <2> QED
      BY <2>1, <2>2
  <1>6. SubSeq(s, 1, m) = u
    BY <1>1, Halves DEF s
  <1> QED
    BY <1>5, <1>6 DEF s

\* A text has c first.
Begins(s, c) == s # << >> /\ s[1] = c

\* A key is read as it was written, up to the '=' that ends it.
LEMMA KeyFound ==
    ASSUME NEW key \in CharacterText, NEW more \in CharacterText,
           ~Contains(key, Semicolon), ~Begins(more, Equals)
    PROVE  /\ Doubled(key) \o (<< Equals >> \o more) \in CharacterText
           /\ CS!KeyRead(Doubled(key) \o (<< Equals >> \o more)) = [rest |-> more, key |-> key, met |-> TRUE]
  <1> DEFINE n == Len(key)
             tail == << Equals >> \o more
             R(i) == Doubled(Remainder(key, i)) \o tail
             str == R(0)
             St(i) == [rest |-> R(i), key |-> SubSeq(key, 1, i), met |-> FALSE]
  <1>1. n \in Nat /\ key \in Seq(Character) /\ more \in Seq(Character) /\ Equals \in Character /\ Equals # Semicolon
    BY MarksAre DEF CharacterText
  <1>2. tail \in Seq(Character) /\ tail # << >> /\ Len(tail) = Len(more) + 1 /\ tail[1] = Equals /\ Tail(tail) = more /\ Len(more) \in Nat
    BY <1>1, Preceded
  <1> HIDE DEF tail
  <1>3. ASSUME NEW i \in 0 .. n
        PROVE  R(i) \in Seq(Character) /\ Doubled(Remainder(key, i)) \in Seq(Character) /\ Remainder(key, i) \in Seq(Character)
    <2>1. Remainder(key, i) \in Seq(Character)
      BY <1>1, RemainderIs
    <2>2. Doubled(Remainder(key, i)) \in Seq(Character)
      BY <1>1, <2>1, DoubledFirst DEF CharacterText
    <2> QED
      BY <1>2, <2>1, <2>2, ConcatProperties
  <1>4. str = Doubled(key) \o tail /\ str \in CharacterText /\ R(n) = tail
    <2>1. Remainder(key, 0) = key /\ Remainder(key, n) = << >>
      BY <1>1, RemainderIs
    <2>2. Doubled(<< >>) = << >>
      BY <1>1, DoubledFirst DEF CharacterText
    <2>3. << >> \o tail = tail
      BY <1>2, ConcatEmptySeq
    <2>4. str \in CharacterText
      BY <1>1, <1>3 DEF CharacterText
    <2> QED
      BY <2>1, <2>2, <2>3, <2>4
  <1>5. ASSUME NEW i \in 0 .. n, i < n
        PROVE  /\ key[i + 1] \in Character /\ i + 1 \in 0 .. n
               /\ R(i) = DoubledOf(key[i + 1]) \o R(i + 1)
               /\ Len(R(i + 1)) \in Nat \ {0} /\ R(i + 1) \in Seq(Character)
    <2> DEFINE c == key[i + 1]
               d == Doubled(Remainder(key, i + 1))
    <2>1. c \in Character /\ i + 1 \in 0 .. n /\ Remainder(key, i) = << c >> \o Remainder(key, i + 1)
      BY <1>1, <1>5, RemainderIs
    <2>2. Remainder(key, i + 1) \in Seq(Character) /\ d \in Seq(Character) /\ R(i + 1) \in Seq(Character)
      BY <1>3, <2>1
    <2>3. Doubled(Remainder(key, i)) = DoubledOf(c) \o d /\ DoubledOf(c) \in Seq(Character)
      <3> HIDE DEF c
      <3> QED
        BY <2>1, <2>2, DoubledFirst DEF CharacterText
    <2>4. (DoubledOf(c) \o d) \o tail = DoubledOf(c) \o (d \o tail)
      <3> DEFINE e == DoubledOf(c)
      <3>1. e \in Seq(Character) /\ d \in Seq(Character) /\ tail \in Seq(Character)
        BY <1>2, <2>2, <2>3
      <3> HIDE DEF d, e
      <3>2. (e \o d) \o tail = e \o (d \o tail)
        BY <3>1, ConcatAssociative
      <3> QED
        BY <3>2 DEF e
    <2>5. Len(d \o tail) = Len(d) + Len(tail) /\ Len(d) \in Nat
      <3> HIDE DEF d
      <3> QED
        BY <1>2, <2>2, ConcatProperties, LenProperties
    <2>6. Len(R(i + 1)) \in Nat \ {0}
      BY <1>2, <2>5
    <2> QED
      BY <2>1, <2>2, <2>3, <2>4, <2>6
  <1>6. PICK f \in [0 .. Len(str) -> KeyState] :
           /\ CS!KeyRead(str) = f[Len(str)]
           /\ f[0] = [rest |-> str, key |-> << >>, met |-> FALSE]
           /\ \A i \in 1 .. Len(str) : f[i] = CS!KeyTurn(f[i - 1])
    <2> HIDE DEF str
    <2> QED
      BY <1>4, KeyReadUnfolds
  <1>7. Len(str) \in Nat
    BY <1>4 DEF CharacterText
  <1> HIDE DEF R
  <1> DEFINE K == {i \in 0 .. n : i <= Len(str) /\ f[i] = St(i) /\ i + Len(R(i)) <= Len(str)}
  <1>8. 0 \in K
    <2>1. SubSeq(key, 1, 0) = << >>
      BY SubSeqEmpty
    <2> QED
      BY <1>1, <1>6, <1>7, <2>1, SMTT(30)
  <1>9. ASSUME NEW i \in 0 .. n, i \in K, i < n
        PROVE  i + 1 \in K
    <2> DEFINE c == key[i + 1]
               r == R(i + 1)
    <2>1. /\ c \in Character /\ i + 1 \in 0 .. n /\ i + 1 \in Nat
          /\ R(i) = DoubledOf(c) \o r
          /\ Len(r) \in Nat \ {0} /\ r \in Seq(Character)
      BY <1>5, <1>9
    <2>2. SubSeq(key, 1, i) \in Seq(Character) /\ Append(SubSeq(key, 1, i), c) = SubSeq(key, 1, i + 1)
      <3>1. i + 1 \in 1 .. Len(key) /\ i \in Nat
        BY <2>1
      <3> QED
        BY <1>1, <3>1
    <2>3. R(i) \in Seq(Character) /\ Len(R(i)) \in Nat
      BY <1>3 DEF R
    <2>4. St(i) \in KeyState
      <3> HIDE DEF n
      <3> QED
        BY <2>2, <2>3 DEF KeyState, CharacterText
    <2>5. CS!KeyTurn(St(i)) = St(i + 1) /\ Len(R(i)) >= Len(r) + 1
      <3> HIDE DEF r, c
      <3>1. CASE c # Equals
        <4>1. R(i) = << c >> \o r
          BY <2>1, <3>1 DEF DoubledOf
        <4>2. R(i) # << >> /\ R(i)[1] = c /\ Tail(R(i)) = r /\ Len(R(i)) = Len(r) + 1
          BY <2>1, <4>1, Preceded
        <4>3. c # Semicolon
          BY <1>1, <2>1 DEF c, Contains
        <4> DEFINE s == St(i)
        <4>4. s.rest = R(i) /\ s.key = SubSeq(key, 1, i) /\ s.met = FALSE
          OBVIOUS
        <4>5. s \in KeyState
          BY <2>4
        <4> HIDE DEF s
        <4>6. CS!KeyTurn(s) = [rest |-> Tail(s.rest), key |-> Append(s.key, s.rest[1]), met |-> FALSE]
          BY <3>1, <4>2, <4>3, <4>4, <4>5, KeyTurnIs
        <4>7. CS!KeyTurn(s) = St(i + 1)
          BY <2>2, <4>2, <4>4, <4>6 DEF r, c
        <4> QED
          BY <2>1, <4>2, <4>7 DEF s
      <3>2. CASE c = Equals
        <4> DEFINE q == << Equals >> \o r
        <4>1. R(i) = << Equals >> \o q
          <5>1. << Equals, Equals >> = << Equals >> \o << Equals >> /\ << Equals >> \in Seq(Character)
            BY <1>1
          <5>2. (<< Equals >> \o << Equals >>) \o r = << Equals >> \o (<< Equals >> \o r)
            BY <2>1, <5>1, ConcatAssociative
          <5> QED
            BY <2>1, <3>2, <5>1, <5>2 DEF DoubledOf
        <4>2. q \in Seq(Character) /\ q # << >> /\ q[1] = Equals /\ Tail(q) = r /\ Len(q) = Len(r) + 1
          BY <1>1, <2>1, Preceded
        <4> HIDE DEF q
        <4>3. R(i) # << >> /\ R(i)[1] = Equals /\ Tail(R(i)) = q /\ Len(R(i)) = Len(q) + 1
          BY <1>1, <4>1, <4>2, Preceded
        <4> DEFINE s == St(i)
        <4>4. s.rest = R(i) /\ s.key = SubSeq(key, 1, i) /\ s.met = FALSE
          OBVIOUS
        <4>5. s \in KeyState
          BY <2>4
        <4> HIDE DEF s
        <4>6. CS!KeyTurn(s) = [rest |-> Tail(Tail(s.rest)), key |-> Append(s.key, Equals), met |-> FALSE]
          BY <4>2, <4>3, <4>4, <4>5, KeyTurnIs
        <4>7. CS!KeyTurn(s) = St(i + 1)
          BY <2>2, <3>2, <4>2, <4>3, <4>4, <4>6 DEF r, c
        <4>8. Len(R(i)) >= Len(r) + 1
          BY <2>1, <4>2, <4>3
        <4> QED
          BY <4>7, <4>8 DEF s
      <3> QED
        BY <3>1, <3>2
    <2>6. i + 1 <= Len(str) /\ (i + 1) + Len(r) <= Len(str)
      <3> HIDE DEF r, str
      <3> QED
        BY <1>7, <1>9, <2>1, <2>3, <2>5
    <2>7. f[i + 1] = CS!KeyTurn(f[i])
      <3>1. i + 1 \in 1 .. Len(str) /\ (i + 1) - 1 = i
        BY <1>7, <2>1, <2>6
      <3> QED
        BY <1>6, <3>1
    <2>8. f[i + 1] = St(i + 1)
      <3> HIDE DEF r, c, str
      <3> QED
        BY <1>9, <2>5, <2>7
    <2> HIDE DEF str, c
    <2> QED
      BY <2>1, <2>6, <2>8
  <1>10. n \in K
    <2> HIDE DEF K
    <2>1. \A i \in 0 .. n : i \in K
      BY <1>1, <1>8, <1>9, Onward
    <2> QED
      BY <1>1, <2>1
  <1> DEFINE last == [rest |-> more, key |-> key, met |-> TRUE]
  <1>11. n + 1 \in 0 .. Len(str) /\ f[n + 1] = last
    <2>1. f[n] = [rest |-> tail, key |-> key, met |-> FALSE] /\ n + Len(tail) <= Len(str)
      <3>1. SubSeq(key, 1, n) = key
        BY <1>1, SubSeqFull
      <3> HIDE DEF str
      <3> QED
        BY <1>4, <1>10, <3>1
    <2>2. n + 1 \in 1 .. Len(str) /\ (n + 1) - 1 = n
      <3> HIDE DEF str, n
      <3> QED
        BY <1>1, <1>2, <1>7, <2>1
    <2>3. f[n + 1] = CS!KeyTurn(f[n])
      BY <1>6, <2>2
    <2>4. CS!KeyTurn(f[n]) = last
      <3> DEFINE s == f[n]
      <3>1. s \in KeyState /\ s.rest = tail /\ s.key = key /\ s.met = FALSE
        BY <1>1, <1>2, <2>1 DEF KeyState, CharacterText
      <3> HIDE DEF s
      <3>2. CS!KeyTurn(s) = [rest |-> Tail(s.rest), key |-> s.key, met |-> TRUE]
        BY <1>2, <3>1, KeyTurnIs DEF Begins
      <3> QED
        BY <1>2, <3>1, <3>2 DEF s
    <2> HIDE DEF str
    <2> QED
      BY <1>7, <2>2, <2>3, <2>4
  <1>12. f[Len(str)] = f[n + 1]
    <2>1. CS!KeyTurn(last) = last
      <3> DEFINE s == last
      <3>1. s \in KeyState /\ s.met = TRUE
        BY <1>1 DEF KeyState, CharacterText
      <3> HIDE DEF s
      <3>2. CS!KeyTurn(s) = s
        BY <3>1, KeyTurnIs
      <3> QED
        BY <3>2 DEF s
    <2>2. \A i \in 1 .. Len(str) : f[i - 1] = f[n + 1] => f[i] = f[n + 1]
      <3> HIDE DEF str, last
      <3> QED
        BY <1>6, <1>11, <2>1
    <2> HIDE DEF str, last
    <2> QED
      BY <1>7, <1>11, <2>2, Stayed
  <1> HIDE DEF str
  <1> QED
    BY <1>4, <1>6, <1>11, <1>12 DEF tail

\* What has been thrown is told from what has been read.
LEMMA Outcomes ==
    /\ \A w : CS!Failed(CS!Failure(w))
    /\ \A k, r : ~CS!Failed([key |-> k, rest |-> r])
    /\ \A v, r : ~CS!Failed([value |-> v, rest |-> r])
    /\ \A r, f : ~CS!Failed([rest |-> r, fields |-> f])
    /\ \A c, q, vs : ~CS!Failed([curr |-> c, quotes |-> q, values |-> vs])
  <1>1. \A k, r : ~CS!Failed([key |-> k, rest |-> r])
    BY DEF CS!Failed
  <1>2. \A v, r : ~CS!Failed([value |-> v, rest |-> r])
    BY DEF CS!Failed
  <1>3. \A r, f : ~CS!Failed([rest |-> r, fields |-> f])
    BY DEF CS!Failed
  <1>4. \A c, q, vs : ~CS!Failed([curr |-> c, quotes |-> q, values |-> vs])
    BY DEF CS!Failed
  <1>5. \A w : CS!Failed(CS!Failure(w))
    BY DEF CS!Failed, CS!Failure
  <1> QED
    BY <1>1, <1>2, <1>3, <1>4, <1>5

\* The same, said of every text.
LEMMA FromStops ==
    /\ \A cs : CS!From(<< >>, cs) = << >>
    /\ \A t \in CharacterText : \A cs : t # << >> /\ t[1] \notin cs => CS!From(t, cs) = t
  <1>1. \A t \in Seq(Character) : \A cs : t # << >> /\ t[1] \notin cs => CS!From(t, cs) = t
    BY FromIs
  <1>2. ASSUME NEW cs
        PROVE  CS!From(<< >>, cs) = << >>
    <2>1. << >> \in Seq(Character)
      BY EmptySeq
    <2> QED
      BY <2>1, FromIs
  <1> QED
    BY <1>1, <1>2 DEF CharacterText

\* One character of cs at the beginning is skipped.
LEMMA FromSkips ==
    \A t \in CharacterText : \A cs : t # << >> /\ t[1] \in cs => CS!From(t, cs) = CS!From(Tail(t), cs)
  <1>1. \A t \in Seq(Character) : \A cs : t # << >> /\ t[1] \in cs => CS!From(t, cs) = CS!From(Tail(t), cs)
    BY FromIs
  <1> QED
    BY <1>1 DEF CharacterText

\* What From leaves is a text that begins with none of cs.
LEMMA FromType ==
    \A t \in CharacterText : \A cs :
       /\ CS!From(t, cs) \in CharacterText /\ Len(CS!From(t, cs)) <= Len(t)
       /\ CS!From(t, cs) # << >> => CS!From(t, cs)[1] \notin cs
  <1>1. \A t \in Seq(Character) : \A cs :
           /\ CS!From(t, cs) \in Seq(Character) /\ Len(CS!From(t, cs)) <= Len(t)
           /\ CS!From(t, cs) # << >> => CS!From(t, cs)[1] \notin cs
    BY FromIs
  <1> QED
    BY <1>1 DEF CharacterText

\* The spacing used, and what a text without a mark and another have together.
Spacing == {<< >>, << CS!Space >>}

\* Spacing adds no character but spaces, and From skips it.
LEMMA SpacingIs ==
    ASSUME NEW b \in Spacing
    PROVE  /\ b \in CharacterText /\ \A i \in 1 .. Len(b) : b[i] = CS!Space
           /\ \A s \in CharacterText, c \in Character : ~Contains(s, c) /\ c # CS!Space => ~Contains(s \o b, c)
           /\ \A s \in CharacterText : \A cs : CS!Space \in cs => CS!From(b \o s, cs) = CS!From(s, cs)
  <1>1. b \in Seq(Character) /\ \A i \in 1 .. Len(b) : b[i] = CS!Space
    <2>1. CS!Space \in Character
      BY MarksAre
    <2>2. CASE b = << >>
      <3>1. b \in Seq(Character) /\ Len(b) = 0
        BY <2>2, EmptySeq
      <3> QED
        BY <3>1
    <2>3. CASE b = << CS!Space >>
      <3>1. b \in Seq(Character) /\ Len(b) = 1 /\ b[1] = CS!Space
        BY <2>1, <2>3
      <3> QED
        BY <3>1
    <2> QED
      BY <2>2, <2>3 DEF Spacing
  <1>2. ASSUME NEW s \in Seq(Character), NEW c \in Character, ~Contains(s, c), c # CS!Space
        PROVE  ~Contains(s \o b, c)
    <2>1. Len(s) \in Nat /\ Len(b) \in Nat
      BY <1>1, LenProperties
    <2> DEFINE t == s \o b
    <2>2. Len(t) = Len(s) + Len(b) /\ \A i \in 1 .. Len(s) + Len(b) : t[i] = IF i <= Len(s) THEN s[i] ELSE b[i - Len(s)]
      BY <1>1, ConcatProperties
    <2> HIDE DEF t
    <2>3. ASSUME NEW i \in 1 .. Len(t)
          PROVE  t[i] # c
      <3>1. CASE i <= Len(s)
        <4>1. i \in 1 .. Len(s)
          BY <2>1, <3>1
        <4> QED
          BY <1>2, <2>2, <3>1, <4>1 DEF Contains
      <3>2. CASE ~(i <= Len(s))
        <4>1. i - Len(s) \in 1 .. Len(b)
          BY <2>1, <2>2, <3>2
        <4> QED
          BY <1>1, <1>2, <2>2, <3>2, <4>1
      <3> QED
        BY <3>1, <3>2
    <2> QED
      BY <2>3 DEF Contains, t
  <1>3. ASSUME NEW s \in Seq(Character), NEW cs, CS!Space \in cs
        PROVE  CS!From(b \o s, cs) = CS!From(s, cs)
    <2>1. CASE b = << >>
      BY <2>1, ConcatEmptySeq
    <2>2. CASE b = << CS!Space >>
      <3>1. CS!Space \in Character
        BY MarksAre
      <3> DEFINE t == << CS!Space >> \o s
      <3>2. t \in Seq(Character) /\ t # << >> /\ t[1] = CS!Space /\ Tail(t) = s
        BY <3>1, Preceded
      <3> HIDE DEF t
      <3>3. t[1] \in cs
        BY <1>3, <3>2
      <3>4. CS!From(t, cs) = CS!From(Tail(t), cs)
        BY <3>2, <3>3, FromSkips DEF CharacterText
      <3> QED
        BY <2>2, <3>2, <3>4 DEF t
    <2> QED
      BY <2>1, <2>2 DEF Spacing
  <1> QED
    BY <1>1, <1>2, <1>3 DEF CharacterText

\* Spaces are not doubled.
LEMMA DoubledLast ==
    ASSUME NEW s \in CharacterText, NEW b \in Spacing
    PROVE  Doubled(s \o b) = Doubled(s) \o b
  <1> DEFINE d(t) == [i \in DOMAIN t |-> DoubledOf(t[i])]
  <1>1. \A t : Doubled(t) = FlattenSeq(d(t))
    BY DEF Doubled, DoubledOf, Equals
  <1>2. s \in Seq(Character) /\ CS!Space \in Character /\ CS!Space # Equals /\ Equals \in Character
    BY MarksAre DEF CharacterText
  <1>3. Doubled(s) \in Seq(Character)
    BY <1>2, DoubledFirst DEF CharacterText
  <1>4. CASE b = << >>
    BY <1>2, <1>3, <1>4, ConcatEmptySeq
  <1>5. CASE b = << CS!Space >>
    <2> DEFINE t == Append(s, CS!Space)
               e == DoubledOf(CS!Space)
               n == Len(s)
    <2>1. /\ t \in Seq(Character) /\ Len(t) = n + 1 /\ n \in Nat /\ t[n + 1] = CS!Space /\ s \o b = t
          /\ \A i \in 1 .. n : t[i] = s[i] /\ s[i] \in Character
      <3>1. t \in Seq(Character) /\ Len(t) = n + 1 /\ n \in Nat /\ t[n + 1] = CS!Space /\ \A i \in 1 .. n : t[i] = s[i]
        BY <1>2, AppendProperties, LenProperties
      <3>2. \A i \in 1 .. n : s[i] \in Character
        BY <1>2, ElementOfSeq
      <3>3. s \o << CS!Space >> = t
        BY <1>2, AppendIsConcat
      <3> QED
        BY <1>5, <3>1, <3>2, <3>3
    <2>2. e = << CS!Space >> /\ e \in Seq(Character) /\ \A c \in Character : DoubledOf(c) \in Seq(Character)
      <3>1. e = << CS!Space >>
        BY <1>2 DEF DoubledOf
      <3>2. << CS!Space >> \in Seq(Character) /\ << Equals, Equals >> \in Seq(Character) /\ \A c \in Character : << c >> \in Seq(Character)
        BY <1>2
      <3> QED
        BY <3>1, <3>2 DEF DoubledOf
    <2>3. d(s) \in Seq(Seq(Character)) /\ Len(d(s)) = n /\ \A i \in 1 .. n : d(s)[i] = DoubledOf(s[i])
      <3>1. d(s) = [i \in 1 .. n |-> DoubledOf(s[i])]
        BY <1>2, LenProperties
      <3>2. \A i \in 1 .. n : DoubledOf(s[i]) \in Seq(Character)
        BY <2>1, <2>2
      <3> HIDE DEF d, n, e
      <3>3. d(s) \in Seq(Seq(Character))
        BY <2>1, <3>1, <3>2, IsASeq
      <3> QED
        BY <2>1, <3>1, <3>3
    <2>4. d(t) \in Seq(Seq(Character)) /\ Len(d(t)) = n + 1 /\ \A i \in 1 .. n + 1 : d(t)[i] = DoubledOf(t[i])
      <3>1. d(t) = [i \in 1 .. n + 1 |-> DoubledOf(t[i])]
        <4> HIDE DEF t
        <4> QED
          BY <2>1, LenProperties
      <3>2. \A i \in 1 .. n + 1 : DoubledOf(t[i]) \in Seq(Character)
        <4>1. \A i \in 1 .. n + 1 : t[i] \in Character
          <5> HIDE DEF t
          <5> QED
            BY <2>1, ElementOfSeq
        <4> HIDE DEF t
        <4> QED
          BY <2>2, <4>1
      <3> HIDE DEF d, n, e, t
      <3>3. d(t) \in Seq(Seq(Character))
        BY <2>1, <3>1, <3>2, IsASeq
      <3> QED
        BY <2>1, <3>1, <3>3
    <2>5. d(t) = Append(d(s), e)
      <3> HIDE DEF d, n, t
      <3>1. Append(d(s), e) \in Seq(Seq(Character)) /\ Len(Append(d(s), e)) = n + 1 /\ Append(d(s), e)[n + 1] = e
            /\ \A i \in 1 .. n : Append(d(s), e)[i] = d(s)[i]
        <4> HIDE DEF e
        <4> QED
          BY <2>2, <2>3, AppendProperties
      <3> DEFINE a == Append(d(s), e)
      <3> HIDE DEF a
      <3>2. \A i \in 1 .. n + 1 : d(t)[i] = a[i]
        <4> TAKE i \in 1 .. n + 1
        <4>1. CASE i = n + 1
          BY <2>1, <2>4, <3>1, <4>1 DEF a
        <4>2. CASE i # n + 1
          <5>1. i \in 1 .. n
            BY <2>1, <4>2
          <5> QED
            BY <2>1, <2>3, <2>4, <3>1, <5>1 DEF a
        <4> QED
          BY <4>1, <4>2
      <3>3. d(t) = a
        <4>1. a \in Seq(Seq(Character)) /\ Len(a) = n + 1
          BY <3>1 DEF a
        <4> QED
          BY <2>4, <3>2, <4>1, SeqEqual
      <3> QED
        BY <3>3 DEF a
    <2>6. FlattenSeq(Append(d(s), e)) = FlattenSeq(d(s)) \o e
      <3> HIDE DEF d, e
      <3> QED
        BY <2>2, <2>3, FlattenAppend
    <2> HIDE DEF d, t, e
    <2> QED
      BY <1>1, <1>5, <2>1, <2>2, <2>5, <2>6
  <1> QED
    BY <1>4, <1>5 DEF Spacing

\* The first character of a text that begins with another text.
LEMMA BeginsAs ==
    ASSUME NEW u \in CharacterText, NEW w \in CharacterText
    PROVE  /\ u \o w \in CharacterText
           /\ u # << >> => u \o w # << >> /\ (u \o w)[1] = u[1]
           /\ Len(u \o w) = Len(u) + Len(w) /\ Len(u) \in Nat /\ Len(w) \in Nat
           /\ \A i \in 1 .. Len(u) : (u \o w)[i] = u[i]
           /\ \A i \in 1 .. Len(w) : (u \o w)[Len(u) + i] = w[i]
  <1> DEFINE t == u \o w
             m == Len(u)
             n == Len(w)
  <1>1. u \in Seq(Character) /\ w \in Seq(Character) /\ m \in Nat /\ n \in Nat
    BY DEF CharacterText
  <1>2. t \in Seq(Character) /\ Len(t) = m + n /\ \A i \in 1 .. m + n : t[i] = IF i <= m THEN u[i] ELSE w[i - m]
    BY <1>1, ConcatProperties
  <1>3. u # << >> => m # 0
    BY <1>1, EmptySeq
  <1> HIDE DEF t, m, n
  <1>4. t # << >> \/ m = 0
    BY <1>1, <1>2, EmptySeq
  <1>5. \A i \in 1 .. m : t[i] = u[i]
    <2> TAKE i \in 1 .. m
    <2>1. i \in 1 .. m + n /\ i <= m
      BY <1>1
    <2> QED
      BY <1>2, <2>1
  <1>6. \A i \in 1 .. n : t[m + i] = w[i]
    <2> TAKE i \in 1 .. n
    <2>1. m + i \in 1 .. m + n /\ ~(m + i <= m) /\ (m + i) - m = i
      BY <1>1
    <2> QED
      BY <1>2, <2>1
  <1>7. m # 0 => t[1] = u[1]
    <2>1. m # 0 => 1 \in 1 .. m
      BY <1>1
    <2> QED
      BY <1>5, <2>1
  <1> QED
    BY <1>1, <1>2, <1>3, <1>4, <1>5, <1>6, <1>7 DEF t, m, n, CharacterText

\* A key that is written begins as the key.
LEMMA DoubledBegins ==
    ASSUME NEW key \in CharacterText, key # << >>
    PROVE  Doubled(key) \in CharacterText /\ Doubled(key) # << >> /\ Doubled(key)[1] = key[1]
  <1> DEFINE c == key[1]
             d == DoubledOf(c)
             e == Doubled(Tail(key))
  <1>1. c \in Character /\ Tail(key) \in CharacterText /\ key = << c >> \o Tail(key)
    BY Ahead DEF CharacterText
  <1> HIDE DEF c
  <1>2. Doubled(key) = d \o e /\ d \in CharacterText /\ e \in CharacterText
    BY <1>1, DoubledFirst
  <1>3. d # << >> /\ d[1] = c
    BY DEF DoubledOf
  <1> HIDE DEF d, e
  <1>4. d \o e \in CharacterText /\ d \o e # << >> /\ (d \o e)[1] = c
    BY <1>2, <1>3, BeginsAs
  <1> QED
    BY <1>2, <1>4 DEF c

\* CanBeKey, with the semicolon by name.
LEMMA KeyCan ==
    ASSUME NEW key, CanBeKey(key)
    PROVE  key # << >> /\ key[1] # CS!Space /\ key[Len(key)] # CS!Space /\ ~Contains(key, Semicolon)
  BY Zenon DEF CanBeKey, Semicolon

\* A key with spaces around it is read without them.
LEMMA KeyNameFound ==
    ASSUME NEW key \in CharacterText, CanBeKey(key), NEW b \in Spacing, NEW more \in CharacterText, ~Begins(more, Equals)
    PROVE  LET text == Doubled(key) \o (b \o (<< Equals >> \o more))
           IN  /\ text \in CharacterText /\ text # << >> /\ text[1] \notin {CS!Space, Semicolon}
               /\ CS!KeyName(text) = [key |-> key, rest |-> more]
  <1> DEFINE x == << Equals >> \o more
             d == Doubled(key)
             text == d \o (b \o x)
             k == key \o b
  <1>1. /\ key # << >> /\ key[1] # CS!Space /\ key[Len(key)] # CS!Space /\ ~Contains(key, Semicolon)
        /\ Semicolon \in Character /\ Semicolon # CS!Space /\ Equals \in Character
    BY KeyCan, MarksAre
  <1>2. b \in CharacterText /\ x \in CharacterText /\ d \in CharacterText /\ d # << >> /\ d[1] = key[1]
    BY <1>1, SpacingIs, Preceded, DoubledBegins DEF CharacterText
  <1>3. text \in CharacterText /\ text # << >> /\ text[1] = key[1]
    <2> HIDE DEF d, x
    <2>1. b \o x \in CharacterText
      BY <1>2, BeginsAs
    <2> DEFINE y == b \o x
    <2> HIDE DEF y
    <2>2. d \o y \in CharacterText /\ d \o y # << >> /\ (d \o y)[1] = d[1]
      BY <1>2, <2>1, BeginsAs DEF y
    <2> QED
      BY <1>2, <2>2 DEF y
  <1>4. key[1] # Semicolon
    <2>1. 1 \in 1 .. Len(key)
      BY <1>1, Ahead DEF CharacterText
    <2> QED
      BY <1>1, <2>1 DEF Contains
  <1>5. text = Doubled(k) \o x
    <2>1. Doubled(k) = d \o b
      BY DoubledLast
    <2>2. (d \o b) \o x = d \o (b \o x)
      <3>1. d \in Seq(Character) /\ b \in Seq(Character) /\ x \in Seq(Character)
        BY <1>2 DEF CharacterText
      <3> HIDE DEF d, x
      <3> QED
        BY <3>1, ConcatAssociative
    <2> QED
      BY <2>1, <2>2
  <1>6. k \in CharacterText /\ ~Contains(k, Semicolon)
    BY <1>1, <1>2, BeginsAs, SpacingIs
  <1>7. CS!KeyRead(text) = [rest |-> more, key |-> k, met |-> TRUE]
    <2> HIDE DEF k
    <2>1. CS!KeyRead(Doubled(k) \o (<< Equals >> \o more)) = [rest |-> more, key |-> k, met |-> TRUE]
      BY <1>6, KeyFound
    <2> QED
      BY <1>5, <2>1
  <1>8. CS!TrimRight(k) = key
    BY <1>1, <1>2, SpacingIs, TrimRightIs
  <1>9. CS!KeyName(text) = [key |-> key, rest |-> more]
    <2> DEFINE s == CS!KeyRead(text)
    <2>1. s.rest = more /\ s.key = k /\ s.met = TRUE
      BY <1>7
    <2>2. CS!KeyName(text) = IF CS!TrimRight(s.key) = << >> THEN CS!Failure("key name is missing")
                             ELSE IF ~s.met THEN CS!Failure("'=' is missing")
                             ELSE [key |-> CS!TrimRight(s.key), rest |-> s.rest]
      BY Zenon DEF CS!KeyName
    <2> HIDE DEF s, k
    <2> QED
      BY <1>1, <1>8, <2>1, <2>2
  <1> QED
    BY <1>1, <1>3, <1>4, <1>9

\* Where a text has m first.
Stop(s, m) == CS!SelectInSeq(s, LAMBDA c : c = m)

\* The first place of a character, if it is there.
LEMMA StopGives ==
    ASSUME NEW s \in CharacterText, NEW m
    PROVE  \/ Stop(s, m) = 0 /\ ~Contains(s, m)
           \/ Stop(s, m) \in 1 .. Len(s) /\ s[Stop(s, m)] = m /\ \A j \in 1 .. Stop(s, m) - 1 : s[j] # m
  <1> DEFINE I == {i \in 1 .. Len(s) : s[i] = m}
  <1>1. Len(s) \in Nat
    BY DEF CharacterText
  <1>2. Stop(s, m) = IF I # {} THEN CS!Min(I) ELSE 0
    BY DEF Stop, CS!SelectInSeq
  <1>3. ASSUME I # {}
        PROVE  CS!Min(I) \in I /\ \A j \in I : CS!Min(I) <= j
    <2>1. I \in SUBSET Nat
      BY <1>1
    <2> HIDE DEF I
    <2>2. \E i \in I : \A j \in I : i <= j
      BY <1>3, <2>1, LeastNumber
    <2> QED
      BY <2>2 DEF CS!Min
  <1>4. I = {} => ~Contains(s, m)
    BY DEF Contains
  <1>5. ASSUME NEW k \in I, \A j \in I : k <= j
        PROVE  k \in 1 .. Len(s) /\ s[k] = m /\ \A j \in 1 .. k - 1 : s[j] # m
    <2>1. \A j \in 1 .. k - 1 : j \in 1 .. Len(s) /\ ~(k <= j)
      BY <1>1
    <2> QED
      BY <1>5, <2>1
  <1> HIDE DEF I
  <1> QED
    BY <1>2, <1>3, <1>4, <1>5

\* The first place of a character that comes after a text without it.
LEMMA StopIs ==
    ASSUME NEW u \in CharacterText, NEW w \in CharacterText, NEW m \in Character, ~Contains(u, m)
    PROVE  Stop(u \o (<< m >> \o w), m) = Len(u) + 1
  <1> DEFINE s == u \o (<< m >> \o w)
             k == Stop(s, m)
             n == Len(u)
  <1>1. << m >> \o w \in CharacterText /\ (<< m >> \o w)[1] = m /\ Len(<< m >> \o w) = Len(w) + 1 /\ Len(w) \in Nat
    BY Preceded, LenProperties DEF CharacterText
  <1>2. s \in CharacterText /\ n \in Nat /\ Len(s) = n + (Len(w) + 1) /\ (\A i \in 1 .. n : s[i] = u[i]) /\ s[n + 1] = m
    <2> DEFINE y == << m >> \o w
    <2>1. y \in CharacterText /\ Len(y) = Len(w) + 1 /\ y[1] = m /\ 1 \in 1 .. Len(y)
      BY <1>1
    <2> HIDE DEF y
    <2>2. /\ u \o y \in CharacterText /\ Len(u) \in Nat /\ Len(u \o y) = Len(u) + Len(y)
          /\ \A i \in 1 .. Len(u) : (u \o y)[i] = u[i]
          /\ \A i \in 1 .. Len(y) : (u \o y)[Len(u) + i] = y[i]
      BY <2>1, BeginsAs
    <2> QED
      BY <2>1, <2>2 DEF y
  <1> HIDE DEF s
  <1>3. \/ k = 0 /\ ~Contains(s, m)
        \/ k \in 1 .. Len(s) /\ s[k] = m /\ \A j \in 1 .. k - 1 : s[j] # m
    BY <1>2, StopGives
  <1>4. n + 1 \in 1 .. Len(s)
    BY <1>1, <1>2
  <1>5. Contains(s, m)
    BY <1>2, <1>4 DEF Contains
  <1>6. \A i \in 1 .. n : s[i] # m
    BY <1>2 DEF Contains
  <1> HIDE DEF k, n
  <1>7. k \in 1 .. Len(s) /\ ~(k \in 1 .. n) /\ ~(n + 1 \in 1 .. k - 1)
    BY <1>2, <1>3, <1>5, <1>6
  <1>8. k = n + 1
    BY <1>1, <1>2, <1>7
  <1> QED
    BY <1>8 DEF k, n, s

\* What stands between fields.
Parting == {CS!Space, Semicolon}

\* A semicolon ends a value, and what follows is left to be read.
LEMMA ValueEnds ==
    ASSUME NEW value, NEW b \in Spacing, NEW tail \in CharacterText
    PROVE  CS!ValueBefore(value, b \o (<< Semicolon >> \o tail)) = [value |-> value, rest |-> CS!From(tail, Parting)]
  <1> DEFINE y == << Semicolon >> \o tail
             after == b \o y
             rest == CS!From(after, Parting)
             k == Len(after) - Len(rest)
             skipped == SubSeq(after, 1, k)
  <1>1. Semicolon \in Character /\ b \in CharacterText
    BY MarksAre, SpacingIs
  <1>2. y \in CharacterText /\ y # << >> /\ y[1] = Semicolon /\ Tail(y) = tail /\ Len(y) = Len(tail) + 1 /\ Len(tail) \in Nat
    BY <1>1, Preceded, LenProperties DEF CharacterText
  <1> HIDE DEF y
  <1>3. /\ after \in CharacterText /\ Len(b) \in Nat /\ Len(after) = Len(b) + (Len(tail) + 1)
        /\ after[Len(b) + 1] = Semicolon
    <2>1. 1 \in 1 .. Len(y)
      BY <1>2
    <2>2. /\ b \o y \in CharacterText /\ Len(b) \in Nat /\ Len(b \o y) = Len(b) + Len(y)
          /\ \A i \in 1 .. Len(y) : (b \o y)[Len(b) + i] = y[i]
      BY <1>1, <1>2, BeginsAs
    <2> QED
      BY <1>2, <2>1, <2>2
  <1>4. rest = CS!From(tail, Parting)
    <2>1. CS!Space \in Parting /\ Semicolon \in Parting
      BY DEF Parting
    <2>2. rest = CS!From(y, Parting)
      BY <1>2, <2>1, SpacingIs
    <2>3. CS!From(y, Parting) = CS!From(Tail(y), Parting)
      BY <1>2, <2>1, FromSkips
    <2> QED
      BY <1>2, <2>2, <2>3
  <1>5. rest \in CharacterText /\ Len(rest) <= Len(tail) /\ Len(rest) \in Nat
    BY <1>4, FromType, LenProperties DEF CharacterText
  <1> HIDE DEF after, rest
  <1>6. Contains(skipped, Semicolon)
    <2>1. k \in Nat /\ k <= Len(after) /\ Len(b) + 1 \in 1 .. k /\ Len(after) \in Nat
      BY <1>2, <1>3, <1>5
    <2> HIDE DEF k
    <2>2. \A i \in 1 .. k : after[i] \in Character
      <3>1. \A i \in 1 .. k : i \in 1 .. Len(after)
        BY <2>1
      <3> QED
        BY <1>3, <3>1, ElementOfSeq DEF CharacterText
    <2>3. Len(skipped) = (IF 1 <= k THEN k - 1 + 1 ELSE 0) /\ \A i \in 1 .. k - 1 + 1 : skipped[i] = after[1 + i - 1]
      BY <2>1, <2>2, SubSeqProperties
    <2>4. Len(skipped) = k /\ \A i \in 1 .. k : skipped[i] = after[i]
      <3> HIDE DEF skipped
      <3> QED
        BY <2>1, <2>3
    <2>5. skipped[Len(b) + 1] = Semicolon
      BY <1>3, <2>1, <2>4
    <2> HIDE DEF skipped
    <2> QED
      BY <2>1, <2>4, <2>5 DEF Contains
  <1>7. CS!ValueBefore(value, after) = IF rest # << >> /\ ~Contains(skipped, Semicolon) THEN CS!Failure("';' expected")
                                       ELSE [value |-> value, rest |-> rest]
    <2>1. {";", CS!Space} = Parting
      BY DEF Parting, Semicolon
    <2> QED
      BY <2>1, Zenon DEF CS!ValueBefore, rest, skipped, k, Semicolon, Contains, CS!Contains
  <1> HIDE DEF skipped
  <1>8. CS!ValueBefore(value, after) = [value |-> value, rest |-> rest]
    BY <1>6, <1>7
  <1> QED
    BY <1>4, <1>8 DEF after, y

\* What a value that needs no braces looks like.
LEMMA NeedsNoBraces ==
    ASSUME NEW v, ~NeedsBraces(v)
    PROVE  \/ v = << >>
           \/ v # << >> /\ v[1] \notin {Opening, CS!Space} /\ v[Len(v)] # CS!Space /\ ~Contains(v, Semicolon)
  BY Zenon DEF NeedsBraces, Opening, Semicolon

\* The text of a value without braces.
LEMMA PlainRead ==
    ASSUME NEW v \in CharacterText, ~NeedsBraces(v), NEW b \in Spacing, v = << >> => b = << >>, NEW tail \in CharacterText
    PROVE  CS!ValueAt(v \o (b \o (<< Semicolon >> \o tail))) = [value |-> v, rest |-> CS!From(tail, Parting)]
  <1> DEFINE y == << Semicolon >> \o tail
             u == v \o b
             text == v \o (b \o y)
             stop == Stop(Append(text, Semicolon), Semicolon)
  <1>1. /\ Semicolon \in Character /\ Semicolon # CS!Space /\ Semicolon # Opening
        /\ \/ v = << >>
           \/ v # << >> /\ v[1] \notin {Opening, CS!Space} /\ v[Len(v)] # CS!Space /\ ~Contains(v, Semicolon)
    BY NeedsNoBraces, MarksAre
  <1>2. /\ b \in CharacterText /\ y \in CharacterText /\ y # << >> /\ y[1] = Semicolon
        /\ b \in Seq(Character) /\ y \in Seq(Character) /\ v \in Seq(Character) /\ tail \in Seq(Character)
    BY <1>1, SpacingIs, Preceded DEF CharacterText
  <1> HIDE DEF y
  <1>3. u \in CharacterText /\ ~Contains(u, Semicolon) /\ CS!TrimRight(u) = v
    <2>1. ~Contains(v, Semicolon)
      <3>1. v = << >> => Len(v) = 0
        BY EmptySeq
      <3> QED
        BY <1>1, <3>1 DEF Contains
    <2> QED
      BY <1>1, <1>2, <2>1, BeginsAs, SpacingIs, TrimRightIs
  <1>4. text = u \o y /\ text \in Seq(Character) /\ Append(text, Semicolon) = u \o (<< Semicolon >> \o (tail \o << Semicolon >>))
    <2>1. v \o (b \o y) = (v \o b) \o y
      <3>1. (v \o b) \o y = v \o (b \o y)
        BY <1>2, ConcatAssociative, SMTT(30)
      <3> QED
        BY <3>1
    <2> DEFINE x == << Semicolon >>
    <2>2. u \in Seq(Character) /\ x \in Seq(Character)
      BY <1>1, <1>3 DEF CharacterText
    <2> HIDE DEF u, x
    <2>3. u \o y \in Seq(Character) /\ (u \o y) \o x = u \o (y \o x)
      BY <1>2, <2>2, ConcatProperties, ConcatAssociative, SMTT(30)
    <2>4. (x \o tail) \o x = x \o (tail \o x)
      BY <1>2, <2>2, ConcatAssociative, SMTT(30)
    <2>5. Append(u \o y, Semicolon) = (u \o y) \o << Semicolon >>
      BY <1>1, <2>3, AppendIsConcat
    <2> QED
      BY <2>1, <2>3, <2>4, <2>5 DEF u, x, y
  <1>5. stop = Len(u) + 1
    <2> DEFINE w == tail \o << Semicolon >>
    <2>1. w \in CharacterText
      BY <1>1, BeginsAs DEF CharacterText
    <2> HIDE DEF u, w
    <2>2. Stop(u \o (<< Semicolon >> \o w), Semicolon) = Len(u) + 1
      BY <1>1, <1>3, <2>1, StopIs
    <2> HIDE DEF text
    <2> QED
      BY <1>4, <2>2 DEF w
  <1>6. SubSeq(text, 1, stop - 1) = u /\ SubSeq(text, stop, Len(text)) = y
    <2>1. u \in Seq(Character) /\ Len(u) \in Nat
      BY <1>3, LenProperties DEF CharacterText
    <2> HIDE DEF u, text
    <2>2. SubSeq(u \o y, 1, Len(u)) = u /\ SubSeq(u \o y, Len(u) + 1, Len(u \o y)) = y
      BY <1>2, <2>1, Halves
    <2>3. stop - 1 = Len(u)
      BY <1>5, <2>1
    <2> QED
      BY <1>4, <1>5, <2>2, <2>3
  <1>7. CS!PlainValue(text) = [value |-> v, rest |-> CS!From(tail, Parting)]
    <2>1. CS!PlainValue(text) = CS!ValueBefore(CS!TrimRight(SubSeq(text, 1, stop - 1)), SubSeq(text, stop, Len(text)))
      BY Zenon DEF CS!PlainValue, Stop, Semicolon
    <2>2. CS!ValueBefore(v, << >> \o y) = [value |-> v, rest |-> CS!From(tail, Parting)]
      <3>1. << >> \in Spacing
        BY DEF Spacing
      <3> QED
        BY <3>1, ValueEnds DEF y
    <2>3. << >> \o y = y
      BY <1>2, ConcatEmptySeq
    <2> HIDE DEF text, u, stop
    <2> QED
      BY <1>3, <1>6, <2>1, <2>2, <2>3
  <1>8. text[1] # Opening
    <2>1. CASE v = << >>
      <3>1. text = y
        BY <1>2, <2>1, ConcatEmptySeq
      <3> QED
        BY <1>1, <1>2, <3>1
    <2>2. CASE v # << >>
      <3>1. b \o y \in CharacterText
        BY <1>2, BeginsAs
      <3>2. text[1] = v[1]
        BY <2>2, <3>1, BeginsAs
      <3> QED
        BY <1>1, <2>2, <3>2
    <2> QED
      BY <2>1, <2>2
  <1>9. CS!ValueAt(text) = IF text # << >> /\ text[1] = Opening THEN CS!BracedValue(text) ELSE CS!PlainValue(text)
    BY Zenon DEF CS!ValueAt, Opening
  <1> HIDE DEF text
  <1> QED
    BY <1>7, <1>8, <1>9 DEF text, y

\* The text of a value in braces.
LEMMA BracedRead ==
    ASSUME NEW v \in CharacterText, ~Contains(v, Closing), NEW b \in Spacing, NEW tail \in CharacterText
    PROVE  LET text == << Opening >> \o (v \o (<< Closing >> \o (b \o (<< Semicolon >> \o tail))))
           IN  /\ text \in CharacterText /\ text # << >> /\ text[1] = Opening
               /\ CS!ValueAt(text) = [value |-> v, rest |-> CS!From(tail, Parting)]
  <1> DEFINE x == << Semicolon >> \o tail
             y == b \o x
             z == << Closing >> \o y
             u == << Opening >> \o v
             text == << Opening >> \o (v \o z)
             stop == Stop(text, Closing)
  <1>1. {Opening, Closing, Semicolon} \subseteq Character /\ Opening # Closing
    BY MarksAre
  <1>2. v \in Seq(Character) /\ Len(v) \in Nat /\ << Opening >> \in Seq(Character)
    BY <1>1, LenProperties DEF CharacterText
  <1>3. y \in CharacterText /\ z \in CharacterText /\ y \in Seq(Character) /\ z \in Seq(Character)
    <2>1. x \in CharacterText
      BY <1>1, Preceded DEF CharacterText
    <2> HIDE DEF x
    <2>2. y \in CharacterText
      BY <2>1, SpacingIs, BeginsAs
    <2> HIDE DEF y
    <2> QED
      BY <1>1, <2>2, Preceded DEF CharacterText
  <1> HIDE DEF y
  <1>4. u \in CharacterText /\ u \in Seq(Character) /\ Len(u) = Len(v) + 1 /\ ~Contains(u, Closing)
    <2>1. /\ u \in Seq(Character) /\ Len(u) = Len(v) + 1 /\ u[1] = Opening
          /\ \A i \in 1 .. Len(v) : u[i + 1] = v[i]
      BY <1>1, <1>2, Preceded
    <2> HIDE DEF u
    <2>2. ASSUME NEW i \in 1 .. Len(u)
          PROVE  u[i] # Closing
      <3>1. CASE i = 1
        BY <1>1, <2>1, <3>1
      <3>2. CASE i # 1
        <4>1. i - 1 \in 1 .. Len(v) /\ (i - 1) + 1 = i
          BY <1>2, <2>1, <3>2
        <4>2. u[i] = v[i - 1]
          BY <2>1, <4>1
        <4> QED
          BY <4>1, <4>2 DEF Contains
      <3> QED
        BY <3>1, <3>2
    <2> QED
      BY <2>1, <2>2 DEF Contains, CharacterText
  <1>5. text = u \o z /\ text \in CharacterText /\ text # << >> /\ text[1] = Opening
    <2> HIDE DEF z
    <2>1. (<< Opening >> \o v) \o z = << Opening >> \o (v \o z)
      BY <1>2, <1>3, ConcatAssociative
    <2>2. v \o z \in Seq(Character)
      BY <1>2, <1>3, ConcatProperties
    <2> QED
      BY <1>1, <2>1, <2>2, Preceded DEF CharacterText
  <1>6. stop = Len(v) + 2
    <2> HIDE DEF u, text
    <2>1. Stop(u \o (<< Closing >> \o y), Closing) = Len(u) + 1
      BY <1>1, <1>3, <1>4, StopIs
    <2> QED
      BY <1>2, <1>4, <1>5, <2>1
  <1>7. SubSeq(text, 2, stop - 1) = v
    <2>1. Len(<< Opening >>) + 1 = 2 /\ Len(<< Opening >>) + Len(v) = stop - 1
      BY <1>2, <1>6
    <2> HIDE DEF z, stop
    <2>2. SubSeq(<< Opening >> \o (v \o z), Len(<< Opening >>) + 1, Len(<< Opening >>) + Len(v)) = v
      BY <1>2, <1>3, Between
    <2> QED
      BY <2>1, <2>2
  <1>8. SubSeq(text, stop + 1, Len(text)) = y
    <2> DEFINE p == u \o << Closing >>
    <2>1. p \in Seq(Character) /\ Len(p) = stop /\ text = p \o y
      <3> DEFINE c == << Closing >>
      <3>1. c \in Seq(Character) /\ Len(c) = 1
        BY <1>1
      <3> HIDE DEF u, c, text, stop
      <3>2. u \o c \in Seq(Character) /\ Len(u \o c) = Len(u) + Len(c)
        BY <1>4, <3>1, ConcatProperties
      <3>3. (u \o c) \o y = u \o (c \o y)
        BY <1>3, <1>4, <3>1, ConcatAssociative
      <3> QED
        BY <1>2, <1>4, <1>5, <1>6, <3>1, <3>2, <3>3 DEF c
    <2> HIDE DEF p, text, stop
    <2>2. SubSeq(p \o y, Len(p) + 1, Len(p \o y)) = y
      BY <1>3, <2>1, Halves
    <2> QED
      BY <2>1, <2>2
  <1> HIDE DEF text
  <1>9. CS!ValueAt(text) = CS!BracedValue(text)
    <2>1. CS!ValueAt(text) = IF text # << >> /\ text[1] = Opening THEN CS!BracedValue(text) ELSE CS!PlainValue(text)
      BY Zenon DEF CS!ValueAt, Opening
    <2> QED
      BY <1>5, <2>1
  <1>10. CS!BracedValue(text) = IF stop = 0 THEN CS!Failure("'}' expected")
                                ELSE CS!ValueBefore(SubSeq(text, 2, stop - 1), SubSeq(text, stop + 1, Len(text)))
    BY Zenon DEF CS!BracedValue, Stop, Closing
  <1>11. CS!ValueBefore(v, y) = [value |-> v, rest |-> CS!From(tail, Parting)]
    BY ValueEnds DEF y
  <1>12. stop # 0
    BY <1>2, <1>6
  <1> HIDE DEF stop, u, z
  <1>13. CS!ValueAt(text) = [value |-> v, rest |-> CS!From(tail, Parting)]
    BY <1>7, <1>8, <1>9, <1>10, <1>11, <1>12
  <1> QED
    BY <1>5, <1>13 DEF text, z, y

\* The value of a field and what follows it.
Body(v, b, braced, tail) ==
    IF braced THEN << Opening >> \o (v \o (<< Closing >> \o (b \o (<< Semicolon >> \o tail))))
    ELSE v \o (b \o (<< Semicolon >> \o tail))

\* The space before a value is enough for it to be told from the key.
CanStand(v, sp, braced) ==
    /\ v \in CharacterText /\ sp \in Spacing /\ braced \in BOOLEAN
    /\ braced => ~Contains(v, Closing)
    /\ ~braced => ~NeedsBraces(v) /\ ~(sp = << >> /\ Begins(v, Equals))

\* extract_key_value: a value that is written, braced or not, is read.
LEMMA BodyRead ==
    ASSUME NEW v, NEW sp, NEW braced, CanStand(v, sp, braced), NEW b \in Spacing, NEW tail \in CharacterText
    PROVE  LET more == sp \o Body(v, b, braced, tail)
           IN  /\ more \in CharacterText /\ ~Begins(more, Equals)
               /\ CS!KeyValue(more) = [value |-> v, rest |-> CS!From(tail, Parting)]
  <1> DEFINE y == << Semicolon >> \o tail
             t == Body(v, b, braced, tail)
             read == [value |-> v, rest |-> CS!From(tail, Parting)]
             S == {CS!Space}
  <1>1. /\ {Equals, Semicolon, Opening, Closing, CS!Space} \subseteq Character
        /\ Equals \notin {Semicolon, Opening, CS!Space} /\ Opening # CS!Space /\ Semicolon # CS!Space
    BY MarksAre
  <1>2. v \in CharacterText /\ sp \in Spacing /\ b \in CharacterText /\ sp \in CharacterText
    BY SpacingIs DEF CanStand
  <1>3. y \in CharacterText /\ y # << >> /\ y[1] = Semicolon
    BY <1>1, Preceded DEF CharacterText
  <1>4. b \o y \in CharacterText /\ b \o y # << >> /\ (b \o y)[1] \in {CS!Space, Semicolon} /\ CS!From(b \o y, S) = y
    <2> HIDE DEF y
    <2>1. b \o y \in CharacterText
      BY <1>2, <1>3, BeginsAs
    <2>2. CASE b = << >>
      <3>1. b \o y = y
        BY <1>3, <2>2, ConcatEmptySeq DEF CharacterText
      <3>2. y[1] \notin S
        BY <1>1, <1>3
      <3>3. CS!From(y, S) = y
        BY <1>3, <3>2, FromStops
      <3> QED
        BY <1>3, <2>1, <3>1, <3>3
    <2>3. CASE b = << CS!Space >>
      <3>1. b \o y # << >> /\ (b \o y)[1] = CS!Space
        <4>1. << CS!Space >> \o y # << >> /\ (<< CS!Space >> \o y)[1] = CS!Space
          BY <1>1, <1>3, Preceded DEF CharacterText
        <4> QED
          BY <2>3, <4>1
      <3>2. CS!From(b \o y, S) = CS!From(y, S)
        BY <1>3, SpacingIs
      <3>3. y[1] \notin S
        BY <1>1, <1>3
      <3>4. CS!From(y, S) = y
        BY <1>3, <3>3, FromStops
      <3> QED
        BY <2>1, <3>1, <3>2, <3>4
    <2> QED
      BY <2>2, <2>3 DEF Spacing
  <1>5. /\ t \in CharacterText /\ t # << >> /\ CS!ValueAt(CS!From(t, S)) = read
        /\ ~(sp = << >> /\ t[1] = Equals)
    <2>1. CASE braced
      <3> DEFINE text == << Opening >> \o (v \o (<< Closing >> \o (b \o (<< Semicolon >> \o tail))))
      <3>1. text \in CharacterText /\ text # << >> /\ text[1] = Opening /\ CS!ValueAt(text) = read
        <4>1. ~Contains(v, Closing)
          BY <2>1 DEF CanStand
        <4> QED
          BY <1>2, <4>1, BracedRead
      <3>2. t = text
        BY <2>1 DEF Body
      <3> HIDE DEF text, t
      <3>3. text[1] \notin S
        BY <1>1, <3>1
      <3>4. CS!From(text, S) = text
        BY <3>1, <3>3, FromStops
      <3> QED
        BY <1>1, <3>1, <3>2, <3>4
    <2>2. CASE ~braced /\ v = << >>
      <3> DEFINE e == << >> \o y
      <3>1. CS!ValueAt(v \o (<< >> \o (<< Semicolon >> \o tail))) = read
        <4>1. << >> \in Spacing /\ ~NeedsBraces(v)
          BY <2>2 DEF CanStand, Spacing
        <4> QED
          BY <1>2, <4>1, PlainRead
      <3>2. v \o (<< >> \o (<< Semicolon >> \o tail)) = y
        <4> HIDE DEF y
        <4>1. << >> \o y = y
          BY <1>3, ConcatEmptySeq DEF CharacterText
        <4>2. << >> \o (<< >> \o y) = y
          BY <4>1
        <4> QED
          BY <2>2, <4>2 DEF y
      <3>3. t = b \o y
        <4> DEFINE z == b \o y
        <4>1. t = v \o z
          BY <2>2 DEF Body
        <4> HIDE DEF z, t
        <4>2. << >> \o z = z
          BY <1>4, ConcatEmptySeq DEF z, CharacterText
        <4> QED
          BY <2>2, <4>1, <4>2 DEF z
      <3> HIDE DEF y, t, read
      <3> QED
        BY <1>1, <1>4, <3>1, <3>2, <3>3
    <2>3. CASE ~braced /\ v # << >>
      <3>1. ~NeedsBraces(v) /\ v[1] # CS!Space /\ ~(sp = << >> /\ v[1] = Equals)
        <4>1. ~NeedsBraces(v) /\ ~(sp = << >> /\ Begins(v, Equals))
          BY <2>3 DEF CanStand
        <4>2. v[1] # CS!Space
          BY <2>3, <4>1, NeedsNoBraces
        <4> QED
          BY <2>3, <4>1, <4>2 DEF Begins
      <3>2. t = v \o (b \o y)
        BY <2>3 DEF Body
      <3>3. CS!ValueAt(v \o (b \o y)) = read
        <4>1. CS!ValueAt(v \o (b \o (<< Semicolon >> \o tail))) = read
          BY <1>2, <2>3, <3>1, PlainRead
        <4> QED
          BY <4>1
      <3> HIDE DEF y, t, read
      <3>4. t \in CharacterText /\ t # << >> /\ t[1] = v[1]
        <4> DEFINE z == b \o y
        <4>1. z \in CharacterText
          BY <1>4
        <4> HIDE DEF z
        <4>2. v \o z \in CharacterText /\ v \o z # << >> /\ (v \o z)[1] = v[1]
          BY <1>2, <2>3, <4>1, BeginsAs
        <4> QED
          BY <3>2, <4>2 DEF z
      <3>5. t[1] \notin S
        BY <3>1, <3>4
      <3>6. CS!From(t, S) = t
        BY <3>4, <3>5, FromStops
      <3> QED
        BY <3>1, <3>2, <3>3, <3>4, <3>6
    <2> QED
      BY <2>1, <2>2, <2>3 DEF CanStand
  <1> HIDE DEF t, read, S
  <1>6. sp \o t \in CharacterText
    BY <1>2, <1>5, BeginsAs
  <1>7. ~Begins(sp \o t, Equals)
    <2>1. CASE sp = << >>
      <3>1. sp \o t = t
        BY <1>5, <2>1, ConcatEmptySeq DEF CharacterText
      <3> QED
        BY <1>5, <2>1, <3>1 DEF Begins
    <2>2. CASE sp = << CS!Space >>
      <3>1. (<< CS!Space >> \o t)[1] = CS!Space
        BY <1>1, <1>5, Preceded DEF CharacterText
      <3> QED
        BY <1>1, <2>2, <3>1 DEF Begins
    <2> QED
      BY <1>2, <2>1, <2>2 DEF Spacing
  <1>8. CS!KeyValue(sp \o t) = read
    <2>1. CS!From(sp \o t, S) = CS!From(t, S)
      <3>1. CS!Space \in S
        BY DEF S
      <3> QED
        BY <1>2, <1>5, <3>1, SpacingIs
    <2>2. CS!KeyValue(sp \o t) = CS!ValueAt(CS!From(sp \o t, S))
      BY Zenon DEF CS!KeyValue, S
    <2> QED
      BY <1>5, <2>1, <2>2
  <1> QED
    BY <1>6, <1>7, <1>8 DEF t, read

\* A field as it is written, and what its reading does to those already read.
FieldWith(key, v, b, sp, braced, tail) == Doubled(key) \o (b \o (<< Equals >> \o (sp \o Body(v, b, braced, tail))))

Added(fields, key, v) == IF CS!Stays(fields, key) THEN fields ELSE CS!With(fields, CS!Fold(key), v)

\* A turn over the fields reads the field that is written.
LEMMA FieldFound ==
    ASSUME NEW key \in CharacterText, CanBeKey(key), NEW v, NEW sp, NEW braced, CanStand(v, sp, braced),
           NEW b \in Spacing, NEW tail \in CharacterText
    PROVE  LET text == FieldWith(key, v, b, sp, braced, tail)
           IN  /\ text \in CharacterText /\ text # << >> /\ text[1] \notin Parting
               /\ \A fields : CS!Field(text, fields) = [rest |-> CS!From(tail, Parting), fields |-> Added(fields, key, v)]
  <1> DEFINE more == sp \o Body(v, b, braced, tail)
             text == Doubled(key) \o (b \o (<< Equals >> \o more))
             k == CS!KeyName(text)
             w == CS!KeyValue(k.rest)
  <1>1. more \in CharacterText /\ ~Begins(more, Equals) /\ CS!KeyValue(more) = [value |-> v, rest |-> CS!From(tail, Parting)]
    BY BodyRead
  <1> HIDE DEF more
  <1>2. /\ text \in CharacterText /\ text # << >> /\ text[1] \notin {CS!Space, Semicolon}
        /\ k = [key |-> key, rest |-> more]
    BY <1>1, KeyNameFound
  <1> HIDE DEF text
  <1>3. k.key = key /\ ~CS!Failed(k) /\ w = [value |-> v, rest |-> CS!From(tail, Parting)] /\ ~CS!Failed(w)
    <2>1. k.key = key /\ k.rest = more
      BY <1>2
    <2>2. ~CS!Failed(k)
      BY <1>2, Outcomes
    <2> HIDE DEF k
    <2>3. w = [value |-> v, rest |-> CS!From(tail, Parting)]
      BY <1>1, <2>1
    <2> HIDE DEF w
    <2>4. ~CS!Failed(w)
      BY <2>3, Outcomes
    <2> QED
      BY <2>1, <2>2, <2>3, <2>4
  <1>4. w.value = v /\ w.rest = CS!From(tail, Parting)
    <2> HIDE DEF w
    <2> QED
      BY <1>3
  <1>5. ASSUME NEW fields
        PROVE  CS!Field(text, fields) = [rest |-> CS!From(tail, Parting), fields |-> Added(fields, key, v)]
    <2>1. CS!Field(text, fields) = IF CS!Failed(k) THEN k
                                   ELSE IF CS!Failed(w) THEN w
                                   ELSE [rest |-> w.rest, fields |-> Added(fields, k.key, w.value)]
      BY Zenon DEF CS!Field, Added
    <2> HIDE DEF k, w
    <2> QED
      BY <1>3, <1>4, <2>1
  <1> QED
    BY <1>2, <1>5 DEF FieldWith, text, more, Parting

\* The keys of the driver that exclude each other are different.
LEMMA SidedIs == CS!DSN # CS!FILEDSN /\ CS!DSN # CS!DRIVER /\ Sided = {CS!DSN, CS!FILEDSN, CS!DRIVER}
  <1>1. << "DSN" >>[1] = "DSN" /\ << "FILEDSN" >>[1] = "FILEDSN" /\ << "DRIVER" >>[1] = "DRIVER"
    OBVIOUS
  <1>2. "DSN" # "FILEDSN" /\ "DSN" # "DRIVER"
    OBVIOUS
  <1>3. << "DSN" >> # << "FILEDSN" >> /\ << "DSN" >> # << "DRIVER" >>
    BY <1>1, <1>2, Zenon
  <1> QED
    BY <1>3, Zenon DEF Sided, CS!DSN, CS!FILEDSN, CS!DRIVER

IsMap(F) == F = [x \in DOMAIN F |-> F[x]]

\* One more field, added to those read.
AddedAs(F, key, v, G) ==
    /\ CS!Stays(F, key) => G = F
    /\ ~CS!Stays(F, key) =>
          /\ DOMAIN G = DOMAIN F \cup {CS!Fold(key)} /\ IsMap(G)
          /\ \A x \in DOMAIN F : G[x] = F[x]
          /\ CS!Fold(key) \notin DOMAIN F /\ G[CS!Fold(key)] = v

\* What a field changes of those read before it.
LEMMA AddedIs ==
    ASSUME NEW F, NEW key, NEW v
    PROVE  AddedAs(F, key, v, Added(F, key, v))
  <1> DEFINE d == CS!Fold(key)
             G == [x \in DOMAIN F \cup {d} |-> IF x = d THEN v ELSE F[x]]
  <1>2. Added(F, key, v) = IF CS!Stays(F, key) THEN F ELSE G
    BY Zenon DEF Added, CS!With
  <1> HIDE DEF d
  <1>3. ~CS!Stays(F, key) => Added(F, key, v) = G
    BY <1>2
  <1>4. /\ DOMAIN G = DOMAIN F \cup {d} /\ IsMap(G) /\ G[d] = v
        /\ d \notin DOMAIN F => \A x \in DOMAIN F : G[x] = F[x]
    BY DEF IsMap
  <1>5. ~CS!Stays(F, key) => d \notin DOMAIN F
    BY Zenon DEF CS!Stays, d
  <1> HIDE DEF G
  <1> QED
    BY <1>2, <1>3, <1>4, <1>5 DEF d, AddedAs

\* What the first i of pairs leave.
FoldedKey(pairs, j) == CS!Fold(pairs[j][1])
KeysTo(pairs, i)    == {FoldedKey(pairs, j) : j \in 1 .. i}
ShutBy(x)           == IF x = CS!DSN THEN {CS!FILEDSN, CS!DRIVER} ELSE {CS!DSN}
FirstWith(pairs, ks, m, i) == m \in 1 .. i /\ FoldedKey(pairs, m) \in ks /\ \A l \in 1 .. m - 1 : FoldedKey(pairs, l) \notin ks

KeptBy(F, pairs, i) ==
    /\ IsMap(F)
    /\ \A x \in DOMAIN F : \E j \in 1 .. i : FirstWith(pairs, {x}, j, i) /\ F[x] = pairs[j][2]
    /\ (\A j \in 1 .. i : FoldedKey(pairs, j) \notin Sided) => DOMAIN F = KeysTo(pairs, i)
    /\ \A m \in 1 .. i : FirstWith(pairs, Sided, m, i) => DOMAIN F = KeysTo(pairs, i) \ ShutBy(FoldedKey(pairs, m))

\* After one pair more the fields are still those the pairs keep.
LEMMA KeptGoesOn ==
    ASSUME NEW F, NEW pairs, NEW i \in Nat, KeptBy(F, pairs, i)
    PROVE  KeptBy(Added(F, pairs[i + 1][1], pairs[i + 1][2]), pairs, i + 1)
  <1> DEFINE n == i + 1
             x == FoldedKey(pairs, n)
             v == pairs[n][2]
             G == Added(F, pairs[n][1], v)
             Stay == CS!Stays(F, pairs[n][1])
             K == KeysTo(pairs, i)
  <1>1. n \in Nat /\ n \in 1 .. n /\ n - 1 = i /\ \A j : j \in 1 .. n <=> j \in 1 .. i \/ j = n
    OBVIOUS
  <1>2. x = CS!Fold(pairs[n][1])
    BY DEF FoldedKey
  <1>3. KeysTo(pairs, n) = K \cup {x}
    BY <1>1 DEF KeysTo
  <1>4. /\ IsMap(F)
        /\ \A y \in DOMAIN F : \E j \in 1 .. i : FirstWith(pairs, {y}, j, i) /\ F[y] = pairs[j][2]
        /\ (\A j \in 1 .. i : FoldedKey(pairs, j) \notin Sided) => DOMAIN F = K
        /\ \A m \in 1 .. i : FirstWith(pairs, Sided, m, i) => DOMAIN F = K \ ShutBy(FoldedKey(pairs, m))
    BY DEF KeptBy
  <1>5. \A ks, j : FirstWith(pairs, ks, j, i) => FirstWith(pairs, ks, j, n)
    BY <1>1 DEF FirstWith
  <1>6. Stay <=> \/ x \in DOMAIN F
                 \/ x = CS!DSN /\ {CS!FILEDSN, CS!DRIVER} \cap DOMAIN F # {}
                 \/ x \in {CS!FILEDSN, CS!DRIVER} /\ CS!DSN \in DOMAIN F
    BY <1>2, Zenon DEF CS!Stays
  <1>7. /\ Stay => G = F
        /\ ~Stay => /\ DOMAIN G = DOMAIN F \cup {x} /\ IsMap(G)
                    /\ (\A y \in DOMAIN F : G[y] = F[y]) /\ x \notin DOMAIN F /\ G[x] = v
    <2> DEFINE key == pairs[n][1]
               H == Added(F, key, v)
    <2> HIDE DEF key, v
    <2>1. AddedAs(F, key, v, H)
      BY AddedIs
    <2>2. G = H /\ x = CS!Fold(key) /\ (Stay <=> CS!Stays(F, key))
      BY <1>2 DEF key
    <2> HIDE DEF G, H, x, Stay
    <2> QED
      BY <2>1, <2>2 DEF AddedAs
  <1>8. DOMAIN F \subseteq K
    BY <1>4 DEF FirstWith, KeysTo
  <1> HIDE DEF x, v, G, Stay, n, K
  <1>9. IsMap(G)
    BY <1>4, <1>7
  <1>10. ~Stay => x \notin K
    <2> SUFFICES ASSUME ~Stay, x \in K
                 PROVE  FALSE
      OBVIOUS
    <2>1. x \notin DOMAIN F
      BY <1>6
    <2>2. PICK m \in 1 .. i : FirstWith(pairs, Sided, m, i) /\ x \in ShutBy(FoldedKey(pairs, m))
      <3>1. ~(\A j \in 1 .. i : FoldedKey(pairs, j) \notin Sided)
        BY <1>4, <2>1
      <3>2. \E m \in 1 .. i : FirstWith(pairs, Sided, m, i)
        <4> DEFINE I == {j \in 1 .. i : FoldedKey(pairs, j) \in Sided}
        <4>1. I \in SUBSET Nat /\ I # {}
          BY <3>1
        <4> HIDE DEF I
        <4>2. PICK m \in I : \A j \in I : m <= j
          BY <4>1, LeastNumber
        <4>3. m \in 1 .. i /\ FoldedKey(pairs, m) \in Sided /\ \A l \in 1 .. m - 1 : FoldedKey(pairs, l) \notin Sided
          <5>1. m \in 1 .. i /\ FoldedKey(pairs, m) \in Sided
            BY DEF I
          <5>2. \A l \in 1 .. m - 1 : l \in 1 .. i /\ ~(m <= l)
            BY <5>1
          <5> QED
            BY <4>2, <5>1, <5>2 DEF I
        <4> QED
          BY <4>3 DEF FirstWith
      <3> QED
        BY <1>4, <2>1, <3>2
    <2>3. DOMAIN F = K \ ShutBy(FoldedKey(pairs, m)) /\ FoldedKey(pairs, m) \in Sided /\ FoldedKey(pairs, m) \in K
      BY <1>4, <2>2 DEF FirstWith, K, KeysTo
    <2>4. FoldedKey(pairs, m) \notin ShutBy(FoldedKey(pairs, m))
      BY SidedIs DEF ShutBy
    <2>5. FoldedKey(pairs, m) \in DOMAIN F
      BY <2>3, <2>4
    <2> QED
      BY <1>6, <2>2, <2>3, <2>5, SidedIs DEF ShutBy
  <1>11. \A y \in DOMAIN G : \E j \in 1 .. n : FirstWith(pairs, {y}, j, n) /\ G[y] = pairs[j][2]
    <2> TAKE y \in DOMAIN G
    <2>1. CASE y \in DOMAIN F
      <3>1. PICK j \in 1 .. i : FirstWith(pairs, {y}, j, i) /\ F[y] = pairs[j][2]
        BY <1>4, <2>1
      <3> QED
        BY <1>1, <1>5, <1>7, <2>1, <3>1
    <2>2. CASE y \notin DOMAIN F
      <3>1. ~Stay /\ y = x /\ G[y] = v
        BY <1>7, <2>2
      <3>2. \A l \in 1 .. n - 1 : FoldedKey(pairs, l) # x
        BY <1>1, <1>10, <3>1 DEF K, KeysTo
      <3>3. FirstWith(pairs, {y}, n, n)
        BY <1>1, <3>1, <3>2 DEF FirstWith, x
      <3> QED
        BY <1>1, <3>1, <3>3 DEF v
    <2> QED
      BY <2>1, <2>2
  <1>12. ASSUME \A j \in 1 .. n : FoldedKey(pairs, j) \notin Sided
         PROVE  DOMAIN G = KeysTo(pairs, n)
    <2>1. x \notin Sided /\ DOMAIN F = K
      BY <1>1, <1>4, <1>12 DEF x
    <2>2. Stay <=> x \in DOMAIN F
      BY <1>6, <2>1, SidedIs
    <2> QED
      BY <1>3, <1>7, <2>1, <2>2
  <1>13. ASSUME NEW m \in 1 .. n, FirstWith(pairs, Sided, m, n)
         PROVE  DOMAIN G = KeysTo(pairs, n) \ ShutBy(FoldedKey(pairs, m))
    <2>1. CASE m = n
      <3>1. x \in Sided /\ DOMAIN F = K /\ \A y \in K : y \notin Sided
        <4>1. \A j \in 1 .. i : FoldedKey(pairs, j) \notin Sided
          BY <1>1, <1>13, <2>1 DEF FirstWith
        <4>2. x \in Sided
          BY <1>13, <2>1 DEF FirstWith, x
        <4> QED
          BY <1>4, <4>1, <4>2 DEF K, KeysTo
      <3>2. ~Stay
        BY <1>6, <3>1, SidedIs
      <3>3. DOMAIN G = K \cup {x}
        BY <1>7, <3>1, <3>2
      <3>4. \A y \in ShutBy(x) : y \in Sided /\ y # x
        BY <3>1, SidedIs DEF ShutBy
      <3>5. FoldedKey(pairs, m) = x
        BY <2>1 DEF x
      <3> QED
        BY <1>3, <3>1, <3>3, <3>4, <3>5
    <2>2. CASE m # n
      <3> DEFINE z == FoldedKey(pairs, m)
      <3>1. m \in 1 .. i /\ FirstWith(pairs, Sided, m, i) /\ z \in Sided /\ z \in K
        <4>1. m \in 1 .. i
          BY <1>1, <2>2
        <4> QED
          BY <1>13, <4>1 DEF FirstWith, K, KeysTo
      <3>2. DOMAIN F = K \ ShutBy(z)
        BY <1>4, <3>1
      <3> HIDE DEF z
      <3>3. CASE x \in ShutBy(z)
        <4>1. Stay
          BY <1>6, <3>1, <3>2, <3>3, SidedIs DEF ShutBy
        <4> QED
          BY <1>3, <1>7, <3>2, <3>3, <4>1 DEF z
      <3>4. CASE x \notin ShutBy(z)
        <4>1. Stay => x \in DOMAIN F
          BY <1>6, <3>1, <3>2, <3>4, SidedIs DEF ShutBy
        <4> QED
          BY <1>3, <1>7, <3>2, <3>4, <4>1 DEF z
      <3> QED
        BY <3>3, <3>4
    <2> QED
      BY <2>1, <2>2
  <1>14. KeptBy(G, pairs, n)
    BY <1>9, <1>11, <1>12, <1>13 DEF KeptBy
  <1> QED
    BY <1>14 DEF G, v, n

FirstOf(pairs, ks) ==
    CHOOSE m \in DOMAIN pairs : FoldedKey(pairs, m) \in ks /\ \A j \in DOMAIN pairs : FoldedKey(pairs, j) \in ks => m <= j

\* The first pair with one of some keys, chosen or described.
LEMMA FirstIs ==
    ASSUME NEW pairs, NEW n \in Nat, DOMAIN pairs = 1 .. n, NEW ks
    PROVE  /\ \A m : FirstWith(pairs, ks, m, n) => FirstOf(pairs, ks) = m
           /\ (\E j \in 1 .. n : FoldedKey(pairs, j) \in ks) => FirstWith(pairs, ks, FirstOf(pairs, ks), n)
  <1> DEFINE P(m) == FoldedKey(pairs, m) \in ks /\ \A j \in DOMAIN pairs : FoldedKey(pairs, j) \in ks => m <= j
             c == FirstOf(pairs, ks)
  <1>1. (\E m \in DOMAIN pairs : P(m)) => c \in DOMAIN pairs /\ P(c)
    BY DEF FirstOf
  <1>2. ASSUME NEW m, FirstWith(pairs, ks, m, n)
        PROVE  m \in DOMAIN pairs /\ P(m)
    <2>1. m \in 1 .. n /\ FoldedKey(pairs, m) \in ks /\ \A l \in 1 .. m - 1 : FoldedKey(pairs, l) \notin ks
      BY <1>2 DEF FirstWith
    <2>2. \A j \in 1 .. n : j \in 1 .. m - 1 \/ m <= j
      BY <2>1
    <2> QED
      BY <2>1, <2>2
  <1>3. ASSUME NEW m \in DOMAIN pairs, P(m)
        PROVE  FirstWith(pairs, ks, m, n)
    <2>1. \A l \in 1 .. m - 1 : l \in 1 .. n /\ ~(m <= l)
      OBVIOUS
    <2> QED
      BY <1>3, <2>1 DEF FirstWith
  <1>4. ASSUME NEW m, FirstWith(pairs, ks, m, n)
        PROVE  c = m
    <2>1. c \in DOMAIN pairs /\ P(c) /\ m \in DOMAIN pairs /\ P(m)
      BY <1>1, <1>2, <1>4
    <2>2. c \in 1 .. n /\ m \in 1 .. n /\ c <= m /\ m <= c
      BY <2>1
    <2> HIDE DEF c
    <2> QED
      BY <2>2
  <1>5. ASSUME \E j \in 1 .. n : FoldedKey(pairs, j) \in ks
        PROVE  FirstWith(pairs, ks, c, n)
    <2> DEFINE I == {j \in 1 .. n : FoldedKey(pairs, j) \in ks}
    <2>1. I \in SUBSET Nat /\ I # {}
      BY <1>5
    <2> HIDE DEF I
    <2>2. PICK m \in I : \A j \in I : m <= j
      BY <2>1, LeastNumber
    <2>3. m \in DOMAIN pairs /\ P(m)
      BY <2>2 DEF I
    <2>4. c \in DOMAIN pairs /\ P(c)
      BY <1>1, <2>3
    <2> HIDE DEF c
    <2> QED
      BY <1>3, <2>4
  <1> QED
    BY <1>4, <1>5

ShutOf(pairs) ==
    IF Sided \cap {FoldedKey(pairs, i) : i \in DOMAIN pairs} = {} THEN {} ELSE ShutBy(FoldedKey(pairs, FirstOf(pairs, Sided)))

\* The fields that stay, put in terms of the above.
LEMMA KeptUnfolds ==
    ASSUME NEW pairs
    PROVE  Kept(pairs) = [k \in {FoldedKey(pairs, i) : i \in DOMAIN pairs} \ ShutOf(pairs) |-> pairs[FirstOf(pairs, {k})][2]]
  BY DEF Kept, ShutOf, ShutBy, FirstOf, FoldedKey

\* After all the pairs the fields are those that stay.
LEMMA KeptAll ==
    ASSUME NEW F, NEW pairs, NEW n \in Nat, DOMAIN pairs = 1 .. n, KeptBy(F, pairs, n)
    PROVE  F = Kept(pairs)
  <1> DEFINE keys == {FoldedKey(pairs, i) : i \in DOMAIN pairs}
             value(k) == pairs[FirstOf(pairs, {k})][2]
  <1>1. Kept(pairs) = [k \in keys \ ShutOf(pairs) |-> value(k)]
    BY KeptUnfolds
  <1>2. keys = KeysTo(pairs, n)
    BY DEF KeysTo
  <1>3. DOMAIN F = keys \ ShutOf(pairs)
    <2>1. CASE Sided \cap keys = {}
      <3>1. \A j \in 1 .. n : FoldedKey(pairs, j) \notin Sided
        BY <2>1
      <3>2. DOMAIN F = KeysTo(pairs, n)
        BY <3>1 DEF KeptBy
      <3>3. ShutOf(pairs) = {}
        BY <2>1 DEF ShutOf
      <3> QED
        BY <1>2, <3>2, <3>3
    <2>2. CASE Sided \cap keys # {}
      <3> DEFINE m == FirstOf(pairs, Sided)
      <3>1. FirstWith(pairs, Sided, m, n)
        <4>1. \E j \in 1 .. n : FoldedKey(pairs, j) \in Sided
          BY <2>2
        <4> QED
          BY <4>1, FirstIs
      <3>2. ShutOf(pairs) = ShutBy(FoldedKey(pairs, m))
        BY <2>2 DEF ShutOf
      <3> HIDE DEF m
      <3>3. m \in 1 .. n
        BY <3>1 DEF FirstWith
      <3>4. DOMAIN F = KeysTo(pairs, n) \ ShutBy(FoldedKey(pairs, m))
        BY <3>1, <3>3 DEF KeptBy
      <3> QED
        BY <1>2, <3>2, <3>4
    <2> QED
      BY <2>1, <2>2
  <1>4. ASSUME NEW k \in DOMAIN F
        PROVE  F[k] = value(k)
    <2>1. PICK j \in 1 .. n : FirstWith(pairs, {k}, j, n) /\ F[k] = pairs[j][2]
      BY DEF KeptBy
    <2>2. FirstOf(pairs, {k}) = j
      BY <2>1, FirstIs
    <2> QED
      BY <2>1, <2>2
  <1>5. F = [k \in DOMAIN F |-> F[k]]
    BY DEF KeptBy, IsMap
  <1> HIDE DEF keys, value
  <1> QED
    BY <1>1, <1>3, <1>4, <1>5

\* The beginning of a text.
LEMMA Beginning ==
    ASSUME NEW s \in CharacterText, NEW i \in 0 .. Len(s)
    PROVE  /\ SubSeq(s, 1, i) \in CharacterText /\ Len(SubSeq(s, 1, i)) = i
           /\ \A j \in 1 .. i : SubSeq(s, 1, i)[j] = s[j]
           /\ \A c : ~Contains(s, c) => ~Contains(SubSeq(s, 1, i), c)
           /\ \A c : (\A j \in 1 .. i : s[j] # c) => ~Contains(SubSeq(s, 1, i), c)
  <1> DEFINE t == SubSeq(s, 1, i)
  <1>1. Len(s) \in Nat /\ i \in Nat /\ i <= Len(s) /\ \A j \in 1 .. i : j \in 1 .. Len(s)
    BY LenProperties DEF CharacterText
  <1>2. \A j \in 1 .. i : s[j] \in Character
    BY <1>1, ElementOfSeq DEF CharacterText
  <1>3. t \in Seq(Character) /\ Len(t) = (IF 1 <= i THEN i - 1 + 1 ELSE 0) /\ \A j \in 1 .. i - 1 + 1 : t[j] = s[1 + j - 1]
    BY <1>1, <1>2, SubSeqProperties
  <1> HIDE DEF t
  <1>4. Len(t) = i /\ \A j \in 1 .. i : t[j] = s[j]
    BY <1>1, <1>3
  <1>5. \A c : (\A j \in 1 .. i : s[j] # c) => ~Contains(t, c)
    BY <1>4 DEF Contains
  <1>6. \A c : ~Contains(s, c) => \A j \in 1 .. i : s[j] # c
    BY <1>1 DEF Contains
  <1> QED
    BY <1>3, <1>4, <1>5, <1>6 DEF t, CharacterText

\* Trimming adds nothing and leaves no space at the end.
LEMMA TrimRightGives ==
    ASSUME NEW s \in CharacterText
    PROVE  /\ CS!TrimRight(s) \in CharacterText
           /\ CS!TrimRight(s) # << >> =>
                 s # << >> /\ CS!TrimRight(s)[1] = s[1] /\ CS!TrimRight(s)[Len(CS!TrimRight(s))] # CS!Space
           /\ \A c : ~Contains(s, c) => ~Contains(CS!TrimRight(s), c)
  <1> DEFINE t == CS!TrimRight(s)
             n == Len(s)
  <1>1. n \in Nat
    BY LenProperties DEF CharacterText
  <1>2. CASE \A j \in 1 .. n : s[j] = CS!Space
    <2>1. t = SubSeq(s, 1, 0) /\ 0 \in 0 .. n
      BY <1>1, <1>2, TrimAt
    <2>2. SubSeq(s, 1, 0) = << >>
      BY SubSeqEmpty
    <2>3. << >> \in CharacterText
      BY EmptySeq DEF CharacterText
    <2>4. \A c : ~Contains(<< >>, c)
      BY DEF Contains
    <2>5. t = << >>
      BY <2>1, <2>2
    <2>6. \A c : ~Contains(t, c)
      BY <2>4, <2>5
    <2>7. t \in CharacterText
      BY <2>3, <2>5
    <2> HIDE DEF t
    <2> QED
      BY <2>5, <2>6, <2>7 DEF t
  <1>3. ASSUME NEW i \in 1 .. n, s[i] # CS!Space, \A j \in i + 1 .. n : s[j] = CS!Space
        PROVE  /\ t \in CharacterText /\ s # << >> /\ t[1] = s[1] /\ t[Len(t)] # CS!Space
               /\ \A c : ~Contains(s, c) => ~Contains(t, c)
    <2>1. t = SubSeq(s, 1, i)
      BY <1>1, <1>3, TrimAt
    <2>2. i \in 0 .. n /\ 1 \in 1 .. i /\ i \in 1 .. i
      BY <1>1
    <2>3. s # << >>
      BY <1>1, EmptySeq DEF CharacterText
    <2> DEFINE u == SubSeq(s, 1, i)
    <2>4. u \in CharacterText /\ Len(u) = i /\ (\A j \in 1 .. i : u[j] = s[j]) /\ \A c : ~Contains(s, c) => ~Contains(u, c)
      BY <2>2, Beginning
    <2> HIDE DEF t, u
    <2> QED
      BY <1>3, <2>1, <2>2, <2>3, <2>4 DEF u
  <1>4. (\A j \in 1 .. n : s[j] = CS!Space) \/ \E i \in 1 .. n : s[i] # CS!Space /\ \A j \in i + 1 .. n : s[j] = CS!Space
    <2> DEFINE I == {n - i : i \in {i \in 1 .. n : s[i] # CS!Space}}
    <2>1. ASSUME NEW a \in 1 .. n, s[a] # CS!Space
          PROVE  \E i \in 1 .. n : s[i] # CS!Space /\ \A j \in i + 1 .. n : s[j] = CS!Space
      <3>1. I \in SUBSET Nat /\ n - a \in I
        BY <1>1, <2>1
      <3>2. PICK k \in I : \A j \in I : k <= j
        <4> HIDE DEF I
        <4> QED
          BY <3>1, LeastNumber
      <3>3. PICK i \in 1 .. n : s[i] # CS!Space /\ k = n - i
        OBVIOUS
      <3>4. \A j \in i + 1 .. n : s[j] = CS!Space
        <4> SUFFICES ASSUME NEW j \in i + 1 .. n, s[j] # CS!Space
                     PROVE  FALSE
          OBVIOUS
        <4>1. j \in 1 .. n /\ n - j \in I
          BY <1>1
        <4>2. n - i <= n - j
          BY <3>2, <3>3, <4>1
        <4> QED
          BY <1>1, <4>2
      <3> QED
        BY <3>3, <3>4
    <2> QED
      BY <2>1
  <1> QED
    BY <1>2, <1>3, <1>4

\* What the loop that reads a key holds: text is where it began.
KeyGood(s, text) ==
    /\ s \in KeyState /\ ~Contains(s.key, Semicolon)
    /\ s.key # << >> => s.key[1] # CS!Space
    /\ s.key = << >> /\ ~s.met => s.rest = text

\* A character more leaves a key without semicolon and without a space in front.
LEMMA KeyGrows ==
    ASSUME NEW key \in CharacterText, NEW c \in Character, c # Semicolon, ~Contains(key, Semicolon),
           key # << >> => key[1] # CS!Space, key = << >> => c # CS!Space
    PROVE  /\ ~Contains(Append(key, c), Semicolon) /\ Append(key, c) # << >> /\ Append(key, c)[1] # CS!Space
  <1> DEFINE t == Append(key, c)
             n == Len(key)
  <1>1. n \in Nat /\ t \in Seq(Character) /\ Len(t) = n + 1 /\ t[n + 1] = c /\ \A i \in 1 .. n : t[i] = key[i]
    BY AppendProperties, LenProperties DEF CharacterText
  <1>2. (key = << >> => n = 0) /\ (key # << >> => n # 0)
    BY EmptySeq DEF CharacterText
  <1> HIDE DEF t
  <1>3. t # << >>
    BY <1>1, EmptySeq
  <1>4. t[1] # CS!Space
    <2>1. CASE key = << >>
      <3>1. n + 1 = 1
        BY <1>2, <2>1
      <3> QED
        BY <1>1, <2>1, <3>1
    <2>2. CASE key # << >>
      <3>1. 1 \in 1 .. n
        BY <1>1, <1>2, <2>2
      <3> QED
        BY <1>1, <2>2, <3>1
    <2> QED
      BY <2>1, <2>2
  <1>5. ASSUME NEW i \in 1 .. Len(t)
        PROVE  t[i] # Semicolon
    <2>1. i \in 1 .. n \/ i = n + 1
      BY <1>1
    <2>2. \A j \in 1 .. n : key[j] # Semicolon
      BY DEF Contains
    <2> HIDE DEF n
    <2> QED
      BY <1>1, <2>1, <2>2
  <1> QED
    BY <1>3, <1>4, <1>5 DEF t, Contains

\* Each turn of extract_key_name leaves a key that can be written.
LEMMA KeyGoesOn ==
    ASSUME NEW text \in CharacterText, text # << >>, text[1] \notin Parting, NEW s, KeyGood(s, text)
    PROVE  KeyGood(CS!KeyTurn(s), text)
  <1> DEFINE r == s.rest
             k == s.key
             t == CS!KeyTurn(s)
  <1>1. s \in KeyState /\ r \in CharacterText /\ k \in CharacterText /\ s.met \in BOOLEAN /\ ~Contains(k, Semicolon)
        /\ (k # << >> => k[1] # CS!Space) /\ (k = << >> /\ ~s.met => r = text)
    BY DEF KeyGood, KeyState
  <1>2. t \in KeyState
    BY <1>1, KeyTurnIs
  <1>3. CASE s.met \/ r = << >> \/ r[1] = Semicolon
    <2>1. t = s
      BY <1>1, <1>3, KeyTurnIs
    <2> QED
      BY <2>1
  <1>4. CASE ~s.met /\ r # << >> /\ r[1] \notin {Semicolon, Equals}
    <2>1. t = [rest |-> Tail(r), key |-> Append(k, r[1]), met |-> FALSE]
      BY <1>1, <1>4, KeyTurnIs
    <2>2. r[1] \in Character /\ (k = << >> => r[1] # CS!Space)
      <3>1. r[1] \in Character
        BY <1>1, <1>4, Ahead DEF CharacterText
      <3> QED
        BY <1>1, <1>4, <3>1 DEF Parting
    <2>3. ~Contains(Append(k, r[1]), Semicolon) /\ Append(k, r[1]) # << >> /\ Append(k, r[1])[1] # CS!Space
      <3> HIDE DEF k, r
      <3> QED
        BY <1>1, <1>4, <2>2, KeyGrows
    <2> DEFINE a == Append(k, r[1])
    <2>4. t.key = a
      BY <2>1
    <2>5. ~Contains(a, Semicolon) /\ a # << >> /\ a[1] # CS!Space
      BY <2>3
    <2> HIDE DEF t, k, r, a
    <2>6. ~Contains(t.key, Semicolon)
      BY <2>4, <2>5
    <2>7. t.key # << >> /\ t.key[1] # CS!Space
      BY <2>4, <2>5
    <2> QED
      BY <1>2, <2>6, <2>7 DEF KeyGood, t
  <1>5. CASE ~s.met /\ r # << >> /\ r[1] = Equals /\ Tail(r) # << >> /\ Tail(r)[1] = Equals
    <2>1. t = [rest |-> Tail(Tail(r)), key |-> Append(k, Equals), met |-> FALSE]
      BY <1>1, <1>5, KeyTurnIs
    <2>2. Equals \in Character /\ Equals # CS!Space /\ Equals # Semicolon
      BY MarksAre
    <2>3. ~Contains(Append(k, Equals), Semicolon) /\ Append(k, Equals) # << >> /\ Append(k, Equals)[1] # CS!Space
      <3> HIDE DEF k
      <3> QED
        BY <1>1, <2>2, KeyGrows
    <2> DEFINE a == Append(k, Equals)
    <2>4. t.key = a
      BY <2>1
    <2>5. ~Contains(a, Semicolon) /\ a # << >> /\ a[1] # CS!Space
      BY <2>3
    <2> HIDE DEF t, k, r, a
    <2>6. ~Contains(t.key, Semicolon)
      BY <2>4, <2>5
    <2>7. t.key # << >> /\ t.key[1] # CS!Space
      BY <2>4, <2>5
    <2> QED
      BY <1>2, <2>6, <2>7 DEF KeyGood, t
  <1>6. CASE ~s.met /\ r # << >> /\ r[1] = Equals /\ (Tail(r) = << >> \/ Tail(r)[1] # Equals)
    <2>1. t = [rest |-> Tail(r), key |-> k, met |-> TRUE]
      BY <1>1, <1>6, KeyTurnIs
    <2>2. t.key = k /\ t.met = TRUE
      BY <2>1
    <2>3. ~Contains(k, Semicolon) /\ (k # << >> => k[1] # CS!Space)
      BY <1>1
    <2> HIDE DEF t, k, r
    <2>4. ~Contains(t.key, Semicolon) /\ (t.key # << >> => t.key[1] # CS!Space)
      BY <2>2, <2>3
    <2> QED
      BY <1>2, <2>2, <2>4 DEF KeyGood, t
  <1> QED
    BY <1>1, <1>3, <1>4, <1>5, <1>6

\* So does the last.
LEMMA KeyReadGives ==
    ASSUME NEW text \in CharacterText, text # << >>, text[1] \notin Parting
    PROVE  KeyGood(CS!KeyRead(text), text)
  <1> DEFINE n == Len(text)
  <1>1. PICK f \in [0 .. n -> KeyState] :
           /\ CS!KeyRead(text) = f[n]
           /\ f[0] = [rest |-> text, key |-> << >>, met |-> FALSE]
           /\ \A i \in 1 .. n : f[i] = CS!KeyTurn(f[i - 1])
    BY KeyReadUnfolds
  <1>2. n \in Nat
    BY LenProperties DEF CharacterText
  <1> HIDE DEF n
  <1> DEFINE K == {i \in 0 .. n : KeyGood(f[i], text)}
  <1>3. 0 \in K
    <2> DEFINE s == f[0]
    <2>3. 0 \in 0 .. n
      BY <1>2
    <2>4. s \in KeyState
      BY <2>3
    <2>5. s = [rest |-> text, key |-> << >>, met |-> FALSE]
      BY <1>1
    <2> HIDE DEF s
    <2>1. s.key = << >> /\ s.rest = text
      BY <2>5
    <2>2. ~Contains(<< >>, Semicolon)
      BY DEF Contains
    <2>6. KeyGood(s, text)
      BY <2>1, <2>2, <2>4 DEF KeyGood
    <2> QED
      BY <2>3, <2>6 DEF s
  <1>4. ASSUME NEW i \in 0 .. n, i \in K, i < n
        PROVE  i + 1 \in K
    <2>1. i + 1 \in 1 .. n /\ i + 1 \in 0 .. n /\ (i + 1) - 1 = i
      BY <1>2, <1>4
    <2>2. f[i + 1] = CS!KeyTurn(f[i])
      BY <1>1, <2>1
    <2>3. KeyGood(CS!KeyTurn(f[i]), text)
      BY <1>4, KeyGoesOn
    <2> QED
      BY <2>1, <2>2, <2>3
  <1>5. n \in K
    <2> HIDE DEF K
    <2>1. \A i \in 0 .. n : i \in K
      BY <1>2, <1>3, <1>4, Onward
    <2> QED
      BY <1>2, <2>1
  <1> QED
    BY <1>1, <1>5

\* What ends the reading with an error.
Thrown ==
    {CS!Failure("key name is missing"), CS!Failure("'=' is missing"), CS!Failure("'}' expected"), CS!Failure("';' expected")}

\* These are failures.
LEMMA ThrownIs == \A t \in Thrown : CS!Failed(t)
  BY Zenon, Outcomes DEF Thrown

CanBeRead(k) == \E key \in CharacterText, rest \in CharacterText : CanBeKey(key) /\ k = [key |-> key, rest |-> rest]

\* A key that is read can be written.
LEMMA KeyNameGives ==
    ASSUME NEW text \in CharacterText, text # << >>, text[1] \notin Parting
    PROVE  CS!KeyName(text) \in Thrown \/ CanBeRead(CS!KeyName(text))
  <1> DEFINE s == CS!KeyRead(text)
             k == CS!TrimRight(s.key)
  <1>1. CS!KeyName(text) \in Thrown \/ (k # << >> /\ CS!KeyName(text) = [key |-> k, rest |-> s.rest])
    <2>1. CS!KeyName(text) = IF k = << >> THEN CS!Failure("key name is missing")
                             ELSE IF ~s.met THEN CS!Failure("'=' is missing")
                             ELSE [key |-> k, rest |-> s.rest]
      BY Zenon DEF CS!KeyName
    <2> DEFINE e == CS!Failure("key name is missing")
               f == CS!Failure("'=' is missing")
    <2>2. e \in Thrown /\ f \in Thrown
      BY Zenon DEF Thrown
    <2> HIDE DEF k, s, e, f
    <2>3. CS!KeyName(text) = IF k = << >> THEN e ELSE IF ~s.met THEN f ELSE [key |-> k, rest |-> s.rest]
      BY <2>1, Zenon DEF e, f
    <2> QED
      BY <2>2, <2>3
  <1>2. KeyGood(s, text)
    BY KeyReadGives
  <1> HIDE DEF s
  <1>3. s.key \in CharacterText /\ s.rest \in CharacterText /\ ~Contains(s.key, Semicolon) /\ (s.key # << >> => s.key[1] # CS!Space)
    BY <1>2 DEF KeyGood, KeyState
  <1>4. k \in CharacterText /\ ~Contains(k, Semicolon) /\ (k # << >> => s.key # << >> /\ k[1] = s.key[1] /\ k[Len(k)] # CS!Space)
    <2> DEFINE x == s.key
    <2>1. x \in CharacterText /\ ~Contains(x, Semicolon)
      BY <1>3
    <2> HIDE DEF x
    <2> QED
      BY <2>1, TrimRightGives DEF x
  <1> HIDE DEF k
  <1>5. k # << >> => CanBeKey(k)
    <2>1. k # << >> => k # << >> /\ k[1] # CS!Space /\ k[Len(k)] # CS!Space /\ ~Contains(k, Semicolon)
      BY <1>3, <1>4
    <2> QED
      BY <2>1, Zenon DEF CanBeKey, Semicolon
  <1> QED
    BY <1>1, <1>3, <1>4, <1>5 DEF CanBeRead

\* A value that can be written.
GoodValues == {v \in CharacterText : NeedsBraces(v) => ~Contains(v, Closing)}

GivesValue(w) == w \in Thrown \/ \E v \in GoodValues, rest \in CharacterText : w = [value |-> v, rest |-> rest]

\* A value is read or an error thrown, whatever comes after it.
LEMMA ValueBeforeGives ==
    ASSUME NEW v \in GoodValues, NEW after \in CharacterText
    PROVE  GivesValue(CS!ValueBefore(v, after))
  <1> DEFINE rest == CS!From(after, Parting)
  <1>1. CS!ValueBefore(v, after) \in Thrown \/ CS!ValueBefore(v, after) = [value |-> v, rest |-> rest]
    <2>1. Parting = {";", CS!Space}
      BY Zenon DEF Parting, Semicolon
    <2> QED
      BY <2>1, Zenon DEF CS!ValueBefore, Thrown
  <1>2. rest \in CharacterText
    BY FromType
  <1> HIDE DEF rest
  <1> QED
    BY <1>1, <1>2 DEF GivesValue

\* A part of a text.
LEMMA PartIs ==
    ASSUME NEW s \in CharacterText, NEW i \in Nat \ {0}, NEW j \in 0 .. Len(s)
    PROVE  /\ SubSeq(s, i, j) \in CharacterText
           /\ \A c : (\A m \in i .. j : s[m] # c) => ~Contains(SubSeq(s, i, j), c)
  <1> DEFINE t == SubSeq(s, i, j)
             n == (IF i <= j THEN j - i + 1 ELSE 0)
  <1>1. Len(s) \in Nat /\ j \in Nat /\ n \in Nat /\ \A m \in i .. j : m \in 1 .. Len(s)
    BY LenProperties DEF CharacterText
  <1>2. \A m \in i .. j : s[m] \in Character
    BY <1>1, ElementOfSeq DEF CharacterText
  <1>3. t \in Seq(Character) /\ Len(t) = n /\ \A m \in 1 .. j - i + 1 : t[m] = s[i + m - 1]
    BY <1>1, <1>2, SubSeqProperties
  <1> HIDE DEF t
  <1>4. \A c : (\A m \in i .. j : s[m] # c) => ~Contains(t, c)
    <2>1. \A m \in 1 .. n : m \in 1 .. j - i + 1 /\ i + m - 1 \in i .. j
      BY <1>1
    <2> HIDE DEF n
    <2> QED
      BY <1>3, <2>1 DEF Contains
  <1>5. t \in CharacterText
    BY <1>3 DEF CharacterText
  <1>6. SubSeq(s, i, j) \in CharacterText
    BY <1>5 DEF t
  <1>7. \A c : (\A m \in i .. j : s[m] # c) => ~Contains(SubSeq(s, i, j), c)
    BY <1>4 DEF t
  <1> QED
    BY <1>6, <1>7

\* Without braces a value ends at a semicolon and has no spaces around it.
LEMMA PlainGives ==
    ASSUME NEW str \in CharacterText, str # << >> => str[1] \notin {Opening, CS!Space}
    PROVE  GivesValue(CS!PlainValue(str))
  <1> DEFINE n == Len(str)
             text == Append(str, Semicolon)
             stop == Stop(text, Semicolon)
             pre == SubSeq(str, 1, stop - 1)
             v == CS!TrimRight(pre)
             after == SubSeq(str, stop, n)
  <1>1. n \in Nat /\ Semicolon \in Character /\ text \in CharacterText /\ Len(text) = n + 1 /\ text[n + 1] = Semicolon
        /\ \A i \in 1 .. n : text[i] = str[i]
    BY AppendProperties, LenProperties, MarksAre DEF CharacterText
  <1> HIDE DEF text
  <1>2. stop \in 1 .. n + 1 /\ \A j \in 1 .. stop - 1 : text[j] # Semicolon
    <2>1. n + 1 \in 1 .. Len(text)
      BY <1>1
    <2>2. Contains(text, Semicolon)
      BY <1>1, <2>1 DEF Contains
    <2>3. \/ stop = 0 /\ ~Contains(text, Semicolon)
          \/ stop \in 1 .. Len(text) /\ text[stop] = Semicolon /\ \A j \in 1 .. stop - 1 : text[j] # Semicolon
      BY <1>1, StopGives
    <2> HIDE DEF stop
    <2> QED
      BY <1>1, <2>2, <2>3
  <1>3. CS!PlainValue(str) = CS!ValueBefore(v, after)
    BY Zenon DEF CS!PlainValue, Stop, Semicolon, text
  <1> HIDE DEF stop
  <1>4. stop - 1 \in 0 .. n /\ stop \in Nat \ {0} /\ n \in 0 .. n
    BY <1>1, <1>2
  <1>5. after \in CharacterText
    BY <1>4, PartIs
  <1>6. pre \in CharacterText /\ ~Contains(pre, Semicolon) /\ Len(pre) = stop - 1 /\ \A j \in 1 .. stop - 1 : pre[j] = str[j]
    <2> DEFINE m == stop - 1
    <2>1. \A j \in 1 .. m : str[j] # Semicolon
      BY <1>1, <1>2, <1>4
    <2>2. m \in 0 .. Len(str)
      BY <1>4
    <2> HIDE DEF m
    <2>3. /\ SubSeq(str, 1, m) \in CharacterText /\ Len(SubSeq(str, 1, m)) = m
          /\ \A j \in 1 .. m : SubSeq(str, 1, m)[j] = str[j]
          /\ ~Contains(SubSeq(str, 1, m), Semicolon)
      BY <2>1, <2>2, Beginning
    <2> QED
      BY <2>3 DEF m
  <1>7. pre # << >> => str # << >> /\ pre[1] = str[1]
    <2>1. ASSUME pre # << >>
          PROVE  1 \in 1 .. stop - 1
      <3>1. Len(pre) # 0
        BY <1>6, <2>1, EmptySeq DEF CharacterText
      <3> HIDE DEF pre
      <3> QED
        BY <1>4, <1>6, <3>1
    <2>2. ASSUME pre # << >>
          PROVE  str # << >>
      <3>1. n # 0
        BY <1>4, <2>1, <2>2
      <3> QED
        BY <3>1, EmptySeq
    <2> HIDE DEF pre
    <2> QED
      BY <1>6, <2>1, <2>2
  <1> HIDE DEF pre, after
  <1>8. v \in CharacterText /\ ~Contains(v, Semicolon) /\ (v # << >> => pre # << >> /\ v[1] = pre[1] /\ v[Len(v)] # CS!Space)
    BY <1>6, TrimRightGives
  <1> HIDE DEF v
  <1>9. ~NeedsBraces(v)
    <2>1. v # << >> => v[1] \notin {Opening, CS!Space}
      BY <1>7, <1>8
    <2> QED
      BY <1>8, <2>1, Zenon DEF NeedsBraces, Opening, Semicolon
  <1>10. v \in GoodValues
    BY <1>8, <1>9 DEF GoodValues
  <1> QED
    BY <1>3, <1>5, <1>10, ValueBeforeGives

\* The same of a value that begins with a brace.
LEMMA BracedGives ==
    ASSUME NEW str \in CharacterText
    PROVE  GivesValue(CS!BracedValue(str))
  <1> DEFINE n == Len(str)
             stop == Stop(str, Closing)
             v == SubSeq(str, 2, stop - 1)
             after == SubSeq(str, stop + 1, n)
             e == CS!Failure("'}' expected")
  <1>1. CS!BracedValue(str) = IF stop = 0 THEN e ELSE CS!ValueBefore(v, after)
    BY Zenon DEF CS!BracedValue, Stop, Closing
  <1>2. e \in Thrown
    BY Zenon DEF Thrown
  <1> HIDE DEF e
  <1>3. \/ stop = 0
        \/ stop \in 1 .. n /\ \A j \in 1 .. stop - 1 : str[j] # Closing
    BY StopGives
  <1>4. n \in Nat
    BY LenProperties DEF CharacterText
  <1> HIDE DEF stop
  <1>5. CASE stop = 0
    BY <1>1, <1>2, <1>5 DEF GivesValue
  <1>6. CASE stop # 0
    <2>1. stop - 1 \in 0 .. n /\ stop + 1 \in Nat \ {0} /\ n \in 0 .. n /\ 2 \in Nat \ {0}
      BY <1>3, <1>4, <1>6
    <2>2. \A j \in 2 .. stop - 1 : str[j] # Closing
      BY <1>3, <1>6
    <2>3. after \in CharacterText
      BY <2>1, PartIs
    <2>4. v \in CharacterText /\ ~Contains(v, Closing)
      BY <2>1, <2>2, PartIs
    <2> HIDE DEF v, after
    <2>5. v \in GoodValues
      BY <2>4 DEF GoodValues
    <2>6. GivesValue(CS!ValueBefore(v, after))
      BY <2>3, <2>5, ValueBeforeGives
    <2> QED
      BY <1>1, <1>6, <2>6
  <1> QED
    BY <1>5, <1>6

\* The same of any value.
LEMMA KeyValueGives ==
    ASSUME NEW text \in CharacterText
    PROVE  GivesValue(CS!KeyValue(text))
  <1> DEFINE str == CS!From(text, {CS!Space})
  <1>1. str \in CharacterText /\ (str # << >> => str[1] # CS!Space)
    BY FromType
  <1>2. CS!KeyValue(text) = CS!ValueAt(str)
    BY DEF CS!KeyValue
  <1> HIDE DEF str
  <1>3. CS!ValueAt(str) = IF str # << >> /\ str[1] = Opening THEN CS!BracedValue(str) ELSE CS!PlainValue(str)
    BY Zenon DEF CS!ValueAt, Opening
  <1>4. CASE str # << >> /\ str[1] = Opening
    BY <1>1, <1>2, <1>3, <1>4, BracedGives
  <1>5. CASE ~(str # << >> /\ str[1] = Opening)
    <2>1. str # << >> => str[1] \notin {Opening, CS!Space}
      BY <1>1, <1>5
    <2> QED
      BY <1>1, <1>2, <1>3, <1>5, <2>1, PlainGives
  <1> QED
    BY <1>4, <1>5

\* A function on 1 .. n is a sequence of n.
LEMMA Sequenced ==
    ASSUME NEW n \in Nat, NEW C, NEW x \in [1 .. n -> C]
    PROVE  x \in Seq(C) /\ Len(x) = n
  <1>1. x \in Seq(C)
    BY SeqDef
  <1>2. DOMAIN x = 1 .. Len(x) /\ DOMAIN x = 1 .. n
    BY <1>1, LenProperties
  <1>3. Len(x) \in Nat
    BY <1>1, LenProperties
  <1>4. ~(Len(x) < n)
    <2> SUFFICES ASSUME Len(x) < n
                 PROVE  FALSE
      OBVIOUS
    <2>1. n \in 1 .. n /\ n \notin 1 .. Len(x)
      BY <1>3
    <2> QED
      BY <1>2, <2>1
  <1>5. ~(n < Len(x))
    <2> SUFFICES ASSUME n < Len(x)
                 PROVE  FALSE
      OBVIOUS
    <2>1. Len(x) \in 1 .. Len(x) /\ Len(x) \notin 1 .. n
      BY <1>3
    <2> QED
      BY <1>2, <2>1
  <1>6. Len(x) = n
    BY <1>3, <1>4, <1>5
  <1> QED
    BY <1>1, <1>6

\* A key stays one in upper case.
LEMMA FoldIs ==
    ASSUME NEW key \in CharacterText
    PROVE  /\ CS!Fold(key) \in CharacterText /\ CS!Fold(CS!Fold(key)) = CS!Fold(key)
           /\ CanBeKey(key) => CanBeKey(CS!Fold(key))
  <1> DEFINE n == Len(key)
             x == CS!Fold(key)
  <1>1. n \in Nat /\ DOMAIN key = 1 .. n /\ \A i \in 1 .. n : key[i] \in Character
    BY LenProperties, ElementOfSeq DEF CharacterText
  <1>2. /\ \A c \in Character : Upper[c] \in Character /\ Upper[Upper[c]] = Upper[c]
        /\ \A c \in Character : (Upper[c] = CS!Space) <=> (c = CS!Space)
        /\ \A c \in Character : (Upper[c] = Semicolon) <=> (c = Semicolon)
    <2>1. /\ Upper \in [Character -> Character] /\ \A c \in Character : Upper[Upper[c]] = Upper[c]
          /\ \A c \in Character, m \in Mark : (Upper[c] = m) <=> (c = m)
      BY StringsAssumption
    <2>2. CS!Space \in Mark /\ Semicolon \in Mark
      BY Zenon DEF Mark, Semicolon
    <2> QED
      BY <2>1, <2>2
  <1>3. x = [i \in 1 .. n |-> Upper[key[i]]]
    BY <1>1 DEF CS!Fold
  <1>4. x \in CharacterText /\ Len(x) = n
    <2>1. x \in [1 .. n -> Character]
      BY <1>1, <1>2, <1>3
    <2> HIDE DEF x
    <2> QED
      BY <1>1, <2>1, Sequenced DEF CharacterText
  <1>5. DOMAIN x = 1 .. n /\ \A i \in 1 .. n : x[i] = Upper[key[i]]
    BY <1>3
  <1>6. CS!Fold(x) = x
    <2>1. CS!Fold(x) = [i \in DOMAIN x |-> Upper[x[i]]]
      BY DEF CS!Fold
    <2> HIDE DEF x
    <2>2. \A i \in 1 .. n : Upper[x[i]] = x[i]
      BY <1>1, <1>2, <1>5
    <2>3. x = [i \in 1 .. n |-> x[i]]
      BY <1>3
    <2> QED
      BY <1>5, <2>1, <2>2, <2>3
  <1> HIDE DEF x
  <1>7. ASSUME CanBeKey(key)
        PROVE  CanBeKey(x)
    <2>1. key # << >> /\ key[1] # CS!Space /\ key[n] # CS!Space /\ ~Contains(key, Semicolon)
      BY <1>7, KeyCan
    <2>2. n # 0
      BY <1>1, <2>1, EmptySeq DEF CharacterText
    <2>3. 1 \in 1 .. n /\ n \in 1 .. n
      BY <1>1, <2>2
    <2>4. x # << >>
      BY <1>4, <2>2, EmptySeq
    <2>5. x[1] # CS!Space /\ x[Len(x)] # CS!Space
      <3> HIDE DEF n
      <3> QED
        BY <1>1, <1>2, <1>4, <1>5, <2>1, <2>3
    <2>6. ~Contains(x, Semicolon)
      <3>1. \A i \in 1 .. n : key[i] # Semicolon
        BY <2>1 DEF Contains
      <3> HIDE DEF n
      <3>2. \A i \in 1 .. n : x[i] # Semicolon
        BY <1>1, <1>2, <1>5, <3>1
      <3> QED
        BY <1>4, <3>2 DEF Contains
    <2> QED
      BY <2>4, <2>5, <2>6, Zenon DEF CanBeKey, Semicolon
  <1> QED
    BY <1>4, <1>6, <1>7 DEF x

KeyTexts == {key \in CharacterText : CanBeKey(key) /\ CS!Fold(key) = key}

\* Fields that can be written.
GoodFields ==
    {F \in UNION {[D -> GoodValues] : D \in SUBSET KeyTexts} :
        IsFiniteSet(DOMAIN F) /\ (CS!DSN \notin DOMAIN F \/ {CS!FILEDSN, CS!DRIVER} \cap DOMAIN F = {})}

\* What fields that have been read are, conjunct by conjunct.
LEMMA GoodFieldsAre ==
    \A F : F \in GoodFields <=>
       /\ IsMap(F) /\ DOMAIN F \subseteq KeyTexts /\ \A x \in DOMAIN F : F[x] \in GoodValues
       /\ IsFiniteSet(DOMAIN F) /\ (CS!DSN \notin DOMAIN F \/ {CS!FILEDSN, CS!DRIVER} \cap DOMAIN F = {})
  <1> TAKE F
  <1> DEFINE M == UNION {[D -> GoodValues] : D \in SUBSET KeyTexts}
  <1>1. ASSUME IsMap(F), DOMAIN F \subseteq KeyTexts, \A x \in DOMAIN F : F[x] \in GoodValues
        PROVE  F \in M
    <2>1. F \in [DOMAIN F -> GoodValues]
      BY <1>1 DEF IsMap
    <2> QED
      BY <1>1, <2>1
  <1>2. ASSUME F \in M
        PROVE  IsMap(F) /\ DOMAIN F \subseteq KeyTexts /\ \A x \in DOMAIN F : F[x] \in GoodValues
    <2>1. PICK D \in SUBSET KeyTexts : F \in [D -> GoodValues]
      BY <1>2
    <2> QED
      BY <2>1 DEF IsMap
  <1>3. F \in GoodFields <=> F \in M /\ IsFiniteSet(DOMAIN F) /\ (CS!DSN \notin DOMAIN F \/ {CS!FILEDSN, CS!DRIVER} \cap DOMAIN F = {})
    BY DEF GoodFields
  <1> HIDE DEF M
  <1> QED
    BY <1>1, <1>2, <1>3

\* A field that is read keeps them so.
LEMMA AddedGives ==
    ASSUME NEW F \in GoodFields, NEW key \in CharacterText, CanBeKey(key), NEW v \in GoodValues
    PROVE  Added(F, key, v) \in GoodFields
  <1> DEFINE x == CS!Fold(key)
             G == Added(F, key, v)
  <1>1. x \in KeyTexts
    BY FoldIs DEF KeyTexts
  <1>2. AddedAs(F, key, v, G)
    BY AddedIs
  <1> HIDE DEF G
  <1>3. /\ IsMap(F) /\ DOMAIN F \subseteq KeyTexts /\ \A y \in DOMAIN F : F[y] \in GoodValues
        /\ IsFiniteSet(DOMAIN F) /\ (CS!DSN \notin DOMAIN F \/ {CS!FILEDSN, CS!DRIVER} \cap DOMAIN F = {})
    BY GoodFieldsAre
  <1>4. CASE CS!Stays(F, key)
    <2>1. G = F
      BY <1>2, <1>4 DEF AddedAs
    <2> QED
      BY <2>1 DEF G
  <1>5. CASE ~CS!Stays(F, key)
    <2>1. DOMAIN G = DOMAIN F \cup {x} /\ IsMap(G) /\ (\A y \in DOMAIN F : G[y] = F[y]) /\ G[x] = v
      BY <1>2, <1>5, Zenon DEF AddedAs
    <2>2. /\ ~(x = CS!DSN /\ {CS!FILEDSN, CS!DRIVER} \cap DOMAIN F # {})
          /\ ~(x \in {CS!FILEDSN, CS!DRIVER} /\ CS!DSN \in DOMAIN F)
      BY <1>5, Zenon DEF CS!Stays
    <2>3. CS!DSN # CS!FILEDSN /\ CS!DSN # CS!DRIVER
      BY SidedIs
    <2> HIDE DEF x
    <2>4. CS!DSN \notin DOMAIN G \/ {CS!FILEDSN, CS!DRIVER} \cap DOMAIN G = {}
      BY <1>3, <2>1, <2>2, <2>3
    <2>5. IsFiniteSet(DOMAIN G)
      BY <1>3, <2>1, FS_AddElement
    <2>6. \A y \in DOMAIN G : G[y] \in GoodValues
      BY <1>3, <2>1
    <2>7. DOMAIN G \subseteq KeyTexts
      BY <1>1, <1>3, <2>1
    <2> QED
      BY <2>1, <2>4, <2>5, <2>6, <2>7, GoodFieldsAre DEF G
  <1> QED
    BY <1>4, <1>5

\* No fields.
LEMMA NoneRead == IsMap(<< >>) /\ DOMAIN << >> = {} /\ << >> \in GoodFields
  <1>1. << >> \in Seq({}) /\ Len(<< >>) = 0
    BY EmptySeq
  <1>2. DOMAIN << >> = {}
    <2>1. DOMAIN << >> = 1 .. Len(<< >>)
      BY <1>1, LenProperties
    <2> QED
      BY <1>1, <2>1
  <1>3. IsMap(<< >>)
    <2>1. PICK n \in Nat : << >> \in [1 .. n -> {}]
      BY <1>1, SeqDef
    <2> DEFINE e == << >>
    <2>2. e \in [1 .. n -> {}]
      BY <2>1
    <2> HIDE DEF e
    <2>3. e = [x \in 1 .. n |-> e[x]] /\ DOMAIN e = 1 .. n
      BY <2>2
    <2>4. e = [x \in DOMAIN e |-> e[x]]
      BY <2>3
    <2> QED
      BY <2>4 DEF IsMap, e
  <1>4. << >> \in GoodFields
    <2> DEFINE e == << >>
    <2>1. DOMAIN e = {} /\ IsMap(e)
      BY <1>2, <1>3
    <2> HIDE DEF e
    <2>2. IsFiniteSet(DOMAIN e)
      BY <2>1, FS_EmptySet
    <2>3. e \in GoodFields
      BY <2>1, <2>2, GoodFieldsAre
    <2> QED
      BY <2>3 DEF e
  <1> QED
    BY <1>2, <1>3, <1>4

FieldState == [rest : CharacterText, fields : GoodFields] \cup Thrown

\* A field that is read leaves fields that can be written.
LEMMA FieldGives ==
    ASSUME NEW text \in CharacterText, text # << >>, text[1] \notin Parting, NEW F \in GoodFields
    PROVE  CS!Field(text, F) \in FieldState
  <1> DEFINE k == CS!KeyName(text)
             w == CS!KeyValue(k.rest)
  <1>1. CS!Field(text, F) = IF CS!Failed(k) THEN k
                            ELSE IF CS!Failed(w) THEN w
                            ELSE [rest |-> w.rest, fields |-> Added(F, k.key, w.value)]
    BY Zenon DEF CS!Field, Added
  <1>2. k \in Thrown \/ CanBeRead(k)
    BY KeyNameGives
  <1> HIDE DEF k
  <1>3. CASE k \in Thrown
    <2>1. CS!Failed(k)
      BY <1>3, ThrownIs
    <2> HIDE DEF w
    <2> QED
      BY <1>1, <1>3, <2>1 DEF FieldState
  <1>4. CASE CanBeRead(k)
    <2>1. PICK key \in CharacterText, rest \in CharacterText : CanBeKey(key) /\ k = [key |-> key, rest |-> rest]
      BY <1>4 DEF CanBeRead
    <2>2. k.key = key /\ k.rest = rest
      BY <2>1
    <2>3. ~CS!Failed(k)
      BY <2>1, Outcomes
    <2>4. GivesValue(w)
      BY <2>2, KeyValueGives
    <2> HIDE DEF w
    <2>5. CASE w \in Thrown
      <3>1. CS!Failed(w)
        BY <2>5, ThrownIs
      <3> QED
        BY <1>1, <2>3, <2>5, <3>1 DEF FieldState
    <2>6. CASE w \notin Thrown
      <3>1. PICK v \in GoodValues, more \in CharacterText : w = [value |-> v, rest |-> more]
        BY <2>4, <2>6 DEF GivesValue
      <3>2. w.value = v /\ w.rest = more
        BY <3>1
      <3>3. ~CS!Failed(w)
        BY <3>1, Outcomes
      <3>4. Added(F, key, v) \in GoodFields
        BY <2>1, AddedGives
      <3>5. CS!Field(text, F) = [rest |-> more, fields |-> Added(F, key, v)]
        BY <1>1, <2>2, <2>3, <3>2, <3>3
      <3> DEFINE G == Added(F, key, v)
      <3> HIDE DEF G
      <3> QED
        BY <3>4, <3>5 DEF FieldState, G
    <2> QED
      BY <2>5, <2>6
  <1> QED
    BY <1>2, <1>3, <1>4

\* The cases of a turn over the fields.
LEMMA FieldTurnIs ==
    ASSUME NEW s \in FieldState
    PROVE  /\ CS!FieldTurn(s) \in FieldState
           /\ CS!Failed(s) => CS!FieldTurn(s) = s
           /\ ~CS!Failed(s) => s.rest \in CharacterText /\ s.fields \in GoodFields /\ s = [rest |-> s.rest, fields |-> s.fields]
           /\ ~CS!Failed(s) /\ CS!From(s.rest, Parting) = << >> => CS!FieldTurn(s) = s
           /\ ~CS!Failed(s) /\ CS!From(s.rest, Parting) # << >> => CS!FieldTurn(s) = CS!Field(CS!From(s.rest, Parting), s.fields)
  <1> DEFINE text == CS!From(s.rest, Parting)
             t == CS!FieldTurn(s)
  <1>1. t = IF CS!Failed(s) THEN s ELSE IF text = << >> THEN s ELSE CS!Field(text, s.fields)
    <2>1. Parting = {CS!Space, ";"}
      BY Zenon DEF Parting, Semicolon
    <2> QED
      BY <2>1, Zenon DEF CS!FieldTurn
  <1>2. CASE CS!Failed(s)
    <2> HIDE DEF text, t
    <2> QED
      BY <1>1, <1>2 DEF text, t
  <1>3. CASE ~CS!Failed(s)
    <2>1. s \in [rest : CharacterText, fields : GoodFields]
      BY <1>3, ThrownIs DEF FieldState
    <2>2. s.rest \in CharacterText /\ s.fields \in GoodFields /\ s = [rest |-> s.rest, fields |-> s.fields]
      BY <2>1
    <2>3. text \in CharacterText /\ (text # << >> => text[1] \notin Parting)
      BY <2>2, FromType
    <2> HIDE DEF text, t
    <2>4. text # << >> => CS!Field(text, s.fields) \in FieldState
      BY <2>2, <2>3, FieldGives
    <2> QED
      BY <1>1, <1>3, <2>2, <2>4 DEF text, t
  <1> QED
    BY <1>2, <1>3

\* The turns readConnectionString makes of a text.
LEMMA ReadUnfolds ==
    ASSUME NEW str \in CharacterText
    PROVE  \E f \in [0 .. Len(str) -> FieldState] :
              /\ CS!ReadFields(str) = f[Len(str)]
              /\ f[0] = [rest |-> str, fields |-> << >>]
              /\ \A i \in 1 .. Len(str) : f[i] = CS!FieldTurn(f[i - 1])
  <1> DEFINE n == Len(str)
             from == [rest |-> str, fields |-> << >>]
             T == [i \in 1 .. n |-> [s \in FieldState |-> CS!FieldTurn(s)]]
             Goes(f) == f = [i \in 0 .. n |-> IF i = 0 THEN from ELSE CS!FieldTurn(f[i - 1])]
  <1>1. n \in Nat
    BY DEF CharacterText
  <1>2. from \in FieldState
    <2>1. << >> \in GoodFields
      BY NoneRead
    <2> QED
      BY <2>1 DEF FieldState
  <1>3. T \in [1 .. n -> [FieldState -> FieldState]]
    <2>1. \A s \in FieldState : CS!FieldTurn(s) \in FieldState
      BY FieldTurnIs
    <2> QED
      BY <2>1
  <1>4. PICK f \in [0 .. n -> FieldState] : f[0] = from /\ \A i \in 1 .. n : f[i] = T[i][f[i - 1]]
    <2> HIDE DEF n, from, T
    <2>1. n \in Nat
      BY <1>1
    <2>2. from \in FieldState
      BY <1>2
    <2>3. T \in [1 .. n -> [FieldState -> FieldState]]
      BY <1>3
    <2>4. Iteration(n, FieldState, from, T)
      BY <2>1, <2>2, <2>3, Iterates
    <2> QED
      BY <2>4 DEF Iteration
  <1>5. \A i \in 1 .. n : f[i] = CS!FieldTurn(f[i - 1])
    <2>1. \A i \in 1 .. n : f[i - 1] \in FieldState
      BY <1>1
    <2>2. \A i \in 1 .. n, s \in FieldState : T[i][s] = CS!FieldTurn(s)
      OBVIOUS
    <2> HIDE DEF n, T
    <2> QED
      BY <1>4, <2>1, <2>2
  <1>6. Goes(f)
    <2>1. \A i \in 0 .. n : f[i] = IF i = 0 THEN from ELSE CS!FieldTurn(f[i - 1])
      <3>1. \A i \in 0 .. n : i # 0 => i \in 1 .. n
        BY <1>1
      <3> HIDE DEF n, from, T
      <3> QED
        BY <1>4, <1>5, <3>1
    <2>2. f = [i \in 0 .. n |-> f[i]]
      OBVIOUS
    <2> HIDE DEF n, from
    <2> QED
      BY <2>1, <2>2
  <1> DEFINE c == CHOOSE g : Goes(g)
  <1>7. Goes(c)
    BY <1>6
  <1>8. CS!ReadFields(str) = c[n]
    BY DEF CS!ReadFields
  <1> HIDE DEF c
  <1>9. c = f
    <2> DEFINE K == {i \in 0 .. n : c[i] = f[i]}
    <2>1. 0 \in K
      BY <1>1, <1>6, <1>7
    <2>2. ASSUME NEW i \in 0 .. n, i \in K, i < n
          PROVE  i + 1 \in K
      <3>1. i + 1 \in 0 .. n /\ i + 1 # 0 /\ (i + 1) - 1 = i
        BY <1>1, <2>2
      <3>2. c[i + 1] = CS!FieldTurn(c[(i + 1) - 1]) /\ f[i + 1] = CS!FieldTurn(f[(i + 1) - 1])
        <4> HIDE DEF from
        <4> QED
          BY <1>6, <1>7, <3>1
      <3> QED
        BY <2>2, <3>1, <3>2
    <2>3. \A i \in 0 .. n : c[i] = f[i]
      <3> HIDE DEF K
      <3>1. \A i \in 0 .. n : i \in K
        BY <1>1, <2>1, <2>2, Onward
      <3> QED
        BY <3>1 DEF K
    <2>4. f = [i \in 0 .. n |-> f[i]]
      OBVIOUS
    <2>5. c = [i \in 0 .. n |-> c[i]]
      <3> HIDE DEF from
      <3>1. DOMAIN c = 0 .. n
        BY <1>7
      <3> QED
        BY <1>7
    <2> QED
      BY <2>3, <2>4, <2>5
  <1> QED
    BY <1>4, <1>5, <1>8, <1>9

\* A field is longer than what follows it.
LEMMA FieldLonger ==
    ASSUME NEW key \in CharacterText, NEW v \in CharacterText, NEW b \in Spacing, NEW sp \in Spacing, NEW braced \in BOOLEAN,
           NEW tail \in CharacterText
    PROVE  /\ FieldWith(key, v, b, sp, braced, tail) \in CharacterText
           /\ Len(tail) < Len(FieldWith(key, v, b, sp, braced, tail))
  <1> DEFINE Longer(t) == t \in CharacterText /\ Len(t) \in Nat /\ Len(tail) < Len(t)
             x == << Semicolon >> \o tail
             body == Body(v, b, braced, tail)
  <1>1. ASSUME NEW u \in CharacterText, NEW t, Longer(t)
        PROVE  Longer(u \o t)
    <2>1. t \in CharacterText
      BY <1>1
    <2>2. u \o t \in CharacterText /\ Len(u \o t) = Len(u) + Len(t) /\ Len(u) \in Nat
      BY <2>1, BeginsAs
    <2>3. Len(tail) \in Nat
      BY LenProperties DEF CharacterText
    <2> DEFINE y == u \o t
    <2>4. y \in CharacterText /\ Len(y) = Len(u) + Len(t)
      BY <2>2
    <2> HIDE DEF y
    <2>5. Longer(y)
      BY <1>1, <2>2, <2>3, <2>4
    <2> QED
      BY <2>5 DEF y
  <1>2. Longer(x)
    <2>1. x \in CharacterText /\ Len(x) = Len(tail) + 1 /\ Len(tail) \in Nat
      BY Preceded, MarksAre, LenProperties DEF CharacterText
    <2> HIDE DEF x
    <2> QED
      BY <2>1
  <1>3. /\ b \in CharacterText /\ sp \in CharacterText /\ Doubled(key) \in CharacterText
        /\ << Equals >> \in CharacterText /\ << Opening >> \in CharacterText /\ << Closing >> \in CharacterText
    <2>1. Equals \in Character /\ Opening \in Character /\ Closing \in Character
      BY MarksAre
    <2>2. Doubled(key) \in CharacterText
      BY <2>1, DoubledFirst
    <2> QED
      BY <2>1, <2>2, SpacingIs DEF CharacterText
  <1> HIDE DEF x, Longer
  <1>4. Longer(body)
    <2>1. Longer(v \o (b \o x))
      BY <1>1, <1>2, <1>3
    <2>2. Longer(<< Opening >> \o (v \o (<< Closing >> \o (b \o x))))
      <3>1. Longer(<< Closing >> \o (b \o x))
        BY <1>1, <1>2, <1>3
      <3>2. Longer(v \o (<< Closing >> \o (b \o x)))
        BY <1>1, <3>1
      <3> QED
        BY <1>1, <1>3, <3>2
    <2> QED
      BY <2>1, <2>2 DEF Body, x
  <1> HIDE DEF body
  <1>5. Longer(Doubled(key) \o (b \o (<< Equals >> \o (sp \o body))))
    <2>1. Longer(sp \o body)
      BY <1>1, <1>3, <1>4
    <2>2. Longer(<< Equals >> \o (sp \o body))
      BY <1>1, <1>3, <2>1
    <2>3. Longer(b \o (<< Equals >> \o (sp \o body)))
      BY <1>1, <1>3, <2>2
    <2> QED
      BY <1>1, <1>3, <2>3
  <1> QED
    BY <1>5 DEF Longer, FieldWith, body

\* A text is that of field i of pairs, and what follows it.
WrittenAs(pairs, i, b, text, tail) ==
    \E sp, braced :
       /\ CanStand(pairs[i][2], sp, braced)
       /\ CS!From(text, Parting) = FieldWith(pairs[i][1], pairs[i][2], b, sp, braced, tail)

\* The reading has come to rest and holds what the first i of pairs leave.
FieldsTo(s, pairs, i, rest) ==
    /\ s \in FieldState /\ ~CS!Failed(s)
    /\ CS!From(s.rest, Parting) = CS!From(rest, Parting) /\ KeptBy(s.fields, pairs, i)

\* A turn reads the pair that is written next.
LEMMA ReadGoesOn ==
    ASSUME NEW pairs, NEW i \in Nat, pairs[i + 1][1] \in CharacterText, CanBeKey(pairs[i + 1][1]), NEW b \in Spacing,
           NEW text \in CharacterText, NEW tail \in CharacterText, WrittenAs(pairs, i + 1, b, text, tail),
           NEW s, FieldsTo(s, pairs, i, text)
    PROVE  FieldsTo(CS!FieldTurn(s), pairs, i + 1, tail)
  <1> DEFINE key == pairs[i + 1][1]
             v == pairs[i + 1][2]
             F == s.fields
             whole == CS!From(text, Parting)
             left == CS!From(tail, Parting)
  <1>1. key \in CharacterText /\ CanBeKey(key)
    OBVIOUS
  <1>2. PICK sp, braced : CanStand(v, sp, braced) /\ whole = FieldWith(key, v, b, sp, braced, tail)
    BY DEF WrittenAs
  <1>3. s \in FieldState /\ ~CS!Failed(s) /\ CS!From(s.rest, Parting) = whole /\ KeptBy(F, pairs, i)
    BY DEF FieldsTo
  <1>4. KeptBy(Added(F, key, v), pairs, i + 1)
    BY <1>3, KeptGoesOn
  <1>5. left \in CharacterText /\ CS!From(left, Parting) = left
    <2>1. left \in CharacterText /\ (left # << >> => left[1] \notin Parting)
      BY FromType
    <2> HIDE DEF left
    <2> QED
      BY <2>1, FromStops
  <1> HIDE DEF key, v, whole, left
  <1>6. whole # << >> /\ CS!Field(whole, F) = [rest |-> left, fields |-> Added(F, key, v)]
    <2>1. /\ FieldWith(key, v, b, sp, braced, tail) # << >>
          /\ \A fields : CS!Field(FieldWith(key, v, b, sp, braced, tail), fields) = [rest |-> left, fields |-> Added(fields, key, v)]
      BY <1>1, <1>2, FieldFound DEF left
    <2> QED
      BY <1>2, <2>1
  <1>7. CS!FieldTurn(s) \in FieldState /\ CS!FieldTurn(s) = CS!Field(whole, F)
    BY <1>3, <1>6, FieldTurnIs
  <1> DEFINE t == CS!FieldTurn(s)
             G == Added(F, key, v)
  <1>8. t \in FieldState /\ t = [rest |-> left, fields |-> G] /\ KeptBy(G, pairs, i + 1)
    BY <1>4, <1>6, <1>7 DEF key, v
  <1> HIDE DEF t, G
  <1>9. ~CS!Failed(t)
    BY <1>8, Outcomes
  <1>10. t.rest = left /\ t.fields = G
    BY <1>8
  <1> QED
    BY <1>5, <1>8, <1>9, <1>10 DEF FieldsTo, t, left

\* The texts of n fields, one after the other, with nothing left at the end.
AllWritten(pairs, n, b, rest) ==
    /\ rest \in [0 .. n -> CharacterText] /\ DOMAIN pairs = 1 .. n
    /\ \A i \in 1 .. n :
          /\ pairs[i][1] \in CharacterText /\ CanBeKey(pairs[i][1])
          /\ WrittenAs(pairs, i, b, rest[i - 1], rest[i])
    /\ CS!From(rest[n], Parting) = << >>

\* Each pair takes some of the text.
LEMMA WrittenLonger ==
    ASSUME NEW pairs, NEW i, pairs[i][1] \in CharacterText, NEW b \in Spacing,
           NEW text \in CharacterText, NEW tail \in CharacterText, WrittenAs(pairs, i, b, text, tail)
    PROVE  Len(tail) < Len(text)
  <1> DEFINE key == pairs[i][1]
             v == pairs[i][2]
             whole == CS!From(text, Parting)
  <1>1. PICK sp, braced : CanStand(v, sp, braced) /\ whole = FieldWith(key, v, b, sp, braced, tail)
    BY DEF WrittenAs
  <1>2. v \in CharacterText /\ sp \in Spacing /\ braced \in BOOLEAN
    BY <1>1 DEF CanStand
  <1>3. key \in CharacterText
    OBVIOUS
  <1>4. whole \in CharacterText /\ Len(whole) <= Len(text)
    BY FromType
  <1> HIDE DEF key, v, whole
  <1>5. Len(tail) < Len(whole)
    BY <1>1, <1>2, <1>3, FieldLonger
  <1>6. Len(tail) \in Nat /\ Len(whole) \in Nat /\ Len(text) \in Nat
    BY <1>4, LenProperties DEF CharacterText
  <1> QED
    BY <1>4, <1>5, <1>6

\* What is written by the rules is read as it was written.
LEMMA FieldsRead ==
    ASSUME NEW n \in Nat, NEW pairs, NEW b \in Spacing, NEW rest, AllWritten(pairs, n, b, rest)
    PROVE  CS!ReadConnectionString(rest[0]) = [fields |-> Kept(pairs)]
  <1> DEFINE str == rest[0]
             m == Len(str)
  <1>1. /\ rest \in [0 .. n -> CharacterText] /\ DOMAIN pairs = 1 .. n /\ CS!From(rest[n], Parting) = << >>
        /\ \A i \in 1 .. n : pairs[i][1] \in CharacterText /\ CanBeKey(pairs[i][1]) /\ WrittenAs(pairs, i, b, rest[i - 1], rest[i])
    BY DEF AllWritten
  <1>2. 0 \in 0 .. n /\ n \in 0 .. n /\ str \in CharacterText
    BY <1>1
  <1>3. m \in Nat
    BY <1>2, LenProperties DEF CharacterText
  <1>4. \A i \in 0 .. n : i + Len(rest[i]) <= m
    <2> DEFINE K == {i \in 0 .. n : i + Len(rest[i]) <= m}
    <2>1. 0 \in K
      BY <1>2, <1>3
    <2>2. ASSUME NEW i \in 0 .. n, i \in K, i < n
          PROVE  i + 1 \in K
      <3>1. i \in Nat /\ i + 1 \in 1 .. n /\ i + 1 \in 0 .. n /\ (i + 1) - 1 = i
        BY <2>2
      <3> DEFINE text == rest[i]
                 tail == rest[i + 1]
      <3>2. text \in CharacterText /\ tail \in CharacterText /\ pairs[i + 1][1] \in CharacterText
        BY <1>1, <3>1
      <3>3. WrittenAs(pairs, i + 1, b, text, tail)
        BY <1>1, <3>1
      <3>4. i + Len(text) <= m
        BY <2>2
      <3> HIDE DEF m, text, tail
      <3>5. Len(tail) < Len(text)
        BY <3>2, <3>3, WrittenLonger
      <3>6. Len(tail) \in Nat /\ Len(text) \in Nat
        BY <3>2, LenProperties DEF CharacterText
      <3>7. (i + 1) + Len(tail) <= m
        BY <1>3, <3>1, <3>4, <3>5, <3>6
      <3> QED
        BY <3>1, <3>7 DEF tail
    <2> HIDE DEF K
    <2>3. \A i \in 0 .. n : i \in K
      BY <2>1, <2>2, Onward
    <2> QED
      BY <2>3 DEF K
  <1>5. \A i \in 0 .. n : i \in 0 .. m
    <2> TAKE i \in 0 .. n
    <2> DEFINE t == rest[i]
    <2>1. t \in CharacterText
      BY <1>1
    <2>2. i + Len(t) <= m
      BY <1>4
    <2> HIDE DEF t, m
    <2>3. Len(t) \in Nat
      BY <2>1, LenProperties DEF CharacterText
    <2> QED
      BY <1>3, <2>2, <2>3
  <1>6. PICK f \in [0 .. m -> FieldState] :
           /\ CS!ReadFields(str) = f[m]
           /\ f[0] = [rest |-> str, fields |-> << >>]
           /\ \A i \in 1 .. m : f[i] = CS!FieldTurn(f[i - 1])
    BY <1>2, ReadUnfolds
  <1> HIDE DEF m
  <1>7. FieldsTo(f[n], pairs, n, rest[n])
    <2> DEFINE K == {i \in 0 .. n : FieldsTo(f[i], pairs, i, rest[i])}
    <2>1. 0 \in K
      <3> DEFINE s == f[0]
      <3>1. s \in FieldState
        BY <1>3
      <3>2. s = [rest |-> str, fields |-> << >>]
        BY <1>6
      <3> HIDE DEF s
      <3>3. ~CS!Failed(s) /\ s.rest = str /\ s.fields = << >>
        BY <3>2, Outcomes
      <3>4. KeptBy(<< >>, pairs, 0)
        <4>1. KeysTo(pairs, 0) = {} /\ 1 .. 0 = {}
          BY DEF KeysTo
        <4> QED
          BY <4>1, NoneRead DEF KeptBy
      <3>5. FieldsTo(s, pairs, 0, str)
        BY <3>1, <3>3, <3>4 DEF FieldsTo
      <3> QED
        BY <1>2, <3>5 DEF s
    <2>2. ASSUME NEW i \in 0 .. n, i \in K, i < n
          PROVE  i + 1 \in K
      <3>1. i \in Nat /\ i + 1 \in 1 .. n /\ i + 1 \in 0 .. n /\ (i + 1) - 1 = i /\ i + 1 \in 1 .. m
        <4>1. i \in Nat /\ i + 1 \in 1 .. n /\ i + 1 \in 0 .. n /\ (i + 1) - 1 = i
          BY <2>2
        <4>2. i + 1 \in 0 .. m
          BY <1>5, <4>1
        <4> QED
          BY <1>3, <4>1, <4>2
      <3> DEFINE text == rest[i]
                 tail == rest[i + 1]
                 s == f[i]
      <3>2. /\ text \in CharacterText /\ tail \in CharacterText
            /\ pairs[i + 1][1] \in CharacterText /\ CanBeKey(pairs[i + 1][1])
        BY <1>1, <3>1
      <3>3. WrittenAs(pairs, i + 1, b, text, tail)
        BY <1>1, <3>1
      <3>4. FieldsTo(s, pairs, i, text)
        BY <2>2
      <3>5. f[i + 1] = CS!FieldTurn(s)
        BY <1>6, <3>1
      <3> HIDE DEF s, text, tail
      <3>6. FieldsTo(CS!FieldTurn(s), pairs, i + 1, tail)
        BY <3>1, <3>2, <3>3, <3>4, ReadGoesOn
      <3> QED
        BY <3>1, <3>5, <3>6 DEF tail
    <2> HIDE DEF K
    <2>3. \A i \in 0 .. n : i \in K
      BY <2>1, <2>2, Onward
    <2>4. n \in K
      BY <1>2, <2>3
    <2> QED
      BY <2>4 DEF K
  <1> DEFINE s == f[n]
  <1>8. s \in FieldState /\ ~CS!Failed(s) /\ CS!From(s.rest, Parting) = << >> /\ KeptBy(s.fields, pairs, n)
    BY <1>1, <1>7 DEF FieldsTo
  <1>9. CS!FieldTurn(s) = s
    <2> HIDE DEF s
    <2> QED
      BY <1>8, FieldTurnIs
  <1>10. f[m] = s
    <2>1. \A i \in 1 .. m : f[i - 1] = f[n] => f[i] = f[n]
      BY <1>6, <1>9
    <2>2. n \in 0 .. m
      BY <1>2, <1>5
    <2> QED
      BY <1>3, <2>1, <2>2, Stayed
  <1>11. s.fields = Kept(pairs)
    BY <1>1, <1>8, KeptAll
  <1>12. CS!ReadFields(str) = s
    BY <1>6, <1>10
  <1> HIDE DEF s
  <1>13. CS!ReadConnectionString(str) = [fields |-> s.fields]
    <2>1. CS!ReadConnectionString(str) = IF CS!Failed(s) THEN s ELSE [fields |-> s.fields]
      BY <1>12 DEF CS!ReadConnectionString
    <2> QED
      BY <1>8, <2>1
  <1> QED
    BY <1>11, <1>13

\* What follows each of the texts of a text.
LEMMA Flattened ==
    ASSUME NEW texts \in Seq(CharacterText)
    PROVE  \E rest \in [0 .. Len(texts) -> CharacterText] :
              /\ rest[0] = FlattenSeq(texts) /\ rest[Len(texts)] = << >>
              /\ \A i \in 1 .. Len(texts) : texts[i] \in CharacterText /\ rest[i - 1] = texts[i] \o rest[i]
  <1> DEFINE n == Len(texts)
             rest == [i \in 0 .. n |-> FlattenSeq(Remainder(texts, i))]
  <1>1. n \in Nat /\ texts \in Seq(Seq(Character))
    BY LenProperties DEF CharacterText
  <1>2. /\ Remainder(texts, 0) = texts /\ Remainder(texts, n) = << >>
        /\ \A i \in 0 .. n : Remainder(texts, i) \in Seq(Seq(Character))
        /\ \A i \in 0 .. n : i < n =>
              texts[i + 1] \in Seq(Character) /\ i + 1 \in 0 .. n /\ Remainder(texts, i) = << texts[i + 1] >> \o Remainder(texts, i + 1)
    BY <1>1, RemainderIs
  <1>3. 0 \in 0 .. n /\ n \in 0 .. n
    BY <1>1
  <1>4. \A s \in Seq(Seq(Character)) : FlattenSeq(s) \in Seq(Character)
    BY FlattenType
  <1>5. FlattenSeq(<< >>) = << >>
    <2>1. << >> \in Seq(Seq(Character))
      BY EmptySeq
    <2> QED
      BY <2>1, FlattenType
  <1> HIDE DEF n
  <1>6. rest \in [0 .. n -> CharacterText]
    BY <1>2, <1>4 DEF CharacterText
  <1>7. rest[0] = FlattenSeq(texts) /\ rest[n] = << >>
    BY <1>2, <1>3, <1>5
  <1>8. ASSUME NEW i \in 1 .. n
        PROVE  texts[i] \in CharacterText /\ rest[i - 1] = texts[i] \o rest[i]
    <2> DEFINE j == i - 1
    <2>1. j \in 0 .. n /\ j < n /\ i = j + 1 /\ i \in 0 .. n
      BY <1>1
    <2>2. texts[i] \in Seq(Character) /\ Remainder(texts, j) = << texts[i] >> \o Remainder(texts, i) /\ Remainder(texts, i) \in Seq(Seq(Character))
      BY <1>2, <2>1
    <2>3. FlattenSeq(<< texts[i] >> \o Remainder(texts, i)) = texts[i] \o FlattenSeq(Remainder(texts, i))
      BY <2>2, FlattenFirst
    <2>4. rest[j] = FlattenSeq(Remainder(texts, j)) /\ rest[i] = FlattenSeq(Remainder(texts, i))
      BY <2>1
    <2> HIDE DEF rest
    <2>5. rest[j] = texts[i] \o rest[i]
      BY <2>2, <2>3, <2>4
    <2> QED
      BY <2>2, <2>5 DEF CharacterText
  <1> HIDE DEF rest
  <1> QED
    BY <1>6, <1>7, <1>8 DEF n

\* Texts side by side, grouped from the right.
LEMMA Associated ==
    ASSUME NEW u \in CharacterText, NEW w \in CharacterText, NEW t \in CharacterText
    PROVE  (u \o w) \o t = u \o (w \o t) /\ u \o w \in CharacterText /\ w \o t \in CharacterText
  BY ConcatAssociative, ConcatProperties DEF CharacterText

\* The space before a value.
SpaceBefore(v, b) == IF Begins(v, Equals) THEN << CS!Space >> ELSE b

\* The text of a field is what FieldWith says, with the spacing before it.
Followed(key, v, b, tail) ==
    /\ FieldText(key, v, b) \in CharacterText
    /\ FieldText(key, v, b) \o tail = b \o FieldWith(key, v, b, SpaceBefore(v, b), NeedsBraces(v), tail)

\* FieldText, grouped from the right.
LEMMA FieldTextIs ==
    ASSUME NEW key \in CharacterText, NEW v \in CharacterText, NEW b \in Spacing, NEW tail \in CharacterText
    PROVE  Followed(key, v, b, tail)
  <1> DEFINE d  == Doubled(key)
             e  == << Equals >>
             sp == SpaceBefore(v, b)
             w  == IF NeedsBraces(v) THEN << Opening >> \o v \o << Closing >> ELSE v
             c  == << Semicolon >>
  <1>1. FieldText(key, v, b) = b \o d \o b \o e \o sp \o w \o b \o c
    BY Zenon DEF FieldText, SpaceBefore, Begins, Equals, Semicolon, Opening, Closing
  <1> DEFINE l == << Opening >>
             r == << Closing >>
  <1>2. /\ b \in CharacterText /\ d \in CharacterText /\ e \in CharacterText /\ sp \in CharacterText /\ c \in CharacterText
        /\ l \in CharacterText /\ r \in CharacterText
    <2>1. {Equals, Semicolon, Opening, Closing, CS!Space} \subseteq Character
      BY MarksAre
    <2>2. d \in CharacterText
      BY <2>1, DoubledFirst
    <2>3. b \in CharacterText
      BY SpacingIs
    <2>4. << CS!Space >> \in CharacterText
      BY <2>1 DEF CharacterText
    <2> QED
      BY <2>1, <2>2, <2>3, <2>4 DEF CharacterText, SpaceBefore
  <1>3. FieldWith(key, v, b, sp, NeedsBraces(v), tail) = d \o (b \o (e \o (sp \o Body(v, b, NeedsBraces(v), tail))))
    BY DEF FieldWith
  <1>4. w = IF NeedsBraces(v) THEN (l \o v) \o r ELSE v
    OBVIOUS
  <1> DEFINE braced == NeedsBraces(v)
             y == b \o (c \o tail)
             body == Body(v, b, braced, tail)
  <1>5. body = IF braced THEN l \o (v \o (r \o y)) ELSE v \o y
    BY DEF Body
  <1> HIDE DEF d, e, sp, w, c, l, r, braced
  <1>6. c \o tail \in CharacterText /\ y \in CharacterText
    <2>1. c \o tail \in CharacterText
      BY <1>2, BeginsAs
    <2> DEFINE x == c \o tail
    <2>2. y = b \o x /\ x \in CharacterText
      BY <2>1
    <2> HIDE DEF x, y
    <2> QED
      BY <1>2, <2>1, <2>2, BeginsAs
  <1> HIDE DEF y, body
  <1>7. w \in CharacterText /\ w \o y = body
    <2>1. CASE braced
      <3> DEFINE p == l \o v
                 q == r \o y
      <3>1. p \in CharacterText /\ q \in CharacterText
        BY <1>2, <1>6, BeginsAs
      <3>2. l \o (v \o q) = p \o q
        <4> HIDE DEF q
        <4>1. (l \o v) \o q = l \o (v \o q)
          BY <1>2, <3>1, Associated, SMTT(30)
        <4> QED
          BY <4>1
      <3> HIDE DEF p
      <3>3. p \o r \in CharacterText
        BY <1>2, <3>1, BeginsAs
      <3>4. (p \o r) \o y = p \o (r \o y)
        BY <1>2, <1>6, <3>1, Associated, SMTT(30)
      <3>5. w = p \o r /\ body = l \o (v \o q)
        BY <1>4, <1>5, <2>1 DEF braced, p
      <3> HIDE DEF q
      <3> QED
        BY <3>2, <3>3, <3>4, <3>5 DEF q
    <2>2. CASE ~braced
      <3>1. v \o y \in CharacterText
        BY <1>6, BeginsAs
      <3> QED
        BY <1>4, <1>5, <2>2, <3>1 DEF braced
    <2> QED
      BY <2>1, <2>2
  <1>8. body \in CharacterText
    BY <1>6, <1>7, BeginsAs
  <1> DEFINE a1 == b \o d
             a2 == a1 \o b
             a3 == a2 \o e
             a4 == a3 \o sp
             a5 == a4 \o w
             a6 == a5 \o b
             z1 == sp \o body
             z2 == e \o z1
             z3 == b \o z2
             z4 == d \o z3
             x  == c \o tail
  <1>9. FieldText(key, v, b) = a6 \o c
    BY <1>1
  <1>10. FieldWith(key, v, b, sp, braced, tail) = z4
    BY <1>3 DEF body, braced
  <1>11. /\ a1 = b \o d /\ a2 = a1 \o b /\ a3 = a2 \o e /\ a4 = a3 \o sp /\ a5 = a4 \o w /\ a6 = a5 \o b
         /\ z1 = sp \o body /\ z2 = e \o z1 /\ z3 = b \o z2 /\ z4 = d \o z3
         /\ x = c \o tail /\ y = b \o x
    BY DEF y
  <1> HIDE DEF a1, a2, a3, a4, a5, a6, z1, z2, z3, z4, x
  <1>12. a1 \in CharacterText
    BY <1>2, <1>11, BeginsAs
  <1>13. a2 \in CharacterText
    BY <1>2, <1>11, <1>12, BeginsAs
  <1>14. a3 \in CharacterText
    BY <1>2, <1>11, <1>13, BeginsAs
  <1>15. a4 \in CharacterText
    BY <1>2, <1>11, <1>14, BeginsAs
  <1>16. a5 \in CharacterText
    BY <1>7, <1>11, <1>15, BeginsAs
  <1>17. a6 \in CharacterText
    BY <1>2, <1>11, <1>16, BeginsAs
  <1>18. z1 \in CharacterText
    BY <1>2, <1>8, <1>11, BeginsAs
  <1>19. z2 \in CharacterText
    BY <1>2, <1>11, <1>18, BeginsAs
  <1>20. z3 \in CharacterText
    BY <1>2, <1>11, <1>19, BeginsAs
  <1>21. x \in CharacterText
    BY <1>6, <1>11
  <1>22. (a6 \o c) \o tail = a6 \o x
    <2>1. a6 \in CharacterText /\ c \in CharacterText /\ tail \in CharacterText
      BY <1>2, <1>17
    <2>2. (a6 \o c) \o tail = a6 \o (c \o tail)
      BY <2>1, Associated
    <2> QED
      BY <1>11, <2>2
  <1>23. a6 \o x = a5 \o y
    <2>1. a5 \in CharacterText /\ b \in CharacterText /\ x \in CharacterText
      BY <1>2, <1>16, <1>21
    <2>2. (a5 \o b) \o x = a5 \o (b \o x)
      BY <2>1, Associated
    <2> QED
      BY <1>11, <2>2
  <1>24. a5 \o y = a4 \o body
    <2>1. a4 \in CharacterText /\ w \in CharacterText /\ y \in CharacterText
      BY <1>2, <1>6, <1>7, <1>15
    <2>2. (a4 \o w) \o y = a4 \o (w \o y)
      BY <2>1, Associated
    <2> QED
      BY <1>7, <1>11, <2>2
  <1>25. a4 \o body = a3 \o z1
    <2>1. a3 \in CharacterText /\ sp \in CharacterText /\ body \in CharacterText
      BY <1>2, <1>8, <1>14
    <2>2. (a3 \o sp) \o body = a3 \o (sp \o body)
      BY <2>1, Associated
    <2> QED
      BY <1>11, <2>2
  <1>26. a3 \o z1 = a2 \o z2
    <2>1. a2 \in CharacterText /\ e \in CharacterText /\ z1 \in CharacterText
      BY <1>2, <1>13, <1>18
    <2>2. (a2 \o e) \o z1 = a2 \o (e \o z1)
      BY <2>1, Associated
    <2> QED
      BY <1>11, <2>2
  <1>27. a2 \o z2 = a1 \o z3
    <2>1. a1 \in CharacterText /\ b \in CharacterText /\ z2 \in CharacterText
      BY <1>2, <1>12, <1>19
    <2>2. (a1 \o b) \o z2 = a1 \o (b \o z2)
      BY <2>1, Associated
    <2> QED
      BY <1>11, <2>2
  <1>28. a1 \o z3 = b \o z4
    <2>1. b \in CharacterText /\ d \in CharacterText /\ z3 \in CharacterText
      BY <1>2, <1>20
    <2>2. (b \o d) \o z3 = b \o (d \o z3)
      BY <2>1, Associated, SMTT(30)
    <2> QED
      BY <1>11, <2>2
  <1>29. a6 \o c \in CharacterText
    BY <1>2, <1>17, BeginsAs
  <1>30. FieldText(key, v, b) \o tail = b \o FieldWith(key, v, b, sp, braced, tail)
    BY <1>9, <1>10, <1>22, <1>23, <1>24, <1>25, <1>26, <1>27, <1>28
  <1> QED
    BY <1>9, <1>29, <1>30 DEF sp, braced, Followed

\* What may be written by the rules.
Writable(pairs, n) ==
    /\ DOMAIN pairs = 1 .. n
    /\ \A i \in 1 .. n : pairs[i][1] \in CharacterText /\ CanBeKey(pairs[i][1]) /\ pairs[i][2] \in GoodValues

\* FieldText writes a pair so that it can be read.
LEMMA FieldWritten ==
    ASSUME NEW pairs, NEW i, pairs[i][1] \in CharacterText, CanBeKey(pairs[i][1]), pairs[i][2] \in GoodValues,
           NEW b \in Spacing, NEW tail \in CharacterText
    PROVE  WrittenAs(pairs, i, b, FieldText(pairs[i][1], pairs[i][2], b) \o tail, tail)
  <1> DEFINE key == pairs[i][1]
             v == pairs[i][2]
             sp == SpaceBefore(v, b)
             braced == NeedsBraces(v)
             whole == FieldWith(key, v, b, sp, braced, tail)
  <1>1. key \in CharacterText /\ CanBeKey(key) /\ v \in CharacterText /\ (braced => ~Contains(v, Closing))
    BY DEF GoodValues
  <1>2. CanStand(v, sp, braced)
    <2>1. sp \in Spacing /\ (Begins(v, Equals) => sp # << >>)
      BY DEF SpaceBefore, Spacing
    <2>2. braced \in BOOLEAN
      BY Zenon DEF NeedsBraces
    <2> HIDE DEF v, sp
    <2>3. ~braced => ~(sp = << >> /\ Begins(v, Equals))
      BY <2>1
    <2> QED
      BY <1>1, <2>1, <2>2, <2>3 DEF CanStand
  <1> HIDE DEF key, v, sp, braced
  <1>3. whole \in CharacterText /\ whole # << >> /\ whole[1] \notin Parting
    BY <1>1, <1>2, FieldFound
  <1>4. FieldText(key, v, b) \o tail = b \o whole
    <2>1. FieldText(key, v, b) \o tail = b \o FieldWith(key, v, b, SpaceBefore(v, b), NeedsBraces(v), tail)
      <3>1. key \in CharacterText /\ v \in CharacterText
        BY <1>1
      <3> HIDE DEF whole
      <3>2. Followed(key, v, b, tail)
        BY <3>1, FieldTextIs
      <3> QED
        BY <3>2, Zenon DEF Followed
    <2> QED
      BY <2>1, Zenon DEF whole, sp, braced
  <1> HIDE DEF whole
  <1>5. CS!From(b \o whole, Parting) = whole
    <2>1. CS!Space \in Parting
      BY DEF Parting
    <2>2. CS!From(b \o whole, Parting) = CS!From(whole, Parting)
      BY <1>3, <2>1, SpacingIs
    <2> QED
      BY <1>3, <2>2, FromStops
  <1>6. CS!From(FieldText(key, v, b) \o tail, Parting) = FieldWith(key, v, b, sp, braced, tail)
    BY <1>4, <1>5 DEF whole
  <1> QED
    BY <1>2, <1>6 DEF WrittenAs, key, v

\* readConnectionString: pairs that can be written are read as those that stay.
LEMMA StringRead ==
    ASSUME NEW n \in Nat, NEW pairs, Writable(pairs, n), NEW b \in Spacing
    PROVE  CS!ReadConnectionString(StringOf(pairs, b)) = [fields |-> Kept(pairs)]
  <1> DEFINE texts == [i \in 1 .. n |-> FieldText(pairs[i][1], pairs[i][2], b)]
  <1>1. /\ DOMAIN pairs = 1 .. n
        /\ \A i \in 1 .. n : pairs[i][1] \in CharacterText /\ CanBeKey(pairs[i][1]) /\ pairs[i][2] \in GoodValues
    BY DEF Writable
  <1>2. << >> \in CharacterText
    BY EmptySeq DEF CharacterText
  <1>3. texts \in [1 .. n -> CharacterText]
    <2>1. ASSUME NEW i \in 1 .. n
          PROVE  FieldText(pairs[i][1], pairs[i][2], b) \in CharacterText
      <3> DEFINE key == pairs[i][1]
                 v == pairs[i][2]
      <3>1. key \in CharacterText /\ v \in CharacterText
        BY <1>1 DEF GoodValues
      <3> HIDE DEF key, v
      <3>2. FieldText(key, v, b) \in CharacterText
        BY <1>2, <3>1, FieldTextIs DEF Followed
      <3> QED
        BY <3>2 DEF key, v
    <2> QED
      BY <2>1
  <1>4. StringOf(pairs, b) = FlattenSeq(texts)
    BY <1>1 DEF StringOf
  <1>5. \A i \in 1 .. n : texts[i] = FieldText(pairs[i][1], pairs[i][2], b)
    OBVIOUS
  <1> HIDE DEF texts
  <1>6. texts \in Seq(CharacterText) /\ Len(texts) = n
    BY <1>3, Sequenced
  <1>7. PICK rest \in [0 .. Len(texts) -> CharacterText] :
           /\ rest[0] = FlattenSeq(texts) /\ rest[Len(texts)] = << >>
           /\ \A i \in 1 .. Len(texts) : texts[i] \in CharacterText /\ rest[i - 1] = texts[i] \o rest[i]
    BY <1>6, Flattened
  <1>8. rest \in [0 .. n -> CharacterText] /\ rest[n] = << >> /\ \A i \in 1 .. n : rest[i - 1] = texts[i] \o rest[i]
    BY <1>6, <1>7
  <1>9. ASSUME NEW i \in 1 .. n
        PROVE  WrittenAs(pairs, i, b, rest[i - 1], rest[i])
    <2> DEFINE tail == rest[i]
    <2>1. tail \in CharacterText
      BY <1>8
    <2>2. rest[i - 1] = FieldText(pairs[i][1], pairs[i][2], b) \o tail
      BY <1>5, <1>8
    <2> HIDE DEF tail
    <2>3. WrittenAs(pairs, i, b, FieldText(pairs[i][1], pairs[i][2], b) \o tail, tail)
      BY <1>1, <2>1, FieldWritten
    <2> QED
      BY <2>2, <2>3 DEF tail
  <1>10. CS!From(rest[n], Parting) = << >>
    BY <1>8, FromStops
  <1>11. AllWritten(pairs, n, b, rest)
    BY <1>1, <1>8, <1>9, <1>10 DEF AllWritten
  <1>12. CS!ReadConnectionString(rest[0]) = [fields |-> Kept(pairs)]
    BY <1>11, FieldsRead
  <1> QED
    BY <1>4, <1>7, <1>12

\* The members of a set in some order.
LEMMA InOrder ==
    ASSUME NEW S, IsFiniteSet(S)
    PROVE  /\ Cardinality(S) \in Nat /\ SetToSeq(S) \in [1 .. Cardinality(S) -> S]
           /\ \A x \in S : \E i \in 1 .. Cardinality(S) : SetToSeq(S)[i] = x
  <1> DEFINE n == Cardinality(S)
             f == SetToSeq(S)
  <1>1. n \in Nat /\ ExistsBijection(1 .. n, S)
    BY FS_CardinalityType
  <1>2. PICK g : g \in [1 .. n -> S] /\ IsInjective(g)
    BY <1>1 DEF ExistsBijection, Bijection, Injection
  <1>3. f \in [1 .. n -> S] /\ IsInjective(f)
    BY <1>2 DEF SetToSeq
  <1> HIDE DEF f
  <1>4. f \in Injection(1 .. n, S)
    BY <1>3 DEF Injection
  <1>5. Cardinality(1 .. n) = n
    <2>1. Cardinality(1 .. n) = IF 1 > n THEN 0 ELSE n - 1 + 1
      BY <1>1, FS_Interval
    <2> QED
      BY <1>1, <2>1
  <1>6. f \in Surjection(1 .. n, S)
    BY <1>4, <1>5, FS_Injection
  <1>7. \A x \in S : \E i \in 1 .. n : f[i] = x
    BY <1>6 DEF Surjection
  <1> QED
    BY <1>1, <1>3, <1>7 DEF f

\* The pairs are those of G, each key of it once or more.
PairsOf(pairs, n, G) ==
    /\ DOMAIN pairs = 1 .. n /\ IsMap(G)
    /\ \A i \in 1 .. n : FoldedKey(pairs, i) \in DOMAIN G /\ pairs[i][2] = G[FoldedKey(pairs, i)]
    /\ \A x \in DOMAIN G : \E i \in 1 .. n : FoldedKey(pairs, i) = x
    /\ CS!DSN \notin DOMAIN G \/ {CS!FILEDSN, CS!DRIVER} \cap DOMAIN G = {}

\* Of the pairs of a map with keys as they are kept, all stay.
LEMMA KeptOfPairs ==
    ASSUME NEW pairs, NEW n \in Nat, NEW G, PairsOf(pairs, n, G)
    PROVE  Kept(pairs) = G
  <1> DEFINE keys == {FoldedKey(pairs, i) : i \in DOMAIN pairs}
             value(k) == pairs[FirstOf(pairs, {k})][2]
             shut == ShutOf(pairs)
  <1>1. /\ DOMAIN pairs = 1 .. n /\ G = [x \in DOMAIN G |-> G[x]]
        /\ \A i \in 1 .. n : FoldedKey(pairs, i) \in DOMAIN G /\ pairs[i][2] = G[FoldedKey(pairs, i)]
        /\ \A x \in DOMAIN G : \E i \in 1 .. n : FoldedKey(pairs, i) = x
        /\ CS!DSN \notin DOMAIN G \/ {CS!FILEDSN, CS!DRIVER} \cap DOMAIN G = {}
    BY DEF PairsOf, IsMap
  <1>2. Kept(pairs) = [k \in keys \ shut |-> value(k)]
    BY KeptUnfolds
  <1>3. keys = DOMAIN G
    BY <1>1
  <1>4. ASSUME NEW x \in DOMAIN G
        PROVE  value(x) = G[x]
    <2>1. \E j \in 1 .. n : FoldedKey(pairs, j) \in {x}
      BY <1>1
    <2> DEFINE m == FirstOf(pairs, {x})
    <2>2. FirstWith(pairs, {x}, m, n)
      BY <1>1, <2>1, FirstIs
    <2> HIDE DEF m
    <2>3. m \in 1 .. n /\ FoldedKey(pairs, m) = x
      BY <2>2 DEF FirstWith
    <2>4. pairs[m][2] = G[x]
      BY <1>1, <2>3
    <2> QED
      BY <2>4 DEF m
  <1>5. shut \cap DOMAIN G = {}
    <2>1. CASE Sided \cap keys = {}
      BY <2>1 DEF ShutOf
    <2>2. CASE Sided \cap keys # {}
      <3> DEFINE m == FirstOf(pairs, Sided)
                 x == FoldedKey(pairs, m)
      <3>1. \E j \in 1 .. n : FoldedKey(pairs, j) \in Sided
        BY <1>1, <2>2
      <3>2. FirstWith(pairs, Sided, m, n)
        BY <1>1, <3>1, FirstIs
      <3>3. shut = ShutBy(x)
        BY <2>2 DEF ShutOf
      <3> HIDE DEF m, shut
      <3>4. x \in Sided /\ x \in DOMAIN G
        BY <1>1, <3>2 DEF FirstWith
      <3> HIDE DEF x
      <3>5. CS!DSN # CS!FILEDSN /\ CS!DSN # CS!DRIVER /\ Sided = {CS!DSN, CS!FILEDSN, CS!DRIVER}
        BY SidedIs
      <3> QED
        BY <1>1, <3>3, <3>4, <3>5 DEF ShutBy
    <2> QED
      BY <2>1, <2>2
  <1> HIDE DEF keys, shut, value
  <1>6. Kept(pairs) = [k \in DOMAIN G |-> G[k]]
    <2>1. keys \ shut = DOMAIN G
      BY <1>3, <1>5
    <2> QED
      BY <1>2, <1>4, <2>1
  <1> QED
    BY <1>1, <1>6

\* The fields of a text that is read can be written and read again.
LEMMA ReadGives ==
    ASSUME NEW str \in CharacterText
    PROVE  \/ CS!Failed(CS!ReadConnectionString(str))
           \/ \E F \in GoodFields : CS!ReadConnectionString(str) = [fields |-> F]
  <1> DEFINE s == CS!ReadFields(str)
             n == Len(str)
  <1>1. s \in FieldState
    <2>1. PICK f \in [0 .. n -> FieldState] : s = f[n]
      BY ReadUnfolds
    <2>2. n \in 0 .. n
      BY LenProperties DEF CharacterText
    <2> HIDE DEF s, n
    <2> QED
      BY <2>1, <2>2
  <1>2. CS!ReadConnectionString(str) = IF CS!Failed(s) THEN s ELSE [fields |-> s.fields]
    BY DEF CS!ReadConnectionString
  <1> HIDE DEF s
  <1>3. ~CS!Failed(s) => s.fields \in GoodFields
    BY <1>1, FieldTurnIs
  <1> QED
    BY <1>2, <1>3

\* The pairs of fields that have been read can be written.
LEMMA PairsAre ==
    ASSUME NEW F \in GoodFields
    PROVE  \E n \in Nat : PairsOf(Pairs(F), n, F) /\ Writable(Pairs(F), n)
  <1> DEFINE n == Cardinality(DOMAIN F)
             ks == SetToSeq(DOMAIN F)
             pairs == [i \in DOMAIN ks |-> << ks[i], F[ks[i]] >>]
  <1>1. /\ IsMap(F) /\ DOMAIN F \subseteq KeyTexts /\ \A x \in DOMAIN F : F[x] \in GoodValues
        /\ IsFiniteSet(DOMAIN F) /\ (CS!DSN \notin DOMAIN F \/ {CS!FILEDSN, CS!DRIVER} \cap DOMAIN F = {})
    BY GoodFieldsAre
  <1>2. n \in Nat /\ ks \in [1 .. n -> DOMAIN F] /\ \A x \in DOMAIN F : \E i \in 1 .. n : ks[i] = x
    BY <1>1, InOrder
  <1>3. Pairs(F) = pairs
    BY DEF Pairs
  <1> HIDE DEF n, ks
  <1>4. DOMAIN pairs = 1 .. n /\ \A i \in 1 .. n : pairs[i][1] = ks[i] /\ pairs[i][2] = F[ks[i]] /\ ks[i] \in DOMAIN F
    BY <1>2
  <1> HIDE DEF pairs
  <1>5. \A x \in DOMAIN F : x \in CharacterText /\ CanBeKey(x) /\ CS!Fold(x) = x
    BY <1>1 DEF KeyTexts
  <1>6. \A i \in 1 .. n : FoldedKey(pairs, i) = ks[i]
    BY <1>4, <1>5 DEF FoldedKey
  <1>7. PairsOf(pairs, n, F)
    <2>1. \A i \in 1 .. n : FoldedKey(pairs, i) \in DOMAIN F /\ pairs[i][2] = F[FoldedKey(pairs, i)]
      BY <1>4, <1>6
    <2>2. \A x \in DOMAIN F : \E i \in 1 .. n : FoldedKey(pairs, i) = x
      BY <1>2, <1>6
    <2> QED
      BY <1>1, <1>4, <2>1, <2>2 DEF PairsOf
  <1>8. Writable(pairs, n)
    BY <1>1, <1>4, <1>5 DEF Writable
  <1> QED
    BY <1>2, <1>3, <1>7, <1>8

\* What a string written by no rule holds is read back once it is written.
LEMMA TextReadBack ==
    ASSUME NEW str \in CharacterText, ~CS!Failed(CS!ReadConnectionString(str))
    PROVE  CS!ReadConnectionString(StringOf(Pairs(CS!ReadConnectionString(str).fields), << CS!Space >>)) = CS!ReadConnectionString(str)
  <1> DEFINE out == CS!ReadConnectionString(str)
             b == << CS!Space >>
  <1>1. PICK F \in GoodFields : out = [fields |-> F]
    BY ReadGives
  <1>2. out.fields = F
    BY <1>1
  <1>3. PICK n \in Nat : PairsOf(Pairs(F), n, F) /\ Writable(Pairs(F), n)
    BY PairsAre
  <1>4. b \in Spacing
    BY DEF Spacing
  <1> HIDE DEF b
  <1>5. CS!ReadConnectionString(StringOf(Pairs(F), b)) = [fields |-> Kept(Pairs(F))]
    BY <1>3, <1>4, StringRead
  <1>6. Kept(Pairs(F)) = F
    BY <1>3, KeptOfPairs
  <1> HIDE DEF out
  <1>7. CS!ReadConnectionString(StringOf(Pairs(out.fields), b)) = out
    BY <1>1, <1>2, <1>5, <1>6
  <1> QED
    BY <1>7 DEF b, out

Unclosed == {v \in FieldValue : ~Contains(v, Closing)}

\* Unclosed, with the brace as it is.
LEMMA UnclosedIs == {v \in FieldValue : ~Contains(v, "}")} = Unclosed
  BY Zenon DEF Unclosed, Closing

\* What the constants give can be written.
LEMMA GivenIs ==
    /\ \A v \in FieldValue : v \in CharacterText
    /\ \A v \in Unclosed : v \in GoodValues
    /\ \A key \in FieldKey : key \in CharacterText /\ CanBeKey(key)
  <1>1. FieldValue \cup AnyText \subseteq Seq(Character) /\ FieldKey \subseteq {key \in Seq(Character) : CanBeKey(key)}
    BY StringsAssumption
  <1> QED
    BY <1>1 DEF CharacterText, Unclosed, GoodValues

\* What is written by the rules.
LEMMA WrittenRead ==
    ASSUME NEW pairs \in SeqOf(FieldKey \X Unclosed, MostFields), NEW b \in Spacing
    PROVE  CS!ReadConnectionString(StringOf(pairs, b)) = [fields |-> Kept(pairs)]
  <1>1. PICK n \in 0 .. MostFields : pairs \in [1 .. n -> FieldKey \X Unclosed]
    BY DEF SeqOf
  <1>2. n \in Nat
    BY StringsAssumption
  <1>3. \A i \in 1 .. n : pairs[i] \in FieldKey \X Unclosed
    BY <1>1
  <1>4. \A i \in 1 .. n : pairs[i][1] \in FieldKey /\ pairs[i][2] \in Unclosed
    BY <1>3
  <1>5. Writable(pairs, n)
    BY <1>1, <1>4, GivenIs DEF Writable
  <1> QED
    BY <1>2, <1>5, StringRead

-----------------------------------------------------------------------------
(* What SQLConnect is given.                                                *)

\* A key of SQLConnect.
ConnectKey == {"DSN", "UID", "PWD"}

\* The keys of SQLConnect can be written and stay as they are.
LEMMA GivenKey ==
    ASSUME NEW d \in ConnectKey
    PROVE  /\ << d >> \in CharacterText /\ CanBeKey(<< d >>) /\ CS!Fold(<< d >>) = << d >>
           /\ << d >> \notin {CS!FILEDSN, CS!DRIVER} /\ Doubled(<< d >>) = << d >>
  <1>1. d \in Character /\ Upper[d] = d /\ d \notin {CS!Space, Semicolon, Equals} /\ d \notin {"FILEDSN", "DRIVER"}
    <2>1. d \in Keyword /\ d \notin Mark /\ d \notin {"FILEDSN", "DRIVER"}
      BY DEF ConnectKey, Keyword, Mark, CS!Space
    <2>2. Mark \cup Keyword \subseteq Character /\ \A k \in Keyword : Upper[k] = k
      BY StringsAssumption
    <2>3. {CS!Space, Semicolon, Equals} \subseteq Mark
      BY DEF Mark, Semicolon, Equals
    <2> QED
      BY <2>1, <2>2, <2>3
  <1> DEFINE key == << d >>
  <1>2. key \in CharacterText /\ key # << >> /\ Len(key) = 1 /\ key[1] = d
    BY <1>1 DEF CharacterText
  <1>3. CS!Fold(key) = << Upper[d] >>
    BY DEF CS!Fold
  <1>4. key \notin {CS!FILEDSN, CS!DRIVER}
    <2>1. CS!FILEDSN[1] = "FILEDSN" /\ CS!DRIVER[1] = "DRIVER"
      BY DEF CS!FILEDSN, CS!DRIVER
    <2> HIDE DEF key
    <2> QED
      BY <1>1, <1>2, <2>1
  <1>5. Doubled(key) = key
    <2>1. Doubled(<< >>) = << >> /\ DoubledOf(d) = key
      <3>1. << >> \in CharacterText
        BY EmptySeq DEF CharacterText
      <3>2. Doubled(<< >>) = << >>
        BY <1>1, <3>1, DoubledFirst
      <3> QED
        BY <1>1, <3>2 DEF DoubledOf
    <2>2. << >> \in CharacterText
      BY EmptySeq DEF CharacterText
    <2>3. Doubled(<< d >> \o << >>) = DoubledOf(d) \o Doubled(<< >>)
      BY <1>1, <2>2, DoubledFirst
    <2> HIDE DEF key
    <2>4. key \o << >> = key
      BY <1>2, ConcatEmptySeq DEF CharacterText
    <2> QED
      BY <2>1, <2>3, <2>4 DEF key
  <1>6. CanBeKey(key)
    <2> HIDE DEF key
    <2>1. ~Contains(key, Semicolon)
      <3>1. \A i \in 1 .. Len(key) : key[i] = d
        BY <1>2
      <3> QED
        BY <1>1, <3>1 DEF Contains
    <2>2. key[1] # CS!Space /\ key[Len(key)] # CS!Space
      BY <1>1, <1>2
    <2> QED
      BY <1>2, <2>1, <2>2, Zenon DEF CanBeKey, Semicolon
  <1> QED
    BY <1>1, <1>2, <1>3, <1>4, <1>5, <1>6

\* Two and three, one by one.
LEMMA TwoAre ==
    ASSUME NEW x, NEW y
    PROVE  << x, y >> = << x >> \o << y >>
  <1> DEFINE C == {x, y}
             s == << x, y >>
             u == << x >>
             w == << y >>
             t == u \o w
  <1>1. s \in Seq(C) /\ Len(s) = 2 /\ s[1] = x /\ s[2] = y
    OBVIOUS
  <1>2. u \in Seq(C) /\ Len(u) = 1 /\ u[1] = x /\ w \in Seq(C) /\ Len(w) = 1 /\ w[1] = y
    OBVIOUS
  <1> HIDE DEF C, s, u, w
  <1>3. t \in Seq(C) /\ Len(t) = 1 + 1 /\ \A i \in 1 .. 1 + 1 : t[i] = IF i <= 1 THEN u[i] ELSE w[i - 1]
    BY <1>2, ConcatProperties
  <1> HIDE DEF t
  <1>4. t[1] = x /\ t[2] = y
    BY <1>2, <1>3
  <1>5. \A i \in 1 .. Len(s) : s[i] = t[i]
    BY <1>1, <1>4
  <1>6. s = t
    BY <1>1, <1>3, <1>5, SeqEqual
  <1> QED
    BY <1>6 DEF s, t, u, w

\* Three characters, one by one.
LEMMA ThreeAre ==
    ASSUME NEW x, NEW y, NEW z
    PROVE  << x, y, z >> = << x >> \o (<< y >> \o << z >>)
  <1> DEFINE C == {x, y, z}
             s == << x, y, z >>
             u == << x >>
             w == << y, z >>
             t == u \o w
  <1>1. s \in Seq(C) /\ Len(s) = 3 /\ s[1] = x /\ s[2] = y /\ s[3] = z
    OBVIOUS
  <1>2. u \in Seq(C) /\ Len(u) = 1 /\ u[1] = x /\ w \in Seq(C) /\ Len(w) = 2 /\ w[1] = y /\ w[2] = z
    OBVIOUS
  <1>7. w = << y >> \o << z >>
    BY TwoAre
  <1> HIDE DEF C, s, u, w
  <1>3. t \in Seq(C) /\ Len(t) = 1 + 2 /\ \A i \in 1 .. 1 + 2 : t[i] = IF i <= 1 THEN u[i] ELSE w[i - 1]
    BY <1>2, ConcatProperties
  <1> HIDE DEF t
  <1>4. t[1] = x /\ t[2] = y /\ t[3] = z
    BY <1>2, <1>3
  <1>5. \A i \in 1 .. Len(s) : s[i] = t[i]
    BY <1>1, <1>4
  <1>6. s = t
    BY <1>1, <1>3, <1>5, SeqEqual
  <1>8. << x, y, z >> = << x >> \o w
    BY <1>6 DEF s, t, u
  <1> QED
    BY <1>7, <1>8

\* The text of a value given to SQLConnect.
LEMMA AttributeText ==
    ASSUME NEW d \in ConnectKey, NEW v \in Unclosed, NEW tail \in CharacterText
    PROVE  /\ CS!Attribute(d, v) \in CharacterText
           /\ CS!Attribute(d, v) \o tail = FieldWith(<< d >>, v, << >>, << >>, TRUE, tail)
  <1> DEFINE e == << >>
             k == << d >>
             q == << Equals >>
             l == << Opening >>
             r == << Closing >>
             c == << Semicolon >>
             A == << d, Equals, Opening >>
             Z == << Closing, Semicolon >>
  <1>1. CS!Attribute(d, v) = (A \o v) \o Z
    BY Zenon DEF CS!Attribute, Equals, Opening, Closing, Semicolon
  <1>4. A = k \o (q \o l) /\ Z = r \o c
    BY TwoAre, ThreeAre
  <1>2. /\ k \in CharacterText /\ q \in CharacterText /\ l \in CharacterText /\ r \in CharacterText /\ c \in CharacterText
        /\ A \in CharacterText /\ Z \in CharacterText /\ e \in CharacterText /\ v \in CharacterText
    <2>1. {Equals, Semicolon, Opening, Closing} \subseteq Character
      BY MarksAre
    <2>2. d \in Character
      BY MarksAre DEF ConnectKey
    <2>3. v \in CharacterText
      BY GivenIs DEF Unclosed
    <2>4. k \in CharacterText /\ A \in CharacterText
      BY <2>1, <2>2 DEF CharacterText
    <2>5. q \in CharacterText /\ l \in CharacterText /\ r \in CharacterText /\ c \in CharacterText /\ Z \in CharacterText
      BY <2>1 DEF CharacterText
    <2>6. e \in CharacterText
      BY EmptySeq DEF CharacterText
    <2> QED
      BY <2>3, <2>4, <2>5, <2>6
  <1>3. Doubled(k) = k
    BY GivenKey
  <1> DEFINE x1 == c \o tail
             x2 == r \o x1
             x3 == v \o x2
             x4 == l \o x3
             x5 == q \o x4
             x6 == k \o x5
  <1>5. FieldWith(k, v, e, e, TRUE, tail) = Doubled(k) \o (e \o (q \o (e \o (l \o (v \o (r \o (e \o x1)))))))
    BY DEF FieldWith, Body
  <1>6. \A t \in CharacterText : e \o t = t
    BY ConcatEmptySeq DEF CharacterText
  <1>7. x1 = c \o tail /\ x2 = r \o x1 /\ x3 = v \o x2 /\ x4 = l \o x3 /\ x5 = q \o x4 /\ x6 = k \o x5
    OBVIOUS
  <1> HIDE DEF x1, x2, x3, x4, x5, x6, e, k, q, l, r, c, A, Z
  <1>8. x1 \in CharacterText
    BY <1>2, <1>7, BeginsAs
  <1>9. x2 \in CharacterText
    BY <1>2, <1>7, <1>8, BeginsAs
  <1>10. x3 \in CharacterText
    BY <1>2, <1>7, <1>9, BeginsAs
  <1>11. x4 \in CharacterText
    BY <1>2, <1>7, <1>10, BeginsAs
  <1>12. x5 \in CharacterText
    BY <1>2, <1>7, <1>11, BeginsAs
  <1>13. FieldWith(k, v, e, e, TRUE, tail) = x6
    <2>1. e \o x1 = x1
      BY <1>6, <1>8
    <2>2. e \o x4 = x4
      BY <1>6, <1>11
    <2>3. e \o x5 = x5
      BY <1>6, <1>12
    <2>4. FieldWith(k, v, e, e, TRUE, tail) = Doubled(k) \o (e \o (q \o (e \o (l \o (v \o x2)))))
      BY <1>5, <1>7, <2>1, Zenon
    <2>5. FieldWith(k, v, e, e, TRUE, tail) = Doubled(k) \o (e \o (q \o (e \o x4)))
      BY <1>7, <2>4, Zenon
    <2>6. FieldWith(k, v, e, e, TRUE, tail) = Doubled(k) \o (e \o x5)
      BY <1>7, <2>2, <2>5, Zenon
    <2> QED
      BY <1>3, <1>7, <2>3, <2>6, Zenon
  <1> DEFINE a1 == A \o v
             a2 == a1 \o Z
             ql == q \o l
  <1>14. a1 = A \o v /\ a2 = a1 \o Z /\ ql = q \o l
    OBVIOUS
  <1>15. CS!Attribute(d, v) = a2
    BY <1>1
  <1> HIDE DEF a1, a2, ql
  <1>16. a1 \in CharacterText /\ ql \in CharacterText
    BY <1>2, <1>14, BeginsAs
  <1>17. a2 \in CharacterText
    BY <1>2, <1>14, <1>16, BeginsAs
  <1>18. a2 \o tail = a1 \o (Z \o tail)
    <2>1. a1 \in CharacterText /\ Z \in CharacterText /\ tail \in CharacterText
      BY <1>2, <1>16
    <2>2. (a1 \o Z) \o tail = a1 \o (Z \o tail)
      BY <2>1, Associated
    <2> QED
      BY <1>14, <2>2
  <1>19. Z \o tail = x2
    <2>1. r \in CharacterText /\ c \in CharacterText /\ tail \in CharacterText
      BY <1>2
    <2>2. (r \o c) \o tail = r \o (c \o tail)
      BY <2>1, Associated
    <2> QED
      BY <1>4, <1>7, <2>2
  <1>20. a1 \o x2 = A \o x3
    <2>1. A \in CharacterText /\ v \in CharacterText /\ x2 \in CharacterText
      BY <1>2, <1>9
    <2>2. (A \o v) \o x2 = A \o (v \o x2)
      BY <2>1, Associated
    <2> QED
      BY <1>7, <1>14, <2>2
  <1>21. A \o x3 = k \o (ql \o x3)
    <2>1. k \in CharacterText /\ ql \in CharacterText /\ x3 \in CharacterText
      BY <1>2, <1>10, <1>16
    <2>2. (k \o ql) \o x3 = k \o (ql \o x3)
      BY <2>1, Associated
    <2> QED
      BY <1>4, <1>14, <2>2
  <1>22. ql \o x3 = x5
    <2>1. q \in CharacterText /\ l \in CharacterText /\ x3 \in CharacterText
      BY <1>2, <1>10
    <2>2. (q \o l) \o x3 = q \o (l \o x3)
      BY <2>1, Associated
    <2> QED
      BY <1>7, <1>14, <2>2
  <1>23. CS!Attribute(d, v) \o tail = FieldWith(k, v, e, e, TRUE, tail)
    BY <1>7, <1>13, <1>15, <1>18, <1>19, <1>20, <1>21, <1>22
  <1> QED
    <2>1. CS!Attribute(d, v) \in CharacterText
      BY <1>15, <1>17
    <2>2. CS!Attribute(d, v) \o tail = FieldWith(<< d >>, v, << >>, << >>, TRUE, tail)
      BY <1>23, Zenon DEF k, e
    <2> QED
      BY <2>1, <2>2, Zenon

\* A text is that of the values given for the keys in D.
Connects(text, D, given) ==
    \E n \in Nat : \E pairs, rest :
       /\ AllWritten(pairs, n, << >>, rest) /\ rest[0] = text
       /\ \A i \in 1 .. n : \E d \in D : pairs[i][1] = << d >> /\ pairs[i][2] = given[d]
       /\ \A d \in D : \E i \in 1 .. n : pairs[i][1] = << d >>

\* Nothing is written of no arguments.
LEMMA ConnectsNothing ==
    ASSUME NEW given
    PROVE  Connects(<< >>, {}, given)
  <1> DEFINE e == << >>
             rest == [i \in 0 .. 0 |-> e]
  <1>1. e \in CharacterText /\ CS!From(e, Parting) = e
    <2>1. e \in CharacterText
      BY EmptySeq DEF CharacterText
    <2> QED
      BY <2>1, FromStops
  <1>2. DOMAIN e = 1 .. 0
    <2>1. e \in Seq({}) /\ Len(e) = 0
      BY EmptySeq
    <2> HIDE DEF e
    <2> QED
      BY <2>1, LenProperties
  <1>3. 1 .. 0 = {}
    OBVIOUS
  <1> HIDE DEF e
  <1>4. rest \in [0 .. 0 -> CharacterText] /\ rest[0] = e
    BY <1>1
  <1> HIDE DEF rest
  <1>5. AllWritten(e, 0, e, rest)
    BY <1>1, <1>2, <1>3, <1>4 DEF AllWritten
  <1>6. Connects(e, {}, given)
    <2>1. /\ AllWritten(e, 0, << >>, rest) /\ rest[0] = e
          /\ \A i \in 1 .. 0 : \E d \in {} : e[i][1] = << d >> /\ e[i][2] = given[d]
          /\ \A d \in {} : \E i \in 1 .. 0 : e[i][1] = << d >>
      BY <1>3, <1>4, <1>5 DEF e
    <2> QED
      BY <2>1 DEF Connects
  <1> QED
    BY <1>6 DEF e

\* SQLConnect writes one argument more.
LEMMA ConnectsMore ==
    ASSUME NEW text, NEW D, NEW given, Connects(text, D, given), NEW d \in ConnectKey, given[d] \in Unclosed
    PROVE  Connects(CS!Attribute(d, given[d]) \o text, D \cup {d}, given)
  <1> DEFINE e == << >>
             v == given[d]
             key == << d >>
             whole == CS!Attribute(d, v) \o text
  <1>1. PICK n \in Nat : \E ps, rs :
           /\ AllWritten(ps, n, << >>, rs) /\ rs[0] = text
           /\ \A i \in 1 .. n : \E x \in D : ps[i][1] = << x >> /\ ps[i][2] = given[x]
           /\ \A x \in D : \E i \in 1 .. n : ps[i][1] = << x >>
    BY DEF Connects
  <1>2. PICK pairs, rest :
           /\ AllWritten(pairs, n, << >>, rest) /\ rest[0] = text
           /\ \A i \in 1 .. n : \E x \in D : pairs[i][1] = << x >> /\ pairs[i][2] = given[x]
           /\ \A x \in D : \E i \in 1 .. n : pairs[i][1] = << x >>
    BY <1>1
  <1>3. /\ rest \in [0 .. n -> CharacterText] /\ DOMAIN pairs = 1 .. n
        /\ \A i \in 1 .. n :
              /\ pairs[i][1] \in CharacterText /\ CanBeKey(pairs[i][1])
              /\ WrittenAs(pairs, i, e, rest[i - 1], rest[i])
        /\ CS!From(rest[n], Parting) = << >>
    BY <1>2 DEF AllWritten
  <1>4. text \in CharacterText
    BY <1>2, <1>3
  <1>5. v \in Unclosed /\ v \in CharacterText /\ ~Contains(v, Closing)
    BY GivenIs DEF Unclosed
  <1>6. key \in CharacterText /\ CanBeKey(key)
    BY GivenKey
  <1>7. e \in Spacing
    BY DEF Spacing
  <1>8. CanStand(v, e, TRUE)
    <2> HIDE DEF v, e
    <2> QED
      BY <1>5, <1>7 DEF CanStand
  <1>9. whole = FieldWith(key, v, e, e, TRUE, text) /\ whole \in CharacterText
    <2>1. CS!Attribute(d, v) \in CharacterText /\ CS!Attribute(d, v) \o text = FieldWith(<< d >>, v, << >>, << >>, TRUE, text)
      <3> HIDE DEF v
      <3> QED
        BY <1>4, <1>5, AttributeText
    <2>2. CS!Attribute(d, v) \o text \in CharacterText
      BY <1>4, <2>1, BeginsAs
    <2> QED
      BY <2>1, <2>2
  <1>10. CS!From(whole, Parting) = FieldWith(key, v, e, e, TRUE, text)
    <2> HIDE DEF key, v, e, whole
    <2>1. FieldWith(key, v, e, e, TRUE, text) # << >> /\ FieldWith(key, v, e, e, TRUE, text)[1] \notin Parting
      BY <1>4, <1>6, <1>7, <1>8, FieldFound
    <2>2. whole # << >> /\ whole[1] \notin Parting
      BY <1>9, <2>1
    <2>3. CS!From(whole, Parting) = whole
      BY <1>9, <2>2, FromStops
    <2> QED
      BY <1>9, <2>3
  <1> DEFINE m == n + 1
             ps == [i \in 1 .. m |-> IF i = 1 THEN << key, v >> ELSE pairs[i - 1]]
             rs == [i \in 0 .. m |-> IF i = 0 THEN whole ELSE rest[i - 1]]
  <1> HIDE DEF key, v, whole
  <1>11. ps[1][1] = key /\ ps[1][2] = v /\ \A i \in 1 .. n : ps[i + 1] = pairs[i]
    <2>1. 1 \in 1 .. m
      OBVIOUS
    <2>2. ps[1] = << key, v >>
      BY <2>1
    <2>3. ASSUME NEW i \in 1 .. n
          PROVE  ps[i + 1] = pairs[i]
      <3>1. i + 1 \in 1 .. m /\ i + 1 # 1 /\ (i + 1) - 1 = i
        OBVIOUS
      <3> HIDE DEF m
      <3> QED
        BY <3>1
    <2> HIDE DEF ps
    <2>4. ps[1][1] = key /\ ps[1][2] = v
      BY <2>2
    <2> QED
      BY <2>3, <2>4
  <1>12. rs[0] = whole /\ rs[1] = text /\ rs \in [0 .. m -> CharacterText] /\ \A i \in 0 .. n : rs[i + 1] = rest[i]
    <2>1. 0 \in 0 .. m /\ 0 \in 0 .. n
      OBVIOUS
    <2>2. rs[0] = whole
      BY <2>1
    <2>3. \A i \in 0 .. n : rs[i + 1] = rest[i]
      <3> TAKE i \in 0 .. n
      <3>1. i + 1 \in 0 .. m /\ i + 1 # 0 /\ (i + 1) - 1 = i
        OBVIOUS
      <3> HIDE DEF m
      <3> QED
        BY <3>1
    <2>4. rs[0 + 1] = rest[0]
      BY <2>1, <2>3
    <2>5. rs \in [0 .. m -> CharacterText]
      <3>1. \A i \in 0 .. m : i # 0 => i - 1 \in 0 .. n
        OBVIOUS
      <3> HIDE DEF m
      <3> QED
        BY <1>3, <1>9, <3>1
    <2> HIDE DEF rs
    <2> QED
      BY <1>2, <2>2, <2>3, <2>4, <2>5
  <1>13. DOMAIN ps = 1 .. m
    OBVIOUS
  <1>14. m \in Nat /\ \A i \in 1 .. m : i = 1 \/ \E j \in 1 .. n : i = j + 1
    <2>1. m \in Nat
      OBVIOUS
    <2>2. ASSUME NEW i \in 1 .. m, i # 1
          PROVE  \E j \in 1 .. n : i = j + 1
      <3>1. i - 1 \in 1 .. n /\ i = (i - 1) + 1
        BY <2>2
      <3> QED
        BY <3>1
    <2> HIDE DEF m
    <2> QED
      BY <2>1, <2>2
  <1> HIDE DEF ps, rs
  <1>15. ASSUME NEW i \in 1 .. m
         PROVE  ps[i][1] \in CharacterText /\ CanBeKey(ps[i][1]) /\ WrittenAs(ps, i, e, rs[i - 1], rs[i])
    <2>1. CASE i = 1
      <3>1. WrittenAs(ps, 1, e, rs[0], rs[1])
        BY <1>8, <1>10, <1>11, <1>12 DEF WrittenAs
      <3>2. ps[1][1] \in CharacterText /\ CanBeKey(ps[1][1]) /\ 1 - 1 = 0
        BY <1>6, <1>11
      <3> QED
        BY <2>1, <3>1, <3>2
    <2>2. CASE i # 1
      <3>1. PICK j \in 1 .. n : i = j + 1
        BY <1>14, <2>2
      <3>2. j \in 0 .. n /\ j - 1 \in 0 .. n /\ i - 1 = (j - 1) + 1
        BY <3>1
      <3>3. ps[i] = pairs[j] /\ rs[i] = rest[j] /\ rs[i - 1] = rest[j - 1]
        BY <1>11, <1>12, <3>1, <3>2
      <3>4. pairs[j][1] \in CharacterText /\ CanBeKey(pairs[j][1]) /\ WrittenAs(pairs, j, e, rest[j - 1], rest[j])
        BY <1>3
      <3> HIDE DEF e
      <3>5. WrittenAs(ps, i, e, rs[i - 1], rs[i])
        BY <3>3, <3>4 DEF WrittenAs
      <3> QED
        BY <3>3, <3>4, <3>5
    <2> QED
      BY <2>1, <2>2
  <1>16. CS!From(rs[m], Parting) = << >>
    <2>1. n \in 0 .. n
      OBVIOUS
    <2>2. rs[m] = rest[n]
      BY <1>12, <2>1
    <2> QED
      BY <1>3, <2>2
  <1>17. AllWritten(ps, m, e, rs)
    BY <1>12, <1>13, <1>15, <1>16 DEF AllWritten
  <1>18. \A i \in 1 .. m : \E x \in D \cup {d} : ps[i][1] = << x >> /\ ps[i][2] = given[x]
    <2> TAKE i \in 1 .. m
    <2>1. CASE i = 1
      BY <1>11, <2>1 DEF key, v
    <2>2. CASE i # 1
      <3>1. PICK j \in 1 .. n : i = j + 1
        BY <1>14, <2>2
      <3>2. ps[i] = pairs[j]
        BY <1>11, <3>1
      <3> QED
        BY <1>2, <3>2
    <2> QED
      BY <2>1, <2>2
  <1>19. \A x \in D \cup {d} : \E i \in 1 .. m : ps[i][1] = << x >>
    <2> TAKE x \in D \cup {d}
    <2>1. CASE x = d
      <3>1. 1 \in 1 .. m
        BY <1>14
      <3> QED
        BY <1>11, <2>1, <3>1 DEF key
    <2>2. CASE x \in D
      <3>1. PICK j \in 1 .. n : pairs[j][1] = << x >>
        BY <1>2, <2>2
      <3>2. j + 1 \in 1 .. m /\ ps[j + 1] = pairs[j]
        BY <1>11
      <3> QED
        BY <3>1, <3>2
    <2> QED
      BY <2>1, <2>2
  <1> HIDE DEF m
  <1>20. Connects(whole, D \cup {d}, given)
    <2> DEFINE E == D \cup {d}
    <2>1. /\ AllWritten(ps, m, << >>, rs) /\ rs[0] = whole
          /\ \A i \in 1 .. m : \E x \in E : ps[i][1] = << x >> /\ ps[i][2] = given[x]
          /\ \A x \in E : \E i \in 1 .. m : ps[i][1] = << x >>
      BY <1>12, <1>17, <1>18, <1>19 DEF e
    <2> HIDE DEF E
    <2>2. \E pp, rr :
             /\ AllWritten(pp, m, << >>, rr) /\ rr[0] = whole
             /\ \A i \in 1 .. m : \E x \in E : pp[i][1] = << x >> /\ pp[i][2] = given[x]
             /\ \A x \in E : \E i \in 1 .. m : pp[i][1] = << x >>
      BY <2>1
    <2>3. Connects(whole, E, given)
      BY <1>14, <2>2 DEF Connects
    <2> QED
      BY <2>3 DEF E
  <1> QED
    BY <1>20 DEF whole, v

\* The text of a value, if it is given.
AttributeOf(given, d) == IF d \in DOMAIN given THEN CS!Attribute(d, given[d]) ELSE << >>

\* The same where the argument may be a null pointer.
LEMMA ConnectsOne ==
    ASSUME NEW given, NEW d \in ConnectKey, d \in DOMAIN given => given[d] \in Unclosed,
           NEW D, NEW text \in CharacterText, Connects(text, D, given)
    PROVE  AttributeOf(given, d) \in CharacterText /\ Connects(AttributeOf(given, d) \o text, D \cup ({d} \cap DOMAIN given), given)
  <1>1. CASE d \in DOMAIN given
    <2> DEFINE v == given[d]
    <2>1. v \in Unclosed
      BY <1>1
    <2> HIDE DEF v
    <2>2. CS!Attribute(d, v) \in CharacterText
      BY <2>1, AttributeText
    <2>3. Connects(CS!Attribute(d, given[d]) \o text, D \cup {d}, given)
      BY <2>1, ConnectsMore DEF v
    <2>4. D \cup ({d} \cap DOMAIN given) = D \cup {d} /\ AttributeOf(given, d) = CS!Attribute(d, given[d])
      BY <1>1 DEF AttributeOf
    <2> QED
      BY <2>2, <2>3, <2>4 DEF v
  <1>2. CASE d \notin DOMAIN given
    <2> DEFINE e == << >>
    <2>1. e \in CharacterText
      BY EmptySeq DEF CharacterText
    <2>2. D \cup ({d} \cap DOMAIN given) = D /\ AttributeOf(given, d) = e
      BY <1>2 DEF AttributeOf
    <2>3. e \o text = text
      BY ConcatEmptySeq DEF CharacterText
    <2> HIDE DEF e
    <2> QED
      BY <2>1, <2>2, <2>3
  <1> QED
    BY <1>1, <1>2

\* The string SQLConnect writes is a writing of its arguments.
LEMMA ConnectsAll ==
    ASSUME NEW ks \in SUBSET ConnectKey, NEW given, DOMAIN given = ks, \A d \in ks : given[d] \in Unclosed
    PROVE  Connects(CS!ConnectString(given), ks, given)
  <1> DEFINE k1 == "DSN"
             k2 == "UID"
             k3 == "PWD"
             three == << k1, k2, k3 >>
             texts == [i \in 1 .. 3 |-> AttributeOf(given, three[i])]
  <1>1. CS!ConnectString(given) = FlattenSeq(texts)
    <2>1. CS!ConnectString(given) = CS!FlattenSeq(texts)
      BY Zenon DEF CS!ConnectString, AttributeOf
    <2>2. \A s : CS!FlattenSeq(s) = FlattenSeq(s)
      BY Zenon DEF CS!FlattenSeq, FlattenSeq
    <2> HIDE DEF texts
    <2> QED
      BY <2>1, <2>2, Zenon
  <1>2. ConnectKey = {k1, k2, k3}
    BY Zenon DEF ConnectKey
  <1> HIDE DEF k1, k2, k3
  <1>3. three[1] = k1 /\ three[2] = k2 /\ three[3] = k3
    OBVIOUS
  <1> HIDE DEF three
  <1>4. \A d \in ConnectKey : d \in DOMAIN given => given[d] \in Unclosed
    OBVIOUS
  <1>5. << >> \in CharacterText
    BY EmptySeq DEF CharacterText
  <1>6. \A d \in ConnectKey : AttributeOf(given, d) \in CharacterText
    <2> TAKE d \in ConnectKey
    <2>1. Connects(<< >>, {}, given)
      BY ConnectsNothing
    <2> QED
      BY <1>4, <1>5, <2>1, ConnectsOne
  <1>7. texts[1] = AttributeOf(given, k1) /\ texts[2] = AttributeOf(given, k2) /\ texts[3] = AttributeOf(given, k3)
    <2>1. 1 \in 1 .. 3 /\ 2 \in 1 .. 3 /\ 3 \in 1 .. 3
      OBVIOUS
    <2> QED
      BY <1>3, <2>1
  <1>8. texts \in Seq(CharacterText) /\ Len(texts) = 3
    <2>1. \A i \in 1 .. 3 : i = 1 \/ i = 2 \/ i = 3
      OBVIOUS
    <2>2. \A i \in 1 .. 3 : AttributeOf(given, three[i]) \in CharacterText
      BY <1>2, <1>3, <1>6, <2>1
    <2>3. texts \in [1 .. 3 -> CharacterText]
      BY <2>2
    <2> HIDE DEF texts
    <2> QED
      BY <2>3, Sequenced
  <1> HIDE DEF texts
  <1>9. PICK rest \in [0 .. 3 -> CharacterText] :
           /\ rest[0] = FlattenSeq(texts) /\ rest[3] = << >>
           /\ \A i \in 1 .. 3 : rest[i - 1] = texts[i] \o rest[i]
    <2>1. \E rest \in [0 .. Len(texts) -> CharacterText] :
             /\ rest[0] = FlattenSeq(texts) /\ rest[Len(texts)] = << >>
             /\ \A i \in 1 .. Len(texts) : texts[i] \in CharacterText /\ rest[i - 1] = texts[i] \o rest[i]
      BY <1>8, Flattened
    <2> QED
      BY <1>8, <2>1
  <1> DEFINE r0 == rest[0]
             r1 == rest[1]
             r2 == rest[2]
             r3 == rest[3]
  <1>10. /\ r0 \in CharacterText /\ r1 \in CharacterText /\ r2 \in CharacterText /\ r3 \in CharacterText
         /\ r0 = AttributeOf(given, k1) \o r1 /\ r1 = AttributeOf(given, k2) \o r2 /\ r2 = AttributeOf(given, k3) \o r3
         /\ r0 = CS!ConnectString(given) /\ r3 = << >>
    <2>1. 1 \in 1 .. 3 /\ 2 \in 1 .. 3 /\ 3 \in 1 .. 3 /\ 1 - 1 = 0 /\ 2 - 1 = 1 /\ 3 - 1 = 2
      OBVIOUS
    <2>2. r0 = texts[1] \o r1 /\ r1 = texts[2] \o r2 /\ r2 = texts[3] \o r3
      BY <1>9, <2>1
    <2>3. r0 \in CharacterText /\ r1 \in CharacterText /\ r2 \in CharacterText /\ r3 \in CharacterText
      OBVIOUS
    <2> QED
      BY <1>1, <1>7, <1>9, <2>2, <2>3
  <1> HIDE DEF r0, r1, r2, r3
  <1> DEFINE d3 == {} \cup ({k3} \cap DOMAIN given)
             d2 == d3 \cup ({k2} \cap DOMAIN given)
             d1 == d2 \cup ({k1} \cap DOMAIN given)
  <1>11. Connects(r2, d3, given)
    <2>1. Connects(r3, {}, given)
      BY <1>10, ConnectsNothing
    <2> QED
      BY <1>2, <1>4, <1>10, <2>1, ConnectsOne
  <1> HIDE DEF d3
  <1>12. Connects(r1, d2, given)
    BY <1>2, <1>4, <1>10, <1>11, ConnectsOne
  <1>13. d2 = d3 \cup ({k2} \cap DOMAIN given)
    OBVIOUS
  <1> HIDE DEF d2
  <1>14. Connects(r0, d1, given)
    BY <1>2, <1>4, <1>10, <1>12, ConnectsOne
  <1>15. d1 = ks
    BY <1>2, <1>13 DEF d3
  <1> QED
    BY <1>10, <1>14, <1>15

\* What SQLConnect is given arrives.
LEMMA ConnectRead ==
    ASSUME NEW ks \in SUBSET ConnectKey, NEW given, DOMAIN given = ks, \A d \in ks : given[d] \in Unclosed
    PROVE  CS!ReadConnectionString(CS!ConnectString(given)) = [fields |-> [k \in {<< d >> : d \in ks} |-> given[k[1]]]]
  <1> DEFINE G == [k \in {<< d >> : d \in ks} |-> given[k[1]]]
             text == CS!ConnectString(given)
  <1>1. Connects(text, ks, given)
    BY ConnectsAll
  <1> HIDE DEF text
  <1>2. PICK n \in Nat : \E ps, rs :
           /\ AllWritten(ps, n, << >>, rs) /\ rs[0] = text
           /\ \A i \in 1 .. n : \E d \in ks : ps[i][1] = << d >> /\ ps[i][2] = given[d]
           /\ \A d \in ks : \E i \in 1 .. n : ps[i][1] = << d >>
    BY <1>1 DEF Connects
  <1>3. PICK pairs, rest :
           /\ AllWritten(pairs, n, << >>, rest) /\ rest[0] = text
           /\ \A i \in 1 .. n : \E d \in ks : pairs[i][1] = << d >> /\ pairs[i][2] = given[d]
           /\ \A d \in ks : \E i \in 1 .. n : pairs[i][1] = << d >>
    BY <1>2
  <1>4. CS!ReadConnectionString(text) = [fields |-> Kept(pairs)]
    <2> DEFINE e == << >>
    <2>1. e \in Spacing
      BY DEF Spacing
    <2>2. AllWritten(pairs, n, e, rest)
      BY <1>3
    <2> HIDE DEF e
    <2>3. CS!ReadConnectionString(rest[0]) = [fields |-> Kept(pairs)]
      BY <2>1, <2>2, FieldsRead
    <2> QED
      BY <1>3, <2>3
  <1>5. \A d \in ks : CS!Fold(<< d >>) = << d >> /\ << d >> \notin {CS!FILEDSN, CS!DRIVER}
    BY GivenKey
  <1>6. DOMAIN G = {<< d >> : d \in ks} /\ IsMap(G) /\ \A d \in ks : G[<< d >>] = given[d]
    <2>1. \A d \in ks : << d >>[1] = d
      OBVIOUS
    <2> QED
      BY <2>1 DEF IsMap
  <1> HIDE DEF G
  <1>7. DOMAIN pairs = 1 .. n
    BY <1>3 DEF AllWritten
  <1>8. ASSUME NEW i \in 1 .. n
        PROVE  FoldedKey(pairs, i) \in DOMAIN G /\ pairs[i][2] = G[FoldedKey(pairs, i)]
    <2>1. PICK d \in ks : pairs[i][1] = << d >> /\ pairs[i][2] = given[d]
      BY <1>3
    <2>2. FoldedKey(pairs, i) = << d >>
      BY <1>5, <2>1 DEF FoldedKey
    <2> QED
      BY <1>6, <2>1, <2>2
  <1>9. \A x \in DOMAIN G : \E i \in 1 .. n : FoldedKey(pairs, i) = x
    <2> TAKE x \in DOMAIN G
    <2>1. PICK d \in ks : x = << d >>
      BY <1>6
    <2>2. PICK i \in 1 .. n : pairs[i][1] = << d >>
      BY <1>3
    <2> QED
      BY <1>5, <2>1, <2>2 DEF FoldedKey
  <1>10. {CS!FILEDSN, CS!DRIVER} \cap DOMAIN G = {}
    BY <1>5, <1>6
  <1>11. PairsOf(pairs, n, G)
    BY <1>6, <1>7, <1>8, <1>9, <1>10 DEF PairsOf
  <1>12. Kept(pairs) = G
    BY <1>11, KeptOfPairs
  <1> QED
    BY <1>4, <1>12 DEF G, text

-----------------------------------------------------------------------------
(* Lists of table types.                                                    *)

\* The quotes of a text are at p and q, and its commas between them.
QuotesAt(u, p, q) ==
    /\ p \in 1 .. Len(u) /\ q \in 1 .. Len(u) /\ p < q
    /\ \A j \in 1 .. Len(u) : (u[j] = Quotation <=> j \in {p, q}) /\ (u[j] = Comma => p < j /\ j < q)

\* A text with n quotes that has no comma outside of them.
Shaped(u, n) ==
    \/ n = 0 /\ \A j \in 1 .. Len(u) : u[j] # Quotation /\ u[j] # Comma
    \/ n = 1 /\ \E p \in 1 .. Len(u) : \A j \in 1 .. Len(u) : (u[j] = Quotation <=> j = p) /\ (u[j] = Comma => p < j)
    \/ n = 2 /\ \E p, q \in 1 .. Len(u) : QuotesAt(u, p, q)

\* A value: a text without quotes, or one that is read as it stands.
Bounded(v) == v[1] # CS!Space /\ v[Len(v)] # CS!Space
GoodListed(v) ==
    \/ \A j \in 1 .. Len(v) : v[j] # Quotation
    \/ Bounded(v) /\ \E p, q \in 1 .. Len(v) : QuotesAt(v, p, q) /\ ~(p = 1 /\ q = Len(v))

ListedValue == {v \in CharacterText : GoodListed(v)}
ValueSets == {V \in SUBSET ListedValue : IsFiniteSet(V)}

ListedTo(u, n, V) == [curr |-> u, quotes |-> n, values |-> V]
Invalid == {CS!Failure("invalid list")}
IsListed(s) == \E u \in CharacterText, n \in {0, 1, 2}, V \in ValueSets : Shaped(u, n) /\ s = ListedTo(u, n, V)
ListState == {s \in [curr : CharacterText, quotes : {0, 1, 2}, values : ValueSets] : IsListed(s)} \cup Invalid

\* A list is invalid or read up to a value, not both.
LEMMA InvalidIs ==
    /\ \A s \in Invalid : CS!Failed(s)
    /\ \A u, n, V : ~CS!Failed(ListedTo(u, n, V))
    /\ \A u, n, V : ListedTo(u, n, V).curr = u /\ ListedTo(u, n, V).values = V /\ ListedTo(u, n, V).quotes = n
  <1>1. \A u, n, V : DOMAIN ListedTo(u, n, V) = {"curr", "quotes", "values"}
    BY DEF ListedTo
  <1>2. "error" \notin {"curr", "quotes", "values"}
    OBVIOUS
  <1>3. \A u, n, V : ~CS!Failed(ListedTo(u, n, V))
    BY <1>1, <1>2, Zenon DEF CS!Failed
  <1>4. \A s \in Invalid : CS!Failed(s)
    BY Zenon, Outcomes DEF Invalid
  <1> QED
    BY <1>3, <1>4 DEF ListedTo

\* What a turn makes of the value read so far.
TurnsOn(u, n, V, c) ==
    /\ c = Comma /\ n # 1 => CS!ListTurn(ListedTo(u, n, V), c) = ListedTo(<< >>, 0, V \cup {CS!Unquoted(u)})
    /\ c # Quotation /\ (c # Comma \/ n = 1) => CS!ListTurn(ListedTo(u, n, V), c) = ListedTo(Append(u, c), n, V)
    /\ c = Quotation /\ n # 2 => CS!ListTurn(ListedTo(u, n, V), c) = ListedTo(Append(u, c), n + 1, V)
    /\ c = Quotation /\ n = 2 => CS!ListTurn(ListedTo(u, n, V), c) \in Invalid

\* parseCatalogFnVLArgs: the cases of a turn, said with the marks by name.
LEMMA ListTurnOf ==
    ASSUME NEW u, NEW n \in {0, 1, 2}, NEW V, NEW c
    PROVE  TurnsOn(u, n, V, c)
  <1> DEFINE s == ListedTo(u, n, V)
             e == CS!Failure("invalid list")
  <1>1. CS!ListTurn(s, c) =
           IF CS!Failed(s) THEN s
           ELSE IF c = Comma /\ s.quotes % 2 = 0
           THEN [curr |-> << >>, quotes |-> 0, values |-> s.values \cup {CS!Unquoted(s.curr)}]
           ELSE IF c # Quotation THEN [curr |-> Append(s.curr, c), quotes |-> s.quotes, values |-> s.values]
           ELSE IF s.quotes >= 2 THEN e
           ELSE [curr |-> Append(s.curr, c), quotes |-> s.quotes + 1, values |-> s.values]
    BY Zenon DEF CS!ListTurn, Comma, Quotation
  <1>2. ~CS!Failed(s) /\ s.curr = u /\ s.values = V /\ s.quotes = n
    BY InvalidIs
  <1>3. e \in Invalid
    BY Zenon DEF Invalid
  <1>4. (n % 2 = 0) <=> n # 1
    OBVIOUS
  <1>5. (n >= 2) <=> n = 2
    OBVIOUS
  <1>6. Comma # Quotation
    BY MarksAre
  <1> HIDE DEF s, e
  <1>7. CS!ListTurn(s, c) =
           IF c = Comma /\ n # 1 THEN ListedTo(<< >>, 0, V \cup {CS!Unquoted(u)})
           ELSE IF c # Quotation THEN ListedTo(Append(u, c), n, V)
           ELSE IF n = 2 THEN e
           ELSE ListedTo(Append(u, c), n + 1, V)
    <2>1. CS!ListTurn(s, c) =
           IF c = Comma /\ s.quotes % 2 = 0
           THEN [curr |-> << >>, quotes |-> 0, values |-> s.values \cup {CS!Unquoted(s.curr)}]
           ELSE IF c # Quotation THEN [curr |-> Append(s.curr, c), quotes |-> s.quotes, values |-> s.values]
           ELSE IF s.quotes >= 2 THEN e
           ELSE [curr |-> Append(s.curr, c), quotes |-> s.quotes + 1, values |-> s.values]
      BY <1>1, <1>2, Zenon
    <2>2. CS!ListTurn(s, c) =
           IF c = Comma /\ n % 2 = 0
           THEN [curr |-> << >>, quotes |-> 0, values |-> V \cup {CS!Unquoted(u)}]
           ELSE IF c # Quotation THEN [curr |-> Append(u, c), quotes |-> n, values |-> V]
           ELSE IF n >= 2 THEN e
           ELSE [curr |-> Append(u, c), quotes |-> n + 1, values |-> V]
      BY <1>2, <2>1, Zenon
    <2> QED
      BY <1>4, <1>5, <2>2, Zenon DEF ListedTo
  <1>8. /\ c = Comma /\ n # 1 => CS!ListTurn(s, c) = ListedTo(<< >>, 0, V \cup {CS!Unquoted(u)})
        /\ c # Quotation /\ (c # Comma \/ n = 1) => CS!ListTurn(s, c) = ListedTo(Append(u, c), n, V)
        /\ c = Quotation /\ n # 2 => CS!ListTurn(s, c) = ListedTo(Append(u, c), n + 1, V)
        /\ c = Quotation /\ n = 2 => CS!ListTurn(s, c) \in Invalid
    BY <1>3, <1>6, <1>7, Zenon
  <1> QED
    BY <1>8 DEF s, TurnsOn

\* One more character of a text.
LEMMA OneLonger ==
    ASSUME NEW u \in CharacterText, NEW c \in Character
    PROVE  /\ Append(u, c) \in CharacterText /\ Len(u) \in Nat /\ Len(Append(u, c)) = Len(u) + 1
           /\ Append(u, c)[Len(u) + 1] = c /\ \A j \in 1 .. Len(u) : Append(u, c)[j] = u[j]
           /\ Append(u, c) # << >>
  <1>1. u \in Seq(Character)
    BY DEF CharacterText
  <1>2. Append(u, c) \in Seq(Character) /\ Append(u, c) # << >> /\ Len(Append(u, c)) = Len(u) + 1 /\ Append(u, c)[Len(u) + 1] = c
        /\ \A j \in 1 .. Len(u) : Append(u, c)[j] = u[j]
    BY <1>1, AppendProperties
  <1> QED
    BY <1>1, <1>2, LenProperties DEF CharacterText

\* A value keeps its shape as it grows.
LEMMA ShapedOn ==
    ASSUME NEW u \in CharacterText, NEW c \in Character, NEW n \in {0, 1, 2}, Shaped(u, n)
    PROVE  /\ c # Quotation /\ (c # Comma \/ n = 1) => Shaped(Append(u, c), n)
           /\ c = Quotation /\ n # 2 => Shaped(Append(u, c), n + 1)
  <1> DEFINE t == Append(u, c)
             m == Len(u)
  <1>1. m \in Nat /\ Len(t) = m + 1 /\ t[m + 1] = c /\ \A j \in 1 .. m : t[j] = u[j]
    BY OneLonger
  <1>2. Comma # Quotation
    BY MarksAre
  <1> HIDE DEF t
  <1>3. \A j \in 1 .. Len(t) : j \in 1 .. m \/ j = m + 1
    BY <1>1
  <1>4. 1 .. m \subseteq 1 .. Len(t) /\ m + 1 \in 1 .. Len(t)
    BY <1>1
  <1>5. \A j \in 1 .. m : j < m + 1 /\ j # m + 1
    BY <1>1
  <1>6. CASE n = 0
    <2>1. \A j \in 1 .. m : u[j] # Quotation /\ u[j] # Comma
      BY <1>6 DEF Shaped
    <2> HIDE DEF m
    <2>2. c # Quotation /\ c # Comma => \A j \in 1 .. Len(t) : t[j] # Quotation /\ t[j] # Comma
      BY <1>1, <1>3, <2>1
    <2>3. c = Quotation => \A j \in 1 .. Len(t) : (t[j] = Quotation <=> j = m + 1) /\ (t[j] = Comma => m + 1 < j)
      BY <1>1, <1>2, <1>3, <1>5, <2>1
    <2> QED
      BY <1>4, <1>6, <2>2, <2>3 DEF Shaped, t
  <1>7. CASE n = 1
    <2>1. PICK p \in 1 .. m : \A j \in 1 .. m : (u[j] = Quotation <=> j = p) /\ (u[j] = Comma => p < j)
      BY <1>7 DEF Shaped
    <2>2. p # m + 1 /\ p < m + 1 /\ p \in 1 .. Len(t)
      BY <1>4, <1>5
    <2> HIDE DEF m
    <2>3. c # Quotation => \A j \in 1 .. Len(t) : (t[j] = Quotation <=> j = p) /\ (t[j] = Comma => p < j)
      BY <1>1, <1>3, <2>1, <2>2
    <2>4. c = Quotation => QuotesAt(t, p, m + 1)
      <3>1. c = Quotation => \A j \in 1 .. Len(t) : (t[j] = Quotation <=> j \in {p, m + 1}) /\ (t[j] = Comma => p < j /\ j < m + 1)
        BY <1>1, <1>2, <1>3, <1>5, <2>1, <2>2
      <3> QED
        BY <1>4, <2>2, <3>1 DEF QuotesAt
    <2>5. n + 1 = 2
      BY <1>7
    <2>6. c # Quotation => Shaped(t, 1)
      BY <2>2, <2>3 DEF Shaped
    <2>7. c = Quotation => Shaped(t, 2)
      BY <1>4, <2>2, <2>4 DEF Shaped
    <2> QED
      BY <1>7, <2>5, <2>6, <2>7 DEF t
  <1>8. CASE n = 2
    <2>1. PICK p, q \in 1 .. m : QuotesAt(u, p, q)
      BY <1>8 DEF Shaped
    <2>2. p # m + 1 /\ q # m + 1 /\ p < q /\ p \in 1 .. Len(t) /\ q \in 1 .. Len(t)
      BY <1>4, <1>5, <2>1 DEF QuotesAt
    <2>3. \A j \in 1 .. m : (u[j] = Quotation <=> j \in {p, q}) /\ (u[j] = Comma => p < j /\ j < q)
      BY <2>1 DEF QuotesAt
    <2> HIDE DEF m
    <2>4. c # Quotation /\ c # Comma =>
             \A j \in 1 .. Len(t) : (t[j] = Quotation <=> j \in {p, q}) /\ (t[j] = Comma => p < j /\ j < q)
      BY <1>1, <1>3, <2>2, <2>3
    <2>5. c # Quotation /\ c # Comma => Shaped(t, 2)
      BY <2>2, <2>4 DEF QuotesAt, Shaped
    <2> QED
      BY <1>8, <2>5 DEF t
  <1> QED
    BY <1>6, <1>7, <1>8

\* v is u without the spaces around it, from a to b.
CutFrom(v, u, a, b) ==
    /\ a \in 1 .. Len(u) /\ b \in 1 .. Len(u) /\ a <= b /\ Len(v) = b - a + 1 /\ \A j \in 1 .. Len(v) : v[j] = u[a + j - 1]
    /\ u[a] # CS!Space /\ u[b] # CS!Space /\ \A j \in 1 .. Len(u) : j < a \/ b < j => u[j] = CS!Space

\* Trimming takes all of the spaces around a text and nothing else.
LEMMA TrimmedGives ==
    ASSUME NEW u \in CharacterText, NEW v, v = CS!TrimRight(CS!From(u, {CS!Space}))
    PROVE  /\ v \in CharacterText
           /\ \/ v = << >> /\ \A j \in 1 .. Len(u) : u[j] = CS!Space
              \/ \E a, b \in 1 .. Len(u) : CutFrom(v, u, a, b)
  <1> DEFINE n == Len(u)
             I == {j \in 1 .. n : u[j] # CS!Space}
             w == CS!From(u, {CS!Space})
  <1>1. n \in Nat
    BY LenProperties DEF CharacterText
  <1>2. CASE I = {}
    <2>1. \A j \in 1 .. n : u[j] = CS!Space
      BY <1>2
    <2>2. w = << >>
      <3> HIDE DEF w
      <3>1. CS!From(u, {CS!Space}) = << >>
        BY <1>1, <2>1, FromAt
      <3> QED
        BY <3>1 DEF w
    <2>3. CS!TrimRight(<< >>) = << >>
      <3>1. Len(<< >>) = 0 /\ SubSeq(<< >>, 1, 0) = << >> /\ \A j \in 1 .. 0 : << >>[j] = CS!Space
        OBVIOUS
      <3> QED
        BY <3>1, TrimAt
    <2>4. << >> \in CharacterText
      BY EmptySeq DEF CharacterText
    <2> QED
      BY <2>1, <2>2, <2>3, <2>4
  <1>3. CASE I # {}
    <2>1. PICK a \in I : \A j \in I : a <= j
      <3>1. I \in SUBSET Nat
        OBVIOUS
      <3> HIDE DEF I
      <3> QED
        BY <1>3, <3>1, LeastNumber
    <2>2. PICK b \in I : \A j \in I : j <= b
      <3> DEFINE J == {m \in 0 .. n : n - m \in I}
      <3>1. J \in SUBSET Nat
        OBVIOUS
      <3>2. \A j \in I : n - j \in J
        BY <1>1
      <3>3. J # {}
        BY <1>3, <3>2
      <3> HIDE DEF I
      <3>4. PICK m \in J : \A k \in J : m <= k
        <4> HIDE DEF J
        <4> QED
          BY <3>1, <3>3, LeastNumber
      <3>5. n - m \in I /\ m \in 0 .. n
        BY <3>4
      <3>6. \A j \in I : m <= n - j
        <4> HIDE DEF J
        <4> QED
          BY <3>2, <3>4
      <3>7. \A j \in I : j \in 1 .. n
        BY DEF I
      <3>8. \A j \in I : j <= n - m
        BY <1>1, <3>5, <3>6, <3>7
      <3> QED
        BY <3>5, <3>8
    <2>3. /\ a \in 1 .. n /\ b \in 1 .. n /\ a <= b /\ u[a] # CS!Space /\ u[b] # CS!Space
          /\ \A j \in 1 .. n : u[j] # CS!Space => a <= j /\ j <= b
      BY <2>1, <2>2
    <2>4. \A j \in 1 .. n : j < a \/ b < j => u[j] = CS!Space
      BY <1>1, <2>3
    <2>5. w = SubSeq(u, a, n)
      <3>1. u[a] \notin {CS!Space} /\ \A j \in 1 .. a - 1 : j \in 1 .. n /\ j < a
        BY <1>1, <2>3
      <3>2. \A j \in 1 .. a - 1 : u[j] \in {CS!Space}
        BY <2>4, <3>1
      <3> QED
        BY <1>1, <2>3, <3>1, <3>2, FromAt
    <2> HIDE DEF I, w
    <2>6. w \in CharacterText /\ Len(w) = n - a + 1 /\ \A j \in 1 .. n - a + 1 : w[j] = u[a + j - 1]
      <3>1. \A m \in a .. n : m \in 1 .. n
        BY <1>1, <2>3
      <3>2. \A m \in a .. n : u[m] \in Character
        BY <3>1, ElementOfSeq DEF CharacterText
      <3>3. SubSeq(u, a, n) \in Seq(Character) /\ Len(SubSeq(u, a, n)) = (IF a <= n THEN n - a + 1 ELSE 0)
            /\ \A j \in 1 .. n - a + 1 : SubSeq(u, a, n)[j] = u[a + j - 1]
        BY <1>1, <2>3, <3>2, SubSeqProperties
      <3> QED
        BY <1>1, <2>3, <2>5, <3>3 DEF CharacterText
    <2> DEFINE k == b - a + 1
    <2>7. k \in 1 .. n - a + 1 /\ k \in Nat /\ k \in 0 .. n - a + 1 /\ a + k - 1 = b /\ \A j \in 1 .. k : j \in 1 .. n - a + 1
      BY <1>1, <2>3
    <2>8. w[k] # CS!Space /\ \A j \in k + 1 .. n - a + 1 : w[j] = CS!Space
      <3>1. \A j \in k + 1 .. n - a + 1 : a + j - 1 \in 1 .. n /\ b < a + j - 1 /\ j \in 1 .. n - a + 1
        BY <1>1, <2>3
      <3> HIDE DEF k
      <3> QED
        BY <2>3, <2>4, <2>6, <2>7, <3>1
    <2> HIDE DEF k
    <2>9. v = SubSeq(w, 1, k)
      <3>1. Len(w) \in Nat
        BY <1>1, <2>3, <2>6
      <3>2. CS!TrimRight(w) = SubSeq(w, 1, k)
        BY <2>6, <2>7, <2>8, <3>1, TrimAt
      <3> QED
        BY <3>2 DEF w
    <2>10. v \in CharacterText /\ Len(v) = k /\ \A j \in 1 .. k : v[j] = w[j]
      <3>1. w \in CharacterText /\ k \in 0 .. Len(w)
        BY <2>6, <2>7
      <3> QED
        BY <2>9, <3>1, Beginning
    <2>11. \A j \in 1 .. k : v[j] = u[a + j - 1]
      BY <2>6, <2>7, <2>10
    <2>12. CutFrom(v, u, a, b)
      BY <2>3, <2>4, <2>10, <2>11 DEF CutFrom, k
    <2> QED
      BY <2>3, <2>10, <2>12
  <1> QED
    BY <1>2, <1>3

\* Unquoted, with the quote by name.
LEMMA UnquotedIs ==
    ASSUME NEW u, NEW v, v = CS!TrimRight(CS!From(u, {CS!Space}))
    PROVE  CS!Unquoted(u) = IF Len(v) > 1 /\ v[1] = Quotation /\ v[Len(v)] = Quotation THEN SubSeq(v, 2, Len(v) - 1) ELSE v
  BY Zenon DEF CS!Unquoted, Quotation

\* What is listed is a value.
LEMMA UnquotedGives ==
    ASSUME NEW u \in CharacterText, NEW n \in {0, 2}, Shaped(u, n)
    PROVE  CS!Unquoted(u) \in ListedValue
  <1> DEFINE v == CS!TrimRight(CS!From(u, {CS!Space}))
             x == CS!Unquoted(u)
             m == Len(v)
  <1>1. x = IF m > 1 /\ v[1] = Quotation /\ v[m] = Quotation THEN SubSeq(v, 2, m - 1) ELSE v
    BY UnquotedIs
  <1>2. v \in CharacterText /\ m \in Nat
    <2>1. v \in CharacterText
      BY TrimmedGives
    <2> HIDE DEF v
    <2> QED
      BY <2>1, LenProperties DEF CharacterText
  <1>3. (v = << >> /\ \A j \in 1 .. Len(u) : u[j] = CS!Space) \/ \E a, b \in 1 .. Len(u) : CutFrom(v, u, a, b)
    BY TrimmedGives
  <1> HIDE DEF v, x
  <1>4. Len(u) \in Nat
    BY LenProperties DEF CharacterText
  <1>5. CASE n = 0
    <2>1. \A j \in 1 .. Len(u) : u[j] # Quotation
      BY <1>5 DEF Shaped
    <2>2. CASE v = << >>
      <3>1. m = 0
        BY <2>2
      <3>2. x = v
        BY <1>1, <3>1
      <3>3. GoodListed(v)
        BY <3>1 DEF GoodListed
      <3> QED
        BY <1>2, <3>2, <3>3 DEF ListedValue, x
    <2>3. CASE \E a, b \in 1 .. Len(u) : CutFrom(v, u, a, b)
      <3>1. PICK a, b \in 1 .. Len(u) : CutFrom(v, u, a, b)
        BY <2>3
      <3>2. m = b - a + 1 /\ a <= b /\ \A j \in 1 .. m : v[j] = u[a + j - 1]
        BY <3>1 DEF CutFrom
      <3>3. m >= 1 /\ 1 \in 1 .. m /\ \A j \in 1 .. m : a + j - 1 \in 1 .. Len(u)
        BY <1>4, <3>2
      <3> HIDE DEF m
      <3>4. \A j \in 1 .. m : v[j] # Quotation
        BY <2>1, <3>2, <3>3
      <3>5. x = v
        BY <1>1, <3>3, <3>4
      <3>6. GoodListed(v)
        BY <3>4 DEF GoodListed, m
      <3> QED
        BY <1>2, <3>5, <3>6 DEF ListedValue, x
    <2> QED
      BY <1>3, <2>2, <2>3
  <1>6. CASE n = 2
    <2>1. PICK p, q \in 1 .. Len(u) : QuotesAt(u, p, q)
      BY <1>6 DEF Shaped
    <2>2. p < q /\ \A j \in 1 .. Len(u) : (u[j] = Quotation <=> j \in {p, q}) /\ (u[j] = Comma => p < j /\ j < q)
      BY <2>1 DEF QuotesAt
    <2>3. Quotation # CS!Space
      BY MarksAre
    <2>4. u[p] = Quotation /\ u[q] = Quotation
      BY <2>2
    <2>5. PICK a, b \in 1 .. Len(u) : CutFrom(v, u, a, b)
      BY <1>3, <2>3, <2>4
    <2>6. /\ m = b - a + 1 /\ a <= b /\ u[a] # CS!Space /\ u[b] # CS!Space
          /\ \A j \in 1 .. m : v[j] = u[a + j - 1]
          /\ \A j \in 1 .. Len(u) : j < a \/ b < j => u[j] = CS!Space
      BY <2>5 DEF CutFrom
    <2>7. ~(p < a) /\ ~(b < p) /\ ~(q < a) /\ ~(b < q)
      BY <2>3, <2>4, <2>6
    <2> DEFINE r == p - a + 1
               s == q - a + 1
    <2>8. /\ r \in 1 .. m /\ s \in 1 .. m /\ r < s /\ m > 1 /\ 1 \in 1 .. m /\ m \in 1 .. m
          /\ a + 1 - 1 = a /\ a + m - 1 = b
          /\ \A j \in 1 .. m : /\ a + j - 1 \in 1 .. Len(u)
                               /\ (a + j - 1 = p <=> j = r) /\ (a + j - 1 = q <=> j = s)
                               /\ (p < a + j - 1 <=> r < j) /\ (a + j - 1 < q <=> j < s)
      BY <1>4, <2>2, <2>6, <2>7
    <2> HIDE DEF m, r, s
    <2>9. \A j \in 1 .. m : (v[j] = Quotation <=> j \in {r, s}) /\ (v[j] = Comma => r < j /\ j < s)
      <3> TAKE j \in 1 .. m
      <3> DEFINE i == a + j - 1
      <3>1. i \in 1 .. Len(u) /\ (i = p <=> j = r) /\ (i = q <=> j = s) /\ (p < i <=> r < j) /\ (i < q <=> j < s) /\ v[j] = u[i]
        BY <2>6, <2>8
      <3> HIDE DEF i
      <3>2. (u[i] = Quotation <=> i \in {p, q}) /\ (u[i] = Comma => p < i /\ i < q)
        BY <2>2, <3>1
      <3> QED
        BY <3>1, <3>2
    <2>10. QuotesAt(v, r, s)
      BY <2>8, <2>9 DEF QuotesAt, m
    <2>11. Bounded(v)
      <3>1. v[1] = u[a] /\ v[m] = u[b]
        BY <2>6, <2>8
      <3> QED
        BY <2>6, <3>1 DEF Bounded, m
    <2>12. CASE r = 1 /\ s = m
      <3>1. v[1] = Quotation /\ v[m] = Quotation
        BY <2>8, <2>9, <2>12
      <3>2. x = SubSeq(v, 2, m - 1)
        BY <1>1, <2>8, <3>1
      <3>3. \A j \in 2 .. m - 1 : j \in 1 .. m /\ j # 1 /\ j # m
        BY <1>2
      <3>4. \A j \in 2 .. m - 1 : v[j] # Quotation
        BY <2>9, <2>12, <3>3
      <3>5. m - 1 \in 0 .. m /\ 2 \in Nat \ {0}
        BY <1>2, <2>8
      <3>6. x \in CharacterText /\ ~Contains(x, Quotation)
        <4>1. m - 1 \in 0 .. Len(v)
          BY <3>5 DEF m
        <4> QED
          BY <1>2, <3>2, <3>4, <3>5, <4>1, PartIs
      <3>7. GoodListed(x)
        BY <3>6 DEF GoodListed, Contains
      <3> QED
        BY <3>6, <3>7 DEF ListedValue, x
    <2>13. CASE ~(r = 1 /\ s = m)
      <3>1. ~(v[1] = Quotation /\ v[m] = Quotation)
        <4>1. \A j \in 1 .. m : j < s \/ j = s \/ r < j
          BY <2>8
        <4>2. 1 \in {r, s} /\ m \in {r, s} => r = 1 /\ s = m
          BY <1>2, <2>8
        <4> QED
          BY <2>8, <2>9, <2>13, <4>2
      <3>2. x = v
        BY <1>1, <3>1
      <3>3. GoodListed(v)
        BY <2>8, <2>10, <2>11, <2>13 DEF GoodListed, m
      <3> QED
        BY <1>2, <3>2, <3>3 DEF ListedValue, x
    <2> QED
      BY <2>12, <2>13
  <1> QED
    BY <1>5, <1>6

\* A value of some shape and values before it are a state of the loop.
LEMMA IsListedIn ==
    ASSUME NEW u \in CharacterText, NEW n \in {0, 1, 2}, NEW V \in ValueSets, Shaped(u, n)
    PROVE  ListedTo(u, n, V) \in ListState
  <1>1. IsListed(ListedTo(u, n, V))
    BY DEF IsListed
  <1>2. ListedTo(u, n, V) \in [curr : CharacterText, quotes : {0, 1, 2}, values : ValueSets]
    BY DEF ListedTo
  <1> QED
    BY <1>1, <1>2 DEF ListState

\* Nothing is read yet of the value that comes next.
LEMMA ListedNothing ==
    ASSUME NEW V \in ValueSets
    PROVE  ListedTo(<< >>, 0, V) \in ListState
  <1>1. << >> \in CharacterText
    BY EmptySeq DEF CharacterText
  <1>2. Shaped(<< >>, 0)
    BY DEF Shaped
  <1> QED
    BY <1>1, <1>2, IsListedIn

\* A turn leads from a state of the loop to another.
LEMMA ListTurnGives ==
    ASSUME NEW s \in ListState, NEW c \in Character
    PROVE  CS!ListTurn(s, c) \in ListState
  <1>1. CASE s \in Invalid
    <2>1. CS!Failed(s)
      BY <1>1, InvalidIs
    <2>2. CS!ListTurn(s, c) = s
      BY <2>1, Zenon DEF CS!ListTurn
    <2> QED
      BY <1>1, <2>2
  <1>2. CASE IsListed(s)
    <2>1. PICK u \in CharacterText, n \in {0, 1, 2}, V \in ValueSets : Shaped(u, n) /\ s = ListedTo(u, n, V)
      BY <1>2 DEF IsListed
    <2> DEFINE t == CS!ListTurn(ListedTo(u, n, V), c)
    <2>2. /\ c = Comma /\ n # 1 => t = ListedTo(<< >>, 0, V \cup {CS!Unquoted(u)})
          /\ c # Quotation /\ (c # Comma \/ n = 1) => t = ListedTo(Append(u, c), n, V)
          /\ c = Quotation /\ n # 2 => t = ListedTo(Append(u, c), n + 1, V)
          /\ c = Quotation /\ n = 2 => t \in Invalid
      <3>1. TurnsOn(u, n, V, c)
        BY ListTurnOf
      <3> QED
        BY <3>1 DEF TurnsOn
    <2>3. /\ c # Quotation /\ (c # Comma \/ n = 1) => Shaped(Append(u, c), n)
          /\ c = Quotation /\ n # 2 => Shaped(Append(u, c), n + 1)
      BY <2>1, ShapedOn
    <2>4. Append(u, c) \in CharacterText
      BY OneLonger
    <2> HIDE DEF t
    <2>5. CASE c = Comma /\ n # 1
      <3>1. CS!Unquoted(u) \in ListedValue
        BY <2>1, <2>5, UnquotedGives
      <3>2. V \cup {CS!Unquoted(u)} \in ValueSets
        BY <3>1, FS_AddElement DEF ValueSets
      <3>3. ListedTo(<< >>, 0, V \cup {CS!Unquoted(u)}) \in ListState
        BY <3>2, ListedNothing
      <3> QED
        BY <2>1, <2>2, <2>5, <3>3 DEF t
    <2>6. CASE c # Quotation /\ (c # Comma \/ n = 1)
      <3>1. ListedTo(Append(u, c), n, V) \in ListState
        BY <2>3, <2>4, <2>6, IsListedIn
      <3> QED
        BY <2>1, <2>2, <2>6, <3>1 DEF t
    <2>7. CASE c = Quotation /\ n # 2
      <3>1. n + 1 \in {0, 1, 2}
        BY <2>7
      <3>2. ListedTo(Append(u, c), n + 1, V) \in ListState
        BY <2>3, <2>4, <2>7, <3>1, IsListedIn
      <3> QED
        BY <2>1, <2>2, <2>7, <3>2 DEF t
    <2>8. CASE c = Quotation /\ n = 2
      BY <2>1, <2>2, <2>8 DEF ListState, t
    <2> QED
      BY <2>5, <2>6, <2>7, <2>8
  <1> QED
    BY <1>1, <1>2 DEF ListState

\* The states that the loop over a list goes through.
Listing(f, list) ==
    /\ f \in [0 .. Len(list) -> ListState] /\ f[0] = ListedTo(<< >>, 0, {})
    /\ \A i \in 1 .. Len(list) : f[i] = CS!ListTurn(f[i - 1], list[i])

\* The turns parseCatalogFnVLArgs makes of a list.
LEMMA ListedUnfolds ==
    ASSUME NEW list \in CharacterText
    PROVE  \E f : Listing(f, list) /\ CS!ListedValues(list) = f[Len(list)]
  <1> DEFINE n == Len(list)
             from == ListedTo(<< >>, 0, {})
             T == [i \in 1 .. n |-> [s \in ListState |-> CS!ListTurn(s, list[i])]]
             Goes(f) == f = [i \in 0 .. n |-> IF i = 0 THEN from ELSE CS!ListTurn(f[i - 1], list[i])]
  <1>1. n \in Nat /\ \A i \in 1 .. n : list[i] \in Character
    BY LenProperties, ElementOfSeq DEF CharacterText
  <1>2. from \in ListState
    <2>1. {} \in ValueSets
      BY FS_EmptySet DEF ValueSets
    <2> QED
      BY <2>1, ListedNothing
  <1>3. T \in [1 .. n -> [ListState -> ListState]]
    <2>1. \A i \in 1 .. n : \A s \in ListState : CS!ListTurn(s, list[i]) \in ListState
      BY <1>1, ListTurnGives
    <2> QED
      BY <2>1
  <1>4. PICK f \in [0 .. n -> ListState] : f[0] = from /\ \A i \in 1 .. n : f[i] = T[i][f[i - 1]]
    <2> HIDE DEF n, from, T
    <2>1. n \in Nat
      BY <1>1
    <2>2. from \in ListState
      BY <1>2
    <2>3. T \in [1 .. n -> [ListState -> ListState]]
      BY <1>3
    <2>4. Iteration(n, ListState, from, T)
      BY <2>1, <2>2, <2>3, Iterates
    <2> QED
      BY <2>4 DEF Iteration
  <1>5. \A i \in 1 .. n : f[i] = CS!ListTurn(f[i - 1], list[i])
    <2>1. \A i \in 1 .. n : f[i - 1] \in ListState
      BY <1>1
    <2>2. \A i \in 1 .. n, s \in ListState : T[i][s] = CS!ListTurn(s, list[i])
      OBVIOUS
    <2> HIDE DEF n, T
    <2> QED
      BY <1>4, <2>1, <2>2
  <1>6. Goes(f)
    <2>1. \A i \in 0 .. n : f[i] = IF i = 0 THEN from ELSE CS!ListTurn(f[i - 1], list[i])
      <3>1. \A i \in 0 .. n : i # 0 => i \in 1 .. n
        BY <1>1
      <3> HIDE DEF n, from, T
      <3> QED
        BY <1>4, <1>5, <3>1
    <2>2. f = [i \in 0 .. n |-> f[i]]
      OBVIOUS
    <2> HIDE DEF n, from
    <2> QED
      BY <2>1, <2>2
  <1> DEFINE c == CHOOSE g : Goes(g)
  <1>7. Goes(c)
    BY <1>6
  <1>8. CS!ListedValues(list) = c[n]
    BY DEF CS!ListedValues, ListedTo
  <1> HIDE DEF c
  <1>9. c = f
    <2> DEFINE K == {i \in 0 .. n : c[i] = f[i]}
    <2>1. 0 \in K
      BY <1>1, <1>6, <1>7
    <2>2. ASSUME NEW i \in 0 .. n, i \in K, i < n
          PROVE  i + 1 \in K
      <3>1. i + 1 \in 0 .. n /\ i + 1 # 0 /\ (i + 1) - 1 = i
        BY <1>1, <2>2
      <3>2. c[i + 1] = CS!ListTurn(c[(i + 1) - 1], list[i + 1]) /\ f[i + 1] = CS!ListTurn(f[(i + 1) - 1], list[i + 1])
        <4> HIDE DEF from
        <4> QED
          BY <1>6, <1>7, <3>1
      <3> QED
        BY <2>2, <3>1, <3>2
    <2>3. \A i \in 0 .. n : c[i] = f[i]
      <3> HIDE DEF K
      <3>1. \A i \in 0 .. n : i \in K
        BY <1>1, <2>1, <2>2, Onward
      <3> QED
        BY <3>1 DEF K
    <2>4. f = [i \in 0 .. n |-> f[i]]
      OBVIOUS
    <2>5. c = [i \in 0 .. n |-> c[i]]
      <3> HIDE DEF from
      <3>1. DOMAIN c = 0 .. n
        BY <1>7
      <3> QED
        BY <1>7
    <2> QED
      BY <2>3, <2>4, <2>5
  <1> QED
    BY <1>4, <1>5, <1>8, <1>9 DEF Listing

\* What comes out of a list.
LEMMA ListGives ==
    ASSUME NEW list \in CharacterText
    PROVE  CS!ParseCatalogFnVLArgs(list) \in Invalid
           \/ \E V \in ValueSets : V # {} /\ CS!ParseCatalogFnVLArgs(list) = [values |-> V]
  <1> DEFINE text == Append(list, Comma)
             n == Len(text)
             s == CS!ListedValues(text)
             out == CS!ParseCatalogFnVLArgs(list)
             e == CS!Failure("invalid list")
  <1>1. Comma \in Character
    BY MarksAre
  <1>2. text \in CharacterText /\ n \in Nat /\ n \in 1 .. n /\ text[n] = Comma
    <2>1. text \in CharacterText /\ Len(list) \in Nat /\ n = Len(list) + 1 /\ text[Len(list) + 1] = Comma
      BY <1>1, OneLonger
    <2> HIDE DEF text
    <2> QED
      BY <2>1
  <1>3. out = IF CS!Failed(s) THEN s ELSE IF s.curr # << >> THEN e ELSE [values |-> s.values]
    BY Zenon DEF CS!ParseCatalogFnVLArgs, Comma
  <1> HIDE DEF text, s, out
  <1>4. PICK f : Listing(f, text) /\ s = f[n]
    BY <1>2, ListedUnfolds DEF s
  <1>5. f[n] \in ListState /\ f[n - 1] \in ListState /\ f[n] = CS!ListTurn(f[n - 1], Comma)
    <2>1. n \in 0 .. n /\ n - 1 \in 0 .. n
      BY <1>2
    <2> QED
      BY <1>2, <1>4, <2>1 DEF Listing
  <1>6. e \in Invalid
    BY Zenon DEF Invalid
  <1> HIDE DEF n, e
  <1>7. CASE s \in Invalid
    BY <1>3, <1>7, InvalidIs DEF out
  <1>8. CASE IsListed(s)
    <2>1. PICK u \in CharacterText, m \in {0, 1, 2}, V \in ValueSets : s = ListedTo(u, m, V)
      BY <1>8 DEF IsListed
    <2>2. ~CS!Failed(s) /\ s.curr = u /\ s.values = V
      BY <2>1, InvalidIs
    <2>3. V # {} \/ u # << >>
      <3>1. CASE f[n - 1] \in Invalid
        <4>1. CS!Failed(f[n - 1])
          BY <3>1, InvalidIs
        <4>2. f[n] = f[n - 1]
          BY <1>5, <4>1, Zenon DEF CS!ListTurn
        <4> QED
          BY <1>4, <2>2, <4>1, <4>2
      <3>2. CASE IsListed(f[n - 1])
        <4>1. PICK x \in CharacterText, l \in {0, 1, 2}, W \in ValueSets : f[n - 1] = ListedTo(x, l, W)
          BY <3>2 DEF IsListed
        <4>2. Comma # Quotation
          BY MarksAre
        <4>3. s = ListedTo(<< >>, 0, W \cup {CS!Unquoted(x)}) \/ s = ListedTo(Append(x, Comma), l, W)
          <5>1. /\ l # 1 => CS!ListTurn(ListedTo(x, l, W), Comma) = ListedTo(<< >>, 0, W \cup {CS!Unquoted(x)})
                /\ l = 1 => CS!ListTurn(ListedTo(x, l, W), Comma) = ListedTo(Append(x, Comma), l, W)
            <6>1. TurnsOn(x, l, W, Comma)
              BY ListTurnOf
            <6> QED
              BY <4>2, <6>1 DEF TurnsOn
          <5> QED
            BY <1>4, <1>5, <4>1, <5>1
        <4>4. Append(x, Comma) # << >>
          BY <1>1, OneLonger
        <4>5. V = W \cup {CS!Unquoted(x)} \/ u = Append(x, Comma)
          <5>1. s = ListedTo(<< >>, 0, W \cup {CS!Unquoted(x)}) => s.values = W \cup {CS!Unquoted(x)}
            BY DEF ListedTo
          <5>2. s = ListedTo(Append(x, Comma), l, W) => s.curr = Append(x, Comma)
            BY DEF ListedTo
          <5> QED
            BY <2>2, <4>3, <5>1, <5>2
        <4> QED
          BY <4>4, <4>5
      <3> QED
        BY <1>5, <3>1, <3>2 DEF ListState
    <2>4. CASE u # << >>
      BY <1>3, <1>6, <2>2, <2>4 DEF out
    <2>5. CASE u = << >>
      <3>1. out = [values |-> V] /\ V # {}
        BY <1>3, <2>2, <2>3, <2>5
      <3> QED
        BY <3>1 DEF out
    <2> QED
      BY <2>4, <2>5
  <1> QED
    BY <1>4, <1>5, <1>7, <1>8 DEF ListState

\* A text that no space surrounds.
LEMMA BoundedStays ==
    ASSUME NEW w \in CharacterText, w # << >>, Bounded(w)
    PROVE  CS!TrimRight(CS!From(w, {CS!Space})) = w
  <1> DEFINE n == Len(w)
  <1>1. n \in Nat /\ n # 0 /\ w \in Seq(Character)
    BY LenProperties, EmptySeq DEF CharacterText
  <1>2. w[1] \notin {CS!Space} /\ w[n] # CS!Space
    BY DEF Bounded
  <1>3. CS!From(w, {CS!Space}) = w
    BY <1>2, FromStops
  <1>4. CS!TrimRight(w) = SubSeq(w, 1, n)
    <2>1. n \in 1 .. n /\ \A j \in n + 1 .. n : w[j] = CS!Space
      BY <1>1
    <2>2. Len(w) \in Nat
      BY <1>1
    <2> QED
      BY <1>2, <2>1, <2>2, TrimAt
  <1>5. SubSeq(w, 1, n) = w
    BY <1>1, SubSeqFull
  <1> QED
    BY <1>3, <1>4, <1>5

\* What a value is written as, and what makes it be read again.
Displayed(v) == IF Contains(v, Quotation) THEN v ELSE << Quotation >> \o v \o << Quotation >>
ReadAgain(w, v) == w \in CharacterText /\ CS!Unquoted(w) = v /\ \E p, q \in 1 .. Len(w) : QuotesAt(w, p, q)

\* A value that has been read is read again as it is written.
LEMMA DisplayedIs ==
    ASSUME NEW v \in ListedValue
    PROVE  ReadAgain(Displayed(v), v)
  <1> DEFINE n == Len(v)
  <1>1. v \in CharacterText /\ n \in Nat /\ GoodListed(v)
    BY LenProperties DEF ListedValue, CharacterText
  <1>2. CASE Contains(v, Quotation)
    <2>1. PICK p, q \in 1 .. n : Bounded(v) /\ QuotesAt(v, p, q) /\ ~(p = 1 /\ q = n)
      BY <1>1, <1>2 DEF GoodListed, Contains
    <2>2. p < q /\ \A j \in 1 .. n : v[j] = Quotation <=> j \in {p, q}
      BY <2>1 DEF QuotesAt
    <2>3. n # 0 /\ 1 \in 1 .. n /\ n \in 1 .. n
      BY <1>1
    <2>4. ~(n > 1 /\ v[1] = Quotation /\ v[n] = Quotation)
      <3>1. 1 \in {p, q} /\ n \in {p, q} /\ n > 1 => p = 1 /\ q = n
        BY <1>1, <2>2
      <3> HIDE DEF n
      <3> QED
        BY <2>1, <2>2, <2>3, <3>1
    <2>5. v # << >>
      BY <2>3, EmptySeq
    <2>6. CS!TrimRight(CS!From(v, {CS!Space})) = v
      BY <1>1, <2>1, <2>5, BoundedStays
    <2>7. CS!Unquoted(v) = v
      <3>1. CS!Unquoted(v) = IF Len(v) > 1 /\ v[1] = Quotation /\ v[Len(v)] = Quotation THEN SubSeq(v, 2, Len(v) - 1) ELSE v
        BY <2>6, UnquotedIs
      <3> QED
        BY <2>4, <3>1
    <2> QED
      BY <1>1, <1>2, <2>1, <2>7 DEF Displayed, ReadAgain
  <1>3. CASE ~Contains(v, Quotation)
    <2> DEFINE e == << Quotation >>
               w == e \o v \o e
    <2>1. e \in CharacterText /\ Len(e) = 1 /\ e[1] = Quotation
      <3>1. Quotation \in Character
        BY MarksAre
      <3> QED
        BY <3>1 DEF CharacterText
    <2> HIDE DEF e
    <2>2. w = e \o (v \o e) /\ w \in CharacterText
      <3>1. w = e \o (v \o e) /\ e \o v \in CharacterText
        BY <1>1, <2>1, Associated
      <3>2. (e \o v) \o e \in CharacterText
        BY <2>1, <3>1, BeginsAs
      <3> QED
        BY <3>1, <3>2
    <2>3. e \o v \in CharacterText /\ Len(e \o v) = 1 + n /\ (e \o v)[1] = Quotation /\ \A j \in 1 .. n : (e \o v)[1 + j] = v[j]
      <3>1. /\ e \o v \in CharacterText /\ Len(e \o v) = Len(e) + Len(v)
            /\ \A i \in 1 .. Len(e) : (e \o v)[i] = e[i]
            /\ \A i \in 1 .. Len(v) : (e \o v)[Len(e) + i] = v[i]
        BY <1>1, <2>1, BeginsAs
      <3>2. 1 \in 1 .. Len(e)
        BY <2>1
      <3> QED
        BY <2>1, <3>1, <3>2
    <2>4. /\ Len(w) = (1 + n) + 1 /\ w[(1 + n) + 1] = Quotation
          /\ \A j \in 1 .. 1 + n : w[j] = (e \o v)[j]
      <3> DEFINE x == e \o v
      <3>1. x \in CharacterText /\ Len(x) = 1 + n
        BY <2>3
      <3> HIDE DEF x
      <3>2. /\ Len(x \o e) = Len(x) + Len(e)
            /\ \A i \in 1 .. Len(x) : (x \o e)[i] = x[i]
            /\ \A i \in 1 .. Len(e) : (x \o e)[Len(x) + i] = e[i]
        BY <2>1, <3>1, BeginsAs
      <3>3. 1 \in 1 .. Len(e)
        BY <2>1
      <3> HIDE DEF n
      <3> QED
        BY <2>1, <3>1, <3>2, <3>3 DEF x
    <2>5. w[1] = Quotation /\ \A j \in 1 .. n : w[1 + j] = v[j]
      <3>1. 1 \in 1 .. 1 + n /\ \A j \in 1 .. n : 1 + j \in 1 .. 1 + n
        BY <1>1
      <3> HIDE DEF n, w
      <3> QED
        BY <2>3, <2>4, <3>1
    <2>6. \A j \in 1 .. n : v[j] # Quotation
      BY <1>3 DEF Contains
    <2> HIDE DEF w
    <2>7. QuotesAt(w, 1, n + 2)
      <3>1. Len(w) = n + 2 /\ 1 \in 1 .. Len(w) /\ n + 2 \in 1 .. Len(w) /\ 1 < n + 2 /\ (1 + n) + 1 = n + 2
        BY <1>1, <2>4
      <3>2. \A j \in 1 .. Len(w) : j = 1 \/ j = n + 2 \/ (j - 1 \in 1 .. n /\ 1 + (j - 1) = j /\ j # 1 /\ j # n + 2 /\ 1 < j /\ j < n + 2)
        BY <1>1, <3>1
      <3>3. Comma # Quotation
        BY MarksAre
      <3> HIDE DEF n
      <3>4. \A j \in 1 .. Len(w) : (w[j] = Quotation <=> j \in {1, n + 2}) /\ (w[j] = Comma => 1 < j /\ j < n + 2)
        <4> TAKE j \in 1 .. Len(w)
        <4>1. CASE j = 1 \/ j = n + 2
          BY <2>4, <2>5, <3>1, <3>3, <4>1
        <4>2. CASE j - 1 \in 1 .. n /\ 1 + (j - 1) = j /\ j # 1 /\ j # n + 2 /\ 1 < j /\ j < n + 2
          <5>1. w[j] = v[j - 1] /\ v[j - 1] # Quotation
            BY <2>5, <2>6, <4>2
          <5> QED
            BY <4>2, <5>1
        <4> QED
          BY <3>2, <4>1, <4>2
      <3> QED
        BY <3>1, <3>4 DEF QuotesAt
    <2>8. CS!TrimRight(CS!From(w, {CS!Space})) = w
      <3>1. w # << >>
        BY <1>1, <2>4
      <3>2. Bounded(w)
        <4>1. Quotation # CS!Space
          BY MarksAre
        <4>2. w[Len(w)] = Quotation
          BY <2>4
        <4> QED
          BY <2>5, <4>1, <4>2 DEF Bounded
      <3> QED
        BY <2>2, <3>1, <3>2, BoundedStays
    <2>9. CS!Unquoted(w) = v
      <3>1. CS!Unquoted(w) = IF Len(w) > 1 /\ w[1] = Quotation /\ w[Len(w)] = Quotation THEN SubSeq(w, 2, Len(w) - 1) ELSE w
        BY <2>8, UnquotedIs
      <3>2. Len(w) > 1 /\ w[Len(w)] = Quotation /\ Len(w) - 1 = 1 + n
        BY <1>1, <2>4
      <3>3. SubSeq(w, 2, 1 + n) = v
        <4>1. e \in Seq(Character) /\ v \in Seq(Character)
          BY <1>1, <2>1 DEF CharacterText
        <4>2. SubSeq(e \o (v \o e), Len(e) + 1, Len(e) + Len(v)) = v
          BY <4>1, Between
        <4>3. Len(e) + 1 = 2
          BY <2>1
        <4> QED
          BY <2>1, <2>2, <4>2, <4>3
      <3> QED
        BY <2>5, <3>1, <3>2, <3>3
    <2>10. 1 \in 1 .. Len(w) /\ n + 2 \in 1 .. Len(w)
      BY <1>1, <2>4
    <2>11. ReadAgain(w, v)
      BY <2>2, <2>7, <2>9, <2>10 DEF ReadAgain
    <2> QED
      BY <1>3, <2>11 DEF Displayed, w, e
  <1> QED
    BY <1>2, <1>3

\* The beginning of a text, one character longer.
LEMMA OneFurther ==
    ASSUME NEW w \in CharacterText, NEW i \in 0 .. Len(w), i < Len(w)
    PROVE  Append(SubSeq(w, 1, i), w[i + 1]) = SubSeq(w, 1, i + 1)
  <1> DEFINE x == SubSeq(w, 1, i)
             y == SubSeq(w, 1, i + 1)
             z == Append(x, w[i + 1])
  <1>1. Len(w) \in Nat /\ i + 1 \in 1 .. Len(w) /\ i + 1 \in 0 .. Len(w)
    BY LenProperties DEF CharacterText
  <1>2. w[i + 1] \in Character
    BY <1>1, ElementOfSeq DEF CharacterText
  <1>3. x \in CharacterText /\ Len(x) = i /\ \A j \in 1 .. i : x[j] = w[j]
    BY Beginning
  <1>4. y \in CharacterText /\ Len(y) = i + 1 /\ \A j \in 1 .. i + 1 : y[j] = w[j]
    BY <1>1, Beginning
  <1> HIDE DEF x, y
  <1>5. z \in CharacterText /\ Len(z) = Len(x) + 1 /\ z[Len(x) + 1] = w[i + 1] /\ \A j \in 1 .. Len(x) : z[j] = x[j]
    BY <1>2, <1>3, OneLonger
  <1> HIDE DEF z
  <1>6. \A j \in 1 .. i + 1 : j \in 1 .. i \/ j = i + 1
    BY <1>1
  <1>7. \A j \in 1 .. i + 1 : z[j] = y[j]
    BY <1>3, <1>4, <1>5, <1>6
  <1>8. z = y
    <2>1. z \in Seq(Character) /\ y \in Seq(Character) /\ Len(z) = i + 1 /\ Len(y) = i + 1
      BY <1>3, <1>4, <1>5 DEF CharacterText
    <2> QED
      BY <1>7, <2>1, SeqEqual
  <1> QED
    BY <1>8 DEF x, y, z

\* The text w and a comma follow the first k characters of the list.
ComesNext(list, k, w) ==
    k + (Len(w) + 1) <= Len(list) /\ list[k + (Len(w) + 1)] = Comma /\ \A j \in 1 .. Len(w) : list[k + j] = w[j]

\* A value that is written and a comma are read.
LEMMA ValueReadBack ==
    ASSUME NEW list \in CharacterText, NEW f, Listing(f, list), NEW w, NEW v, ReadAgain(w, v), NEW V, NEW k \in Nat,
           f[k] = ListedTo(<< >>, 0, V), ComesNext(list, k, w)
    PROVE  f[k + (Len(w) + 1)] = ListedTo(<< >>, 0, V \cup {v})
  <1> DEFINE n == Len(w)
  <1>0. k + (n + 1) <= Len(list) /\ list[k + (n + 1)] = Comma /\ \A j \in 1 .. n : list[k + j] = w[j]
    BY DEF ComesNext
  <1>1. w \in CharacterText /\ n \in Nat /\ Len(list) \in Nat /\ CS!Unquoted(w) = v
    BY LenProperties DEF ReadAgain, CharacterText
  <1>2. PICK p, q \in 1 .. n : QuotesAt(w, p, q)
    BY DEF ReadAgain
  <1>3. p < q /\ \A j \in 1 .. n : (w[j] = Quotation <=> j \in {p, q}) /\ (w[j] = Comma => p < j /\ j < q)
    BY <1>2 DEF QuotesAt
  <1> DEFINE m(i) == IF i < p THEN 0 ELSE IF i < q THEN 1 ELSE 2
             S == {i \in 0 .. n : f[k + i] = ListedTo(SubSeq(w, 1, i), m(i), V)}
  <1>4. 0 \in S
    <2>1. SubSeq(w, 1, 0) = << >>
      BY SubSeqEmpty
    <2>2. m(0) = 0 /\ k + 0 = k /\ 0 \in 0 .. n
      BY <1>1
    <2> HIDE DEF m, n
    <2> QED
      BY <2>1, <2>2
  <1>5. ASSUME NEW i \in 0 .. n, i \in S, i < n
        PROVE  i + 1 \in S
    <2> DEFINE x == SubSeq(w, 1, i)
               c == w[i + 1]
    <2>1. /\ i + 1 \in 1 .. n /\ i + 1 \in 0 .. n /\ k + (i + 1) \in 1 .. Len(list) /\ (k + (i + 1)) - 1 = k + i
          /\ m(i) \in {0, 1, 2}
      BY <1>0, <1>1, <1>5
    <2>2. f[k + (i + 1)] = CS!ListTurn(ListedTo(x, m(i), V), c)
      <3>1. f[k + (i + 1)] = CS!ListTurn(f[k + i], list[k + (i + 1)])
        BY <2>1 DEF Listing
      <3>2. f[k + i] = ListedTo(x, m(i), V)
        BY <1>5
      <3> QED
        BY <1>0, <2>1, <3>1, <3>2
    <2>3. Append(x, c) = SubSeq(w, 1, i + 1)
      BY <1>1, <1>5, OneFurther
    <2>4. (c = Quotation <=> i + 1 \in {p, q}) /\ (c = Comma => p < i + 1 /\ i + 1 < q)
      BY <1>3, <2>1
    <2>5. /\ i + 1 \notin {p, q} => m(i + 1) = m(i)
          /\ i + 1 \in {p, q} => m(i + 1) = m(i) + 1 /\ m(i) # 2
          /\ p < i + 1 /\ i + 1 < q => m(i) = 1
      BY <1>3, <2>1
    <2>6. TurnsOn(x, m(i), V, c)
      <3> HIDE DEF m, x, c
      <3> QED
        BY <2>1, ListTurnOf
    <2> HIDE DEF m, x, c
    <2>7. CS!ListTurn(ListedTo(x, m(i), V), c) = ListedTo(Append(x, c), m(i + 1), V)
      <3>1. CASE c = Quotation
        <4>1. CS!ListTurn(ListedTo(x, m(i), V), c) = ListedTo(Append(x, c), m(i) + 1, V)
          BY <2>4, <2>5, <2>6, <3>1 DEF TurnsOn
        <4> QED
          BY <2>4, <2>5, <3>1, <4>1
      <3>2. CASE c # Quotation
        <4>1. CS!ListTurn(ListedTo(x, m(i), V), c) = ListedTo(Append(x, c), m(i), V)
          BY <2>4, <2>5, <2>6, <3>2 DEF TurnsOn
        <4> QED
          BY <2>4, <2>5, <3>2, <4>1
      <3> QED
        BY <3>1, <3>2
    <2> QED
      BY <2>1, <2>2, <2>3, <2>7
  <1>6. f[k + n] = ListedTo(w, 2, V)
    <2>1. n \in S
      <3> HIDE DEF S
      <3>1. \A i \in 0 .. n : i \in S
        BY <1>1, <1>4, <1>5, Onward
      <3> QED
        BY <1>1, <3>1
    <2>2. SubSeq(w, 1, n) = w
      BY <1>1, SubSeqFull DEF CharacterText
    <2>3. m(n) = 2
      BY <1>1, <1>3
    <2> HIDE DEF m, n
    <2> QED
      BY <2>1, <2>2, <2>3
  <1>7. f[k + (n + 1)] = CS!ListTurn(ListedTo(w, 2, V), Comma)
    <2>1. k + (n + 1) \in 1 .. Len(list) /\ (k + (n + 1)) - 1 = k + n
      BY <1>0, <1>1
    <2>2. f[k + (n + 1)] = CS!ListTurn(f[k + n], list[k + (n + 1)])
      BY <2>1 DEF Listing
    <2> QED
      BY <1>0, <1>6, <2>2
  <1>8. TurnsOn(w, 2, V, Comma)
    BY ListTurnOf
  <1> QED
    BY <1>1, <1>7, <1>8 DEF TurnsOn

\* The text r is all that is left of the list, and the values before it are V.
Reached(f, list, k, r, V) ==
    /\ k \in Nat /\ r \in CharacterText /\ k + Len(r) = Len(list) /\ \A j \in 1 .. Len(r) : list[k + j] = r[j]
    /\ f[k] = ListedTo(<< >>, 0, V)

\* The value that comes next joins those before it.
LEMMA ListGoesOn ==
    ASSUME NEW list \in CharacterText, NEW f, Listing(f, list), NEW w, NEW v, ReadAgain(w, v), NEW V, NEW k, NEW r,
           NEW t \in CharacterText, Reached(f, list, k, r, V), r = (w \o << Comma >>) \o t
    PROVE  Reached(f, list, k + (Len(w) + 1), t, V \cup {v})
  <1> DEFINE e == << Comma >>
             x == w \o e
             n == Len(w)
             m == k + (n + 1)
  <1>1. w \in CharacterText /\ n \in Nat /\ Len(t) \in Nat
    BY LenProperties DEF ReadAgain, CharacterText
  <1>2. e \in CharacterText /\ Len(e) = 1 /\ e[1] = Comma
    <2>1. Comma \in Character
      BY MarksAre
    <2> QED
      BY <2>1 DEF CharacterText
  <1> HIDE DEF e
  <1>3. x \in CharacterText /\ Len(x) = n + 1 /\ x[n + 1] = Comma /\ \A j \in 1 .. n : x[j] = w[j]
    <2>1. /\ x \in CharacterText /\ Len(x) = Len(w) + Len(e)
          /\ \A i \in 1 .. Len(w) : x[i] = w[i]
          /\ \A i \in 1 .. Len(e) : x[Len(w) + i] = e[i]
      BY <1>1, <1>2, BeginsAs
    <2>2. 1 \in 1 .. Len(e)
      BY <1>2
    <2> HIDE DEF x
    <2> QED
      BY <1>2, <2>1, <2>2
  <1> HIDE DEF x
  <1>4. r = x \o t
    BY DEF x, e
  <1>5. /\ Len(r) = (n + 1) + Len(t) /\ \A i \in 1 .. n + 1 : r[i] = x[i]
        /\ \A i \in 1 .. Len(t) : r[(n + 1) + i] = t[i]
    <2>1. /\ Len(x \o t) = Len(x) + Len(t)
          /\ \A i \in 1 .. Len(x) : (x \o t)[i] = x[i]
          /\ \A i \in 1 .. Len(t) : (x \o t)[Len(x) + i] = t[i]
      BY <1>3, BeginsAs
    <2> QED
      BY <1>3, <1>4, <2>1
  <1>6. k \in Nat /\ k + Len(r) = Len(list) /\ (\A j \in 1 .. Len(r) : list[k + j] = r[j]) /\ f[k] = ListedTo(<< >>, 0, V)
    BY DEF Reached
  <1> HIDE DEF n
  <1>7. n + 1 \in 1 .. n + 1 /\ (\A j \in 1 .. n : j \in 1 .. n + 1) /\ (\A j \in 1 .. n + 1 : j \in 1 .. Len(r))
    BY <1>1, <1>5
  <1>8. list[m] = Comma /\ \A j \in 1 .. n : list[k + j] = w[j]
    BY <1>3, <1>5, <1>6, <1>7
  <1>9. m \in Nat /\ m + Len(t) = Len(list) /\ m <= Len(list)
    BY <1>1, <1>5, <1>6
  <1>10. \A j \in 1 .. Len(t) : list[m + j] = t[j]
    <2> TAKE j \in 1 .. Len(t)
    <2>1. (n + 1) + j \in 1 .. Len(r) /\ k + ((n + 1) + j) = m + j
      BY <1>1, <1>5, <1>6
    <2>2. list[k + ((n + 1) + j)] = r[(n + 1) + j]
      BY <1>6, <2>1
    <2> QED
      BY <1>5, <2>1, <2>2
  <1>11. f[m] = ListedTo(<< >>, 0, V \cup {v})
    <2>1. f[k] = ListedTo(<< >>, 0, V) /\ k \in Nat
      BY <1>6
    <2>2. ComesNext(list, k, w)
      BY <1>8, <1>9 DEF n, ComesNext
    <2>3. f[k + (Len(w) + 1)] = ListedTo(<< >>, 0, V \cup {v})
      BY <2>1, <2>2, ValueReadBack
    <2> QED
      BY <2>3 DEF n
  <1> QED
    BY <1>9, <1>10, <1>11 DEF Reached, n

\* The list is the texts of n values with a comma after each, rest[i] what comes after i of them.
ListOf(list, vs, n, rest) ==
    /\ rest \in [0 .. n -> CharacterText] /\ rest[0] = list /\ rest[n] = << >>
    /\ \A i \in 1 .. n : vs[i] \in ListedValue /\ rest[i - 1] = (Displayed(vs[i]) \o << Comma >>) \o rest[i]

\* All of them are read.
LEMMA AllListed ==
    ASSUME NEW list \in CharacterText, NEW f, Listing(f, list), NEW n \in Nat, NEW vs, NEW rest, ListOf(list, vs, n, rest)
    PROVE  f[Len(list)] = ListedTo(<< >>, 0, {vs[j] : j \in 1 .. n})
  <1> DEFINE V(i) == {vs[j] : j \in 1 .. i}
             S == {i \in 0 .. n : \E k : Reached(f, list, k, rest[i], V(i))}
  <1>0. /\ rest \in [0 .. n -> CharacterText] /\ rest[0] = list /\ rest[n] = << >>
        /\ \A i \in 1 .. n : vs[i] \in ListedValue /\ rest[i - 1] = (Displayed(vs[i]) \o << Comma >>) \o rest[i]
    BY DEF ListOf
  <1>1. 0 \in S
    <2>1. V(0) = {} /\ 0 \in 0 .. n
      OBVIOUS
    <2>2. f[0] = ListedTo(<< >>, 0, {})
      BY DEF Listing
    <2>3. 0 + Len(list) = Len(list) /\ \A j \in 1 .. Len(list) : 0 + j = j
      BY LenProperties DEF CharacterText
    <2> HIDE DEF V
    <2>4. Reached(f, list, 0, rest[0], V(0))
      BY <1>0, <2>1, <2>2, <2>3 DEF Reached
    <2> QED
      BY <2>1, <2>4
  <1>2. ASSUME NEW i \in 0 .. n, i \in S, i < n
        PROVE  i + 1 \in S
    <2>1. i + 1 \in 1 .. n /\ i + 1 \in 0 .. n /\ (i + 1) - 1 = i
      BY <1>2
    <2>2. PICK k : Reached(f, list, k, rest[i], V(i))
      BY <1>2
    <2> DEFINE v == vs[i + 1]
               w == Displayed(v)
               t == rest[i + 1]
    <2>3. v \in ListedValue /\ rest[i] = (w \o << Comma >>) \o t
      <3>1. vs[i + 1] \in ListedValue /\ rest[(i + 1) - 1] = (Displayed(vs[i + 1]) \o << Comma >>) \o rest[i + 1]
        BY <1>0, <2>1
      <3> QED
        BY <2>1, <3>1
    <2>4. t \in CharacterText
      BY <1>0, <2>1
    <2>5. V(i + 1) = V(i) \cup {v}
      <3>1. \A j : j \in 1 .. i + 1 <=> j \in 1 .. i \/ j = i + 1
        BY <2>1
      <3> QED
        BY <3>1
    <2> HIDE DEF V, v, t
    <2>6. ReadAgain(w, v)
      BY <2>3, DisplayedIs
    <2> HIDE DEF w
    <2>7. Reached(f, list, k + (Len(w) + 1), t, V(i) \cup {v})
      <3> DEFINE r == rest[i]
      <3>1. Reached(f, list, k, r, V(i)) /\ r = (w \o << Comma >>) \o t
        BY <2>2, <2>3
      <3> HIDE DEF r
      <3> QED
        BY <2>4, <2>6, <3>1, ListGoesOn
    <2>8. \E l : Reached(f, list, l, rest[i + 1], V(i + 1))
      BY <2>5, <2>7 DEF t
    <2> QED
      BY <2>1, <2>8
  <1>3. n \in S
    <2> HIDE DEF S
    <2>1. \A i \in 0 .. n : i \in S
      BY <1>1, <1>2, Onward
    <2> QED
      BY <2>1
  <1>4. PICK k : Reached(f, list, k, rest[n], V(n))
    BY <1>3
  <1> HIDE DEF V
  <1>5. k \in Nat /\ k + Len(<< >>) = Len(list) /\ f[k] = ListedTo(<< >>, 0, V(n))
    BY <1>0, <1>4 DEF Reached
  <1>6. Len(<< >>) = 0
    OBVIOUS
  <1>7. k = Len(list)
    BY <1>5, <1>6
  <1> QED
    BY <1>5, <1>7 DEF V

\* The last of some texts, with one more after it.
LEMMA FlattenLonger ==
    ASSUME NEW n \in Nat \ {0}, NEW parts \in [1 .. n -> CharacterText], NEW texts \in [1 .. n -> CharacterText],
           NEW e \in CharacterText, \A i \in 1 .. n : i < n => texts[i] = parts[i], texts[n] = parts[n] \o e
    PROVE  FlattenSeq(texts) = FlattenSeq(parts) \o e /\ FlattenSeq(parts) \in CharacterText
  <1> DEFINE m == n - 1
             front == [i \in 1 .. m |-> parts[i]]
             a == parts[n]
             F == FlattenSeq(front)
  <1>1. m \in Nat /\ n = m + 1 /\ n \in 1 .. n /\ \A i \in 1 .. m : i \in 1 .. n /\ i < n
    OBVIOUS
  <1>2. front \in Seq(CharacterText) /\ Len(front) = m
    <2>1. front \in [1 .. m -> CharacterText]
      BY <1>1
    <2> HIDE DEF front, m
    <2> QED
      BY <1>1, <2>1, Sequenced
  <1>3. \A i \in 1 .. m : front[i] = parts[i]
    OBVIOUS
  <1>4. a \in CharacterText /\ a \o e \in CharacterText
    <2>1. a \in CharacterText
      BY <1>1
    <2> HIDE DEF a
    <2> QED
      BY <2>1, BeginsAs
  <1> HIDE DEF front, m
  <1>5. ASSUME NEW s \in [1 .. n -> CharacterText], \A i \in 1 .. m : s[i] = parts[i]
        PROVE  s = Append(front, s[n])
    <2> DEFINE c == s[n]
               t == Append(front, c)
    <2>1. c \in CharacterText /\ s \in Seq(CharacterText) /\ Len(s) = n
      BY <1>1, Sequenced
    <2> HIDE DEF c
    <2>2. t \in Seq(CharacterText) /\ Len(t) = m + 1 /\ t[m + 1] = c /\ \A i \in 1 .. m : t[i] = front[i]
      BY <1>2, <2>1, AppendProperties
    <2> HIDE DEF t
    <2>3. \A i \in 1 .. n : i \in 1 .. m \/ i = n
      BY <1>1
    <2>4. \A i \in 1 .. Len(s) : s[i] = t[i]
      BY <1>1, <1>3, <1>5, <2>1, <2>2, <2>3 DEF c
    <2>5. s = t
      BY <1>1, <2>1, <2>2, <2>4, SeqEqual
    <2> QED
      BY <2>5 DEF c, t
  <1>6. parts = Append(front, a)
    BY <1>5
  <1>7. texts = Append(front, a \o e)
    <2>1. \A i \in 1 .. m : texts[i] = parts[i]
      BY <1>1
    <2>2. texts = Append(front, texts[n])
      BY <1>5, <2>1
    <2> QED
      BY <2>2
  <1> HIDE DEF a
  <1>8. FlattenSeq(parts) = F \o a /\ FlattenSeq(texts) = F \o (a \o e) /\ F \in CharacterText
    <2>1. front \in Seq(Seq(Character)) /\ a \in Seq(Character) /\ a \o e \in Seq(Character)
      BY <1>2, <1>4 DEF CharacterText
    <2>2. FlattenSeq(Append(front, a)) = FlattenSeq(front) \o a
      BY <2>1, FlattenAppend
    <2> DEFINE d == a \o e
    <2>3. d \in Seq(Character) /\ texts = Append(front, d)
      BY <1>7, <2>1
    <2> HIDE DEF d
    <2>4. FlattenSeq(Append(front, d)) = FlattenSeq(front) \o d
      BY <2>1, <2>3, FlattenAppend
    <2>5. FlattenSeq(front) \in Seq(Character)
      BY <2>1, FlattenType
    <2> QED
      BY <1>6, <2>2, <2>3, <2>4, <2>5 DEF CharacterText, d
  <1> HIDE DEF F
  <1>9. (F \o a) \o e = F \o (a \o e) /\ F \o a \in CharacterText
    BY <1>4, <1>8, Associated
  <1> QED
    BY <1>8, <1>9

\* The values of a list, written out, are read again.
LEMMA ListReadBack ==
    ASSUME NEW V \in ValueSets, V # {}
    PROVE  CS!ParseCatalogFnVLArgs(Requoted(V)) = [values |-> V]
  <1> DEFINE n == Cardinality(V)
             vs == SetToSeq(V)
             e == << Comma >>
             parts == [i \in 1 .. n |-> Displayed(vs[i]) \o (IF i = n THEN << >> ELSE e)]
             texts == [i \in 1 .. n |-> Displayed(vs[i]) \o e]
             list == FlattenSeq(texts)
  <1>1. n \in Nat /\ vs \in [1 .. n -> V] /\ \A x \in V : \E i \in 1 .. n : vs[i] = x
    BY InOrder DEF ValueSets
  <1>2. n \in Nat \ {0}
    <2>1. PICK i \in 1 .. n : TRUE
      BY <1>1
    <2> QED
      BY <1>1, <2>1
  <1>3. e \in CharacterText /\ << >> \in CharacterText
    <2>1. Comma \in Character
      BY MarksAre
    <2> QED
      BY <2>1, EmptySeq DEF CharacterText
  <1>4. \A i \in 1 .. n : vs[i] \in ListedValue /\ Displayed(vs[i]) \in CharacterText
    <2>1. \A i \in 1 .. n : vs[i] \in ListedValue
      BY <1>1 DEF ValueSets
    <2>2. \A v \in ListedValue : Displayed(v) \in CharacterText
      BY DisplayedIs DEF ReadAgain
    <2> QED
      BY <2>1, <2>2
  <1>5. Requoted(V) = FlattenSeq(parts)
    <2>1. DOMAIN vs = 1 .. n /\ Len(vs) = n
      <3> HIDE DEF vs, n
      <3> QED
        BY <1>1, Sequenced
    <2>2. Requoted(V) = FlattenSeq([i \in DOMAIN vs |-> Displayed(vs[i]) \o (IF i = Len(vs) THEN << >> ELSE e)])
      BY Zenon DEF Requoted, Displayed, Quotation, Comma
    <2> HIDE DEF vs, n, e
    <2> QED
      BY <2>1, <2>2
  <1> HIDE DEF n, vs, e
  <1>6. \A i \in 1 .. n : Displayed(vs[i]) \o e \in CharacterText /\ Displayed(vs[i]) \o << >> = Displayed(vs[i])
    <2>1. \A u \in CharacterText : u \o e \in CharacterText /\ u \o << >> = u
      BY <1>3, BeginsAs, ConcatEmptySeq DEF CharacterText
    <2> QED
      BY <1>4, <2>1
  <1>7. texts \in [1 .. n -> CharacterText] /\ parts \in [1 .. n -> CharacterText]
    BY <1>4, <1>6
  <1>8. (\A i \in 1 .. n : i < n => texts[i] = parts[i]) /\ texts[n] = parts[n] \o e
    <2>1. n \in 1 .. n /\ \A i \in 1 .. n : i < n => i # n
      BY <1>2
    <2> QED
      BY <1>6, <2>1
  <1>9. \A i \in 1 .. n : texts[i] = Displayed(vs[i]) \o e
    OBVIOUS
  <1> HIDE DEF texts, parts
  <1>10. list = FlattenSeq(parts) \o e /\ FlattenSeq(parts) \in CharacterText
    BY <1>2, <1>3, <1>7, <1>8, FlattenLonger
  <1>11. list = Append(Requoted(V), Comma) /\ list \in CharacterText
    <2> DEFINE r == FlattenSeq(parts)
    <2>1. r \in Seq(Character) /\ Comma \in Character
      BY <1>10, MarksAre DEF CharacterText
    <2> HIDE DEF r
    <2>2. Append(r, Comma) = r \o e
      BY <2>1, AppendIsConcat DEF e
    <2>3. Append(r, Comma) \in CharacterText
      BY <2>1, OneLonger DEF CharacterText
    <2> QED
      BY <1>5, <1>10, <2>2, <2>3 DEF r
  <1>12. PICK rest \in [0 .. n -> CharacterText] :
            /\ rest[0] = list /\ rest[n] = << >> /\ \A i \in 1 .. n : rest[i - 1] = texts[i] \o rest[i]
    <2>1. texts \in Seq(CharacterText) /\ Len(texts) = n
      BY <1>2, <1>7, Sequenced
    <2> QED
      BY <2>1, Flattened
  <1> HIDE DEF list
  <1>13. \A i \in 1 .. n : vs[i] \in ListedValue /\ rest[i - 1] = (Displayed(vs[i]) \o << Comma >>) \o rest[i]
    BY <1>4, <1>9, <1>12 DEF e
  <1>14. PICK f : Listing(f, list) /\ CS!ListedValues(list) = f[Len(list)]
    BY <1>11, ListedUnfolds
  <1>15. f[Len(list)] = ListedTo(<< >>, 0, {vs[j] : j \in 1 .. n})
    <2>1. ListOf(list, vs, n, rest)
      BY <1>12, <1>13 DEF ListOf
    <2>2. list \in CharacterText /\ Listing(f, list) /\ n \in Nat
      BY <1>2, <1>11, <1>14
    <2> QED
      BY <2>1, <2>2, AllListed
  <1>16. {vs[j] : j \in 1 .. n} = V
    BY <1>1 DEF n, vs
  <1> DEFINE s == CS!ListedValues(list)
             out == CS!ParseCatalogFnVLArgs(Requoted(V))
  <1>17. out = IF CS!Failed(s) THEN s ELSE IF s.curr # << >> THEN CS!Failure("invalid list") ELSE [values |-> s.values]
    BY <1>11, Zenon DEF CS!ParseCatalogFnVLArgs, Comma
  <1>18. s = ListedTo(<< >>, 0, V)
    BY <1>14, <1>15, <1>16
  <1>19. ~CS!Failed(s)
    BY <1>18, InvalidIs
  <1>20. s.curr = << >> /\ s.values = V
    BY <1>18 DEF ListedTo
  <1> QED
    BY <1>17, <1>19, <1>20, Zenon

\* SQLConnect.
LEMMA ArgumentsReadBack ==
    ASSUME ReadArguments
    PROVE  call'.op = "connect" /\ ArgumentsArrive'
  <1>1. PICK ks \in SUBSET ConnectKey : \E given \in [ks -> FieldValue] :
           call' = [op |-> "connect", given |-> given, out |-> CS!ReadConnectionString(CS!ConnectString(given))]
    BY Zenon DEF ReadArguments, ConnectKey
  <1>2. PICK given \in [ks -> FieldValue] :
           call' = [op |-> "connect", given |-> given, out |-> CS!ReadConnectionString(CS!ConnectString(given))]
    BY <1>1
  <1> DEFINE out == CS!ReadConnectionString(CS!ConnectString(given))
  <1> HIDE DEF out
  <1>3. call'.op = "connect" /\ call'.given = given /\ call'.out = out
    BY <1>2 DEF out
  <1>4. ASSUME \A k \in DOMAIN given : ~Contains(given[k], Closing)
        PROVE  out = [fields |-> [k \in {<< d >> : d \in DOMAIN given} |-> given[k[1]]]]
    <2>1. DOMAIN given = ks /\ \A d \in ks : given[d] \in Unclosed
      BY <1>4 DEF Unclosed
    <2> QED
      BY <2>1, ConnectRead DEF out
  <1>5. (\A k \in DOMAIN given : ~Contains(given[k], "}")) =>
           out = [fields |-> [k \in {<< d >> : d \in DOMAIN given} |-> given[k[1]]]]
    BY <1>4, Zenon DEF Closing
  <1> QED
    BY <1>3, <1>5, Zenon DEF ArgumentsArrive

\* A string written by the rules.
LEMMA WrittenReadBack ==
    ASSUME Read
    PROVE  call'.op = "read" /\ WrittenArrives'
  <1>1. PICK pairs \in SeqOf(FieldKey \X Unclosed, MostFields), b \in Spacing :
           call' = [op |-> "read", pairs |-> pairs, out |-> CS!ReadConnectionString(StringOf(pairs, b))]
    BY UnclosedIs, Zenon DEF Read, Spacing
  <1>2. CS!ReadConnectionString(StringOf(pairs, b)) = [fields |-> Kept(pairs)]
    BY WrittenRead
  <1> QED
    BY <1>1, <1>2 DEF WrittenArrives

\* A string written by no rule.
LEMMA AcceptedReadBack ==
    ASSUME ReadText
    PROVE  call'.op = "text" /\ AcceptedAgain'
  <1>1. PICK text \in AnyText : call' = [op |-> "text", text |-> text, out |-> CS!ReadConnectionString(text)]
    BY DEF ReadText
  <1> DEFINE out == CS!ReadConnectionString(text)
  <1>2. text \in CharacterText
    BY StringsAssumption DEF CharacterText
  <1>3. ~CS!Failed(out) => CS!ReadConnectionString(StringOf(Pairs(out.fields), << CS!Space >>)) = out
    BY <1>2, TextReadBack
  <1> HIDE DEF out
  <1>4. call'.op = "text" /\ call'.out = out
    BY <1>1 DEF out
  <1> QED
    BY <1>3, <1>4, Zenon DEF AcceptedAgain

\* The table types of SQLTables.
LEMMA ListedReadBack ==
    ASSUME ReadList
    PROVE  call'.op = "list" /\ ListedAgain'
  <1>1. PICK list \in AnyText : call' = [op |-> "list", list |-> list, out |-> CS!ParseCatalogFnVLArgs(list)]
    BY DEF ReadList
  <1> DEFINE out == CS!ParseCatalogFnVLArgs(list)
  <1>2. list \in CharacterText
    BY StringsAssumption DEF CharacterText
  <1>3. out \in Invalid \/ \E V \in ValueSets : V # {} /\ out = [values |-> V]
    BY <1>2, ListGives
  <1> HIDE DEF out
  <1>4. ASSUME ~CS!Failed(out)
        PROVE  CS!ParseCatalogFnVLArgs(Requoted(out.values)) = out
    <2>1. PICK V \in ValueSets : V # {} /\ out = [values |-> V]
      BY <1>3, <1>4, InvalidIs
    <2>2. CS!ParseCatalogFnVLArgs(Requoted(V)) = [values |-> V]
      BY <2>1, ListReadBack
    <2>3. out.values = V
      BY <2>1
    <2> QED
      BY <2>1, <2>2, <2>3
  <1>5. call'.op = "list" /\ call'.out = out
    BY <1>1 DEF out
  <1> QED
    BY <1>4, <1>5, Zenon DEF ListedAgain

\* readConnectionString and parseCatalogFnVLArgs: what is written by the rules
\* is read as it was written, and of any text that is accepted what was read
\* can be written and read again.
THEOREM StringsAreReadBack == StringsSpec => []StringsReadBack
  <1>1. NotCalled => StringsReadBack
    BY DEF NotCalled, Start, StringsReadBack, ArgumentsArrive, WrittenArrives, AcceptedAgain, ListedAgain
  <1>2. StringsReadBack /\ [StringCall]_call => StringsReadBack'
    <2>1. ASSUME StringCall
          PROVE  StringsReadBack'
      <3>1. \/ call'.op = "connect" /\ ArgumentsArrive'
            \/ call'.op = "read" /\ WrittenArrives'
            \/ call'.op = "text" /\ AcceptedAgain'
            \/ call'.op = "list" /\ ListedAgain'
        BY <2>1, ArgumentsReadBack, WrittenReadBack, AcceptedReadBack, ListedReadBack DEF StringCall
      <3>2. /\ call'.op # "connect" => ArgumentsArrive'
            /\ call'.op # "read" => WrittenArrives'
            /\ call'.op # "text" => AcceptedAgain'
            /\ call'.op # "list" => ListedAgain'
        BY Zenon DEF ArgumentsArrive, WrittenArrives, AcceptedAgain, ListedAgain
      <3>3. ArgumentsArrive' /\ WrittenArrives' /\ AcceptedAgain' /\ ListedAgain'
        BY <3>1, <3>2
      <3> QED
        BY <3>3 DEF StringsReadBack
    <2>2. ASSUME StringsReadBack, UNCHANGED call
          PROVE  StringsReadBack'
      BY <2>2, Zenon DEF StringsReadBack, ArgumentsArrive, WrittenArrives, AcceptedAgain, ListedAgain
    <2> QED
      BY <2>1, <2>2
  <1> QED
    BY <1>1, <1>2, PTL DEF StringsSpec
=============================================================================
