----------------------------- MODULE Attributes -----------------------------
(* SQLSet...Attr and SQLGet...Attr of environments, connections and         *)
(* statements, for attributes that are integers or addresses; the others    *)
(* are in Connection and HandleRegistry.  A place is where a value is       *)
(* stored: an object and the attribute or field of it; a place that has no  *)
(* value yet reads as its default.  Short is the number of bits of a        *)
(* SQLUSMALLINT.                                                            *)
EXTENDS Call, Numbers

CONSTANTS
    Short,
    AttributeValue,    \* values set, in the 4 * Short bits of a pointer
    VariableBefore,    \* what the variable to read into holds before
    OdbcVersion        \* the versions of ODBC the driver knows

ASSUME AttributesAssumption ==
    /\ Short \in Nat \ {0}
    /\ AttributeValue \subseteq Nat /\ VariableBefore \subseteq Nat

Medium  == 2 * Short
Long == 4 * Short

\* Statement attributes that are in a descriptor: which, and its attribute.
InDescriptor ==
    [ PARAM_BIND_OFFSET_PTR |-> <<"APD", "BIND_OFFSET_PTR">>,
      PARAM_BIND_TYPE       |-> <<"APD", "BIND_TYPE">>,
      PARAM_OPERATION_PTR   |-> <<"APD", "ARRAY_STATUS_PTR">>,
      PARAM_STATUS_PTR      |-> <<"IPD", "ARRAY_STATUS_PTR">>,
      PARAMS_PROCESSED_PTR  |-> <<"IPD", "ROWS_PROCESSED_PTR">>,
      PARAMSET_SIZE         |-> <<"APD", "ARRAY_SIZE">>,
      ROW_ARRAY_SIZE        |-> <<"ARD", "ARRAY_SIZE">>,
      ROW_BIND_OFFSET_PTR   |-> <<"ARD", "BIND_OFFSET_PTR">>,
      ROW_BIND_TYPE         |-> <<"ARD", "BIND_TYPE">>,
      ROW_OPERATION_PTR     |-> <<"ARD", "ARRAY_STATUS_PTR">>,
      ROW_STATUS_PTR        |-> <<"IRD", "ARRAY_STATUS_PTR">>,
      ROWS_FETCHED_PTR      |-> <<"IRD", "ROWS_PROCESSED_PTR">> ]

\* Attributes that run on into the timeout of their object.
IntoLoginTimeout == {"ACCESS_MODE", "ASYNC_ENABLE", "AUTO_IPD", "AUTOCOMMIT", "CONNECTION_DEAD", "LOGIN_TIMEOUT"}

IntoQueryTimeout ==
    { "CURSOR_SCROLLABLE", "CURSOR_SENSITIVITY", "ASYNC_ENABLE", "CONCURRENCY", "CURSOR_TYPE", "ENABLE_AUTO_IPD",
      "FETCH_BOOKMARK_PTR", "KEYSET_SIZE", "MAX_LENGTH", "MAX_ROWS", "QUERY_TIMEOUT" }

Ignored ==
    [ environment |-> {"CONNECTION_POOLING", "CP_MATCH", "OUTPUT_NTS"},
      connection  |-> {"ODBC_CURSORS", "PACKET_SIZE", "QUIET_MODE", "TRANSLATE_OPTION", "TXN_ISOLATION"},
      statement   |-> {"RETRIEVE_DATA", "ROW_NUMBER", "SIMULATE_CURSOR", "USE_BOOKMARKS"} ]

AttributesOf ==
    [ environment |-> Ignored.environment \cup {"ODBC_VERSION"},
      connection  |-> Ignored.connection \cup IntoLoginTimeout \cup {"CONNECTION_TIMEOUT", "METADATA_ID"},
      statement   |-> Ignored.statement \cup IntoQueryTimeout \cup DOMAIN InDescriptor \cup {"METADATA_ID", "NOSCAN"} ]

Attribute == UNION { {object} \X AttributesOf[object] : object \in DOMAIN AttributesOf }

\* What is effective for the two application descriptors.
EffectiveDescriptor(d, shared) == IF shared /\ d \in {"APD", "ARD"} THEN "explicit" ELSE d

DescriptorPlace(a, shared) == << EffectiveDescriptor(InDescriptor[a][1], shared), InDescriptor[a][2] >>

Store(values, place, v) == [p \in DOMAIN values \cup {place} |-> IF p = place THEN v ELSE values[p]]

Answer(result, values) == [result |-> result, values |-> values]

\* SQLSetEnvAttr
SetEnvAttr(values, a, v) ==
    IF a \in Ignored.environment THEN Answer("success", values)
    ELSE IF v \in OdbcVersion THEN Answer("success", Store(values, <<"environment", "ODBC_VERSION">>, v))
    ELSE Answer("error", values)

\* SQLSetConnectAttr: the connection's own timeout stays what is configured.
SetConnectAttr(values, a, v) ==
    CASE a \in IntoLoginTimeout -> Answer("success", Store(values, <<"connection", "LOGIN_TIMEOUT">>, v % Power(2, Short)))
      [] a = "METADATA_ID"      -> Answer("success", Store(values, <<"connection", a>>, v))
      [] OTHER                  -> Answer("success", values)

\* SQLSetStmtAttr
SetStmtAttr(values, a, v, shared) ==
    CASE a \in IntoQueryTimeout        -> Answer("success", Store(values, <<"statement", "QUERY_TIMEOUT">>, v % Power(2, Short)))
      [] a \in DOMAIN InDescriptor     -> Answer("success", Store(values, DescriptorPlace(a, shared), v))
      [] a \in {"METADATA_ID", "NOSCAN"} -> Answer("success", Store(values, <<"statement", a>>, v))
      [] OTHER                         -> Answer("success", values)

Set(values, attr, v, shared) ==
    CASE attr[1] = "environment" -> SetEnvAttr(values, attr[2], v)
      [] attr[1] = "connection"  -> SetConnectAttr(values, attr[2], v)
      [] OTHER                   -> SetStmtAttr(values, attr[2], v, shared)

\* A value of some bits written to a variable that is as long or longer.
Filled(before, v, bits) == (before \div Power(2, bits)) * Power(2, bits) + (v % Power(2, bits))

\* getAttrAs
AttrAs(values, place, default) == IF place \in DOMAIN values THEN values[place] ELSE default

Got(v, bits) == [result |-> "success", value |-> v, bits |-> bits]
NotGot       == [result |-> "error", value |-> 0, bits |-> 0]

\* SQLGetEnvAttr
GetEnvAttr(values, a) ==
    IF a = "ODBC_VERSION" THEN Got(values[<<"environment", a>>], Medium) ELSE NotGot

\* What is answered whatever was set.
Answered ==
    [ connection |-> [CONNECTION_DEAD |-> 0, TXN_ISOLATION |-> 8, AUTOCOMMIT |-> 1],
      statement  |-> [ CURSOR_SCROLLABLE |-> 0, CURSOR_SENSITIVITY |-> 1, ASYNC_ENABLE |-> 0, CONCURRENCY |-> 1,
                       CURSOR_TYPE |-> 0, ENABLE_AUTO_IPD |-> 0, MAX_LENGTH |-> 0, MAX_ROWS |-> 0,
                       RETRIEVE_DATA |-> 1, USE_BOOKMARKS |-> 0 ] ]

\* SQLGetConnectAttr
GetConnectAttr(values, a) ==
    CASE a \in {"CONNECTION_TIMEOUT", "LOGIN_TIMEOUT"}          -> Got(values[<<"connection", "LOGIN_TIMEOUT">>], Short)
      [] a = "METADATA_ID"                                     -> Got(AttrAs(values, <<"connection", a>>, 0), Medium)
      [] a \in DOMAIN Answered.connection                      -> Got(Answered.connection[a], Medium)
      [] OTHER                                                 -> NotGot

\* SQLGetStmtAttr, without a result set; zero is no timeout of the statement.
GetStmtAttr(values, a, shared) ==
    LET own       == values[<<"statement", "QUERY_TIMEOUT">>]
        inherited == AttrAs(values, <<"connection", "METADATA_ID">>, 0) % Power(2, Medium)
    IN  CASE a \in DOMAIN InDescriptor -> Got(AttrAs(values, DescriptorPlace(a, shared), 0), Long)
          [] a = "METADATA_ID"   -> Got(AttrAs(values, <<"statement", a>>, inherited), Long)
          [] a = "NOSCAN"        -> Got(AttrAs(values, <<"statement", a>>, 0), Long)
          [] a = "QUERY_TIMEOUT" -> Got(IF own # 0 THEN own ELSE values[<<"connection", "query_timeout">>], Long)
          [] a \in DOMAIN Answered.statement -> Got(Answered.statement[a], Long)
          [] OTHER               -> NotGot

Get(values, attr, shared) ==
    CASE attr[1] = "environment" -> GetEnvAttr(values, attr[2])
      [] attr[1] = "connection"  -> GetConnectAttr(values, attr[2])
      [] OTHER                   -> GetStmtAttr(values, attr[2], shared)

\* A connection as configured and a new statement, whose timeout is not
\* initialized.
Fresh(garbage) ==
    [place \in {<<"environment", "ODBC_VERSION">>, <<"connection", "LOGIN_TIMEOUT">>,
                <<"connection", "query_timeout">>, <<"statement", "QUERY_TIMEOUT">>} |->
        CASE place[1] = "environment" -> 3
          [] place[1] = "connection"  -> 1
          [] OTHER                    -> garbage]

\* ODBC's length of the variable of an attribute.
VariableBits(attr) == IF attr[1] = "statement" THEN Long ELSE Medium

\* An application sets two attributes and reads one, with the application
\* descriptors of the statement its own or one explicit descriptor for both.
AttributeCall ==
    \E a, b, c \in Attribute, v, w \in AttributeValue, shared \in BOOLEAN,
       garbage \in {0, Power(2, Short) - 1}, before \in VariableBefore :
        LET first  == Set(Fresh(garbage), a, v, shared)
            second == Set(first.values, b, w, shared)
            got    == Get(second.values, c, shared)
        IN  /\ c \in {a, <<"statement", "METADATA_ID">>}
            /\ (before # 0 \/ garbage # 0) => a = c /\ w = v
            /\ v < Power(2, VariableBits(a)) /\ w < Power(2, VariableBits(b))
            /\ call' = [ op |-> "attributes", a |-> a, v |-> v, b |-> b, w |-> w, c |-> c, shared |-> shared,
                         set |-> << first.result, second.result >>, got |-> got.result,
                         variable |-> Filled(before % Power(2, VariableBits(c)), got.value, got.bits), before |-> before ]

-----------------------------------------------------------------------------
(* Properties                                                               *)

\* Attributes that are set with success and forgotten, read as a constant, or
\* stored with only the bits of a timeout.
NotKept ==
    ({"environment"} \X Ignored.environment)
    \cup ({"connection"} \X (Ignored.connection \cup IntoLoginTimeout \cup {"CONNECTION_TIMEOUT"}))
    \cup ({"statement"} \X (Ignored.statement \cup (IntoQueryTimeout \ {"QUERY_TIMEOUT"})))

\* Attributes of which one is set with the other.
Runs(b, a) ==
    \/ a = b
    \/ a[1] = "statement" /\ b[1] = "statement" /\ a[2] \in IntoQueryTimeout /\ b[2] \in IntoQueryTimeout
    \/ /\ call.shared /\ {a, b} \subseteq {"statement"} \X DOMAIN InDescriptor
       /\ InDescriptor[a[2]][2] = InDescriptor[b[2]][2]

\* What an application set with success it reads back, whatever else it set
\* since, unless one of the attributes runs on into the other: the two are in
\* one descriptor, or both set the timeout.  A login timeout reads back in a
\* variable that was zero, a query timeout that is not zero and is short.  A
\* statement whose SQL_ATTR_METADATA_ID was not set has that of its connection.
AttributesReadBack ==
    call.op = "attributes" /\ call.set[1] = "success" /\ call.got = "success" =>
        LET kept == call.a \notin NotKept /\ ~(Runs(call.b, call.a) /\ call.set[2] = "success")
            login == <<"connection", "LOGIN_TIMEOUT">>
            query == <<"statement", "QUERY_TIMEOUT">>
        IN  /\ call.c = call.a /\ kept /\ (call.a = query => call.v \in 1 .. Power(2, Short) - 1) =>
                   call.variable = call.v
            /\ /\ call.c = login /\ call.a = login /\ call.before = 0 /\ call.v < Power(2, Short)
               /\ call.b \notin {"connection"} \X IntoLoginTimeout
               => call.variable = call.v
            /\ /\ call.c = <<"statement", "METADATA_ID">> /\ call.a = <<"connection", "METADATA_ID">>
               /\ call.b \notin {call.a, call.c}
               => call.variable = call.v
=============================================================================
