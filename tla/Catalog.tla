------------------------------- MODULE Catalog -------------------------------
(* What an application learns of the service through one connection: what   *)
(* the driver says it can do, the tables, columns, keys and procedures a    *)
(* catalog function lists, and how a column is described.                   *)
EXTENDS Call, CatalogQuery, Types

CONSTANTS
    Session,         \* what connections contribute to a query
    Argument,        \* values an application gives, besides Absent
    Object,          \* columns of views and parameters of procedures, each with
                     \* where the service stores it
    ForeignKey,      \* pairs of a column of a foreign key and one it refers to
    StringMaxLength  \* values of the connection's string_max_length

NamesOf(o) == {o.database, o.dataverse, o.part1, o.part2, o.name, o.column} \ {Null}

\* The service stores names in full and matches them by the rules of LIKE: a
\* name matches itself and what matches anything, and a name that matches
\* a pattern does so in lower case, too.
ASSUME CatalogAssumption ==
    /\ Null \notin Argument \cup {""}
    /\ \A s \in Session : s.cat1 # Null /\ s.cat2 # Null
    /\ ForeignKey \subseteq [fk : Object, ref : Object]
    /\ StringMaxLength \subseteq Int
    /\ "VIEW" # Null /\ "VIEW" \in Like["VIEW"]
    /\ \A o \in Object : \A v \in NamesOf(o) :
          /\ v \in Like[v]
          /\ \A a \in MatchAnything : Lower[v] \in Like[Lower[a]]
          /\ \A a \in Argument \cup {""} : v \in Like[a] => Lower[v] \in Like[Lower[a]]

\* The service has an object in a dataverse of two parts.
ASSUME SchemaAssumption == \E o \in Object : o.dataverse # Null /\ o.part2 # Null

-----------------------------------------------------------------------------
(* Functions and capabilities                                               *)

\* Functions the driver exports only to answer SQL_ERROR.
Stub == { "SQLBulkOperations", "SQLCancelHandle", "SQLColumnPrivileges", "SQLCompleteAsync",
          "SQLExtendedFetch", "SQLGetCursorName", "SQLParamData", "SQLPutData",
          "SQLSetCursorName", "SQLSetPos", "SQLSpecialColumns", "SQLStatistics",
          "SQLTablePrivileges" }

\* Functions that do their work, here or in impl.cpp.
Working == { "SQLAllocHandle", "SQLBindCol", "SQLBindParameter", "SQLBrowseConnect", "SQLCancel",
             "SQLCloseCursor", "SQLColAttribute", "SQLColumns", "SQLConnect", "SQLCopyDesc",
             "SQLDescribeCol", "SQLDescribeParam", "SQLDisconnect", "SQLDriverConnect",
             "SQLEndTran", "SQLExecDirect", "SQLExecute", "SQLFetch", "SQLFetchScroll",
             "SQLForeignKeys", "SQLFreeHandle", "SQLFreeStmt", "SQLGetConnectAttr", "SQLGetData",
             "SQLGetDescField", "SQLGetDescRec", "SQLGetDiagField", "SQLGetDiagRec",
             "SQLGetEnvAttr", "SQLGetFunctions", "SQLGetInfo", "SQLGetStmtAttr", "SQLGetTypeInfo",
             "SQLMoreResults", "SQLNativeSql", "SQLNumParams", "SQLNumResultCols", "SQLPrepare",
             "SQLPrimaryKeys", "SQLProcedureColumns", "SQLProcedures", "SQLRowCount",
             "SQLSetConnectAttr", "SQLSetDescField", "SQLSetDescRec", "SQLSetEnvAttr",
             "SQLSetStmtAttr", "SQLTables" }

Exists_Fault == Working \cup {"SQLSetPos"}

\* The functions SQLGetFunctions reports.
Exists == Working

\* SQLGetFunctions answers one question only; another is an error.
GetFunctions(id) ==
    IF id = "SQL_API_ODBC3_ALL_FUNCTIONS" THEN [result |-> "success", exists |-> Exists]
    ELSE [result |-> "error", exists |-> {}]

\* What SQLGetInfo answers that the catalog functions depend on.  The case of
\* SQL_SCHEMA_USAGE leaves the switch without a value when its condition
\* fails: what is returned, and so the return code, is then undefined.
GetInfo(s, info) ==
    CASE info = "SQL_CATALOG_NAME"  -> {"Y"}
      [] info = "SQL_CATALOG_USAGE" -> {"used"}
      [] info = "SQL_SCHEMA_USAGE"  -> IF SeesSchemas(s) THEN {"used"} ELSE {"undefined"}
      [] info = "SQL_ROW_UPDATES"   -> {"N"}
      [] info = "SQL_NEED_LONG_DATA_LEN" -> {"N"}
      [] info = "SQL_DATABASE_NAME" -> {s.cat1}
      [] OTHER                      -> {"unsupported"}

InfoType == {"SQL_CATALOG_NAME", "SQL_CATALOG_USAGE", "SQL_SCHEMA_USAGE", "SQL_ROW_UPDATES",
             "SQL_NEED_LONG_DATA_LEN", "SQL_DATABASE_NAME", "another"}

-----------------------------------------------------------------------------
(* Calls                                                                    *)

Component == {"cat", "schem", "name", "column"}
KeyComponent == {"fkcat", "fkschem", "fkname", "pkcat", "pkschem", "pkname"}

Components == [ SQLTables |-> Component \ {"column"}, SQLColumns |-> Component,
                SQLPrimaryKeys |-> Component \ {"column"}, SQLForeignKeys |-> KeyComponent,
                SQLProcedures |-> Component \ {"column"}, SQLProcedureColumns |-> Component ]

\* The columns a condition is about, of an object and of a row that pairs a
\* foreign key with a primary key.
Row1(s, o) ==
    LET at == Located(s, o)
    IN  [cat |-> at.cat, schem |-> at.schem, name |-> o.name, column |-> o.column, type |-> "VIEW"]
Row2(s, key, pk) ==
    LET fk == Located(s, key.fk)
        at == Located(s, pk)
    IN  [ fkcat |-> fk.cat, fkschem |-> fk.schem, fkname |-> key.fk.name,
          pkcat |-> at.cat, pkschem |-> at.schem, pkname |-> pk.name ]

\* The conditions of the join: a primary key of the table the foreign key
\* refers to, with the name of the foreign key's own column.
Joined(s, key, pk) ==
    LET ref == Located(s, key.ref)
        at  == Located(s, pk)
    IN  /\ at.cat # Null /\ at.cat = ref.cat
        /\ at.schem # Null /\ at.schem = ref.schem
        /\ pk.name = key.ref.name
        /\ key.fk.column = pk.column

\* SQLTables' special requests are answered without looking at the objects.
Special(s, args, anyType) ==
    CASE TablesKind(s, args, anyType) = "catalogs" -> {[cat |-> s.cat1]}
      [] TablesKind(s, args, anyType) = "schemas"  -> {}
      [] TablesKind(s, args, anyType) = "types"    -> {[type |-> "View"]}

AnyType(types) == types = {"%"}

Listed(f, s, args, types) ==
    LET q == Query(f, s, args, types)
    IN  IF f = "SQLForeignKeys"
        THEN {r \in ForeignKey \X Object : Joined(s, r[1], r[2]) /\ Satisfies(q, Row2(s, r[1], r[2]))}
        ELSE IF f = "SQLTables" /\ TablesKind(s, args, AnyType(types)) # "tables"
        THEN Special(s, args, AnyType(types))
        ELSE {o \in Object : Satisfies(q, Row1(s, o))}

\* A catalog function: the service refuses a query it cannot parse.
Ask(f, s, args, types) ==
    LET parses == \/ f = "SQLTables" /\ TablesKind(s, args, AnyType(types)) # "tables"
                  \/ Parses(Query(f, s, args, types))
    IN  call' = [ op |-> f, s |-> s, args |-> args, types |-> types, parses |-> parses,
                  listed |-> IF parses THEN Listed(f, s, args, types) ELSE {} ]

AskFunctions(id) == call' = [op |-> "SQLGetFunctions", result |-> GetFunctions(id)]

AskInfo(s, info) ==
    \E answer \in GetInfo(s, info) : call' = [op |-> "SQLGetInfo", s |-> s, info |-> info, answer |-> answer]

\* A result set has a column of type t: what the two functions say of it.
Describe(t, nullable, stringMaxLength) ==
    call' = [ op |-> "describe", t |-> t, longest |-> stringMaxLength,
              described |-> DescribeCol(t, nullable, stringMaxLength),
              attribute |-> ColAttribute(t, nullable, stringMaxLength) ]

TypeLists == {{"%"}, {"VIEW"}, {"TABLE"}}

CatalogCall ==
    \/ \E s \in Session :
            \/ \E f \in DOMAIN Components \ {"SQLTables", "SQLForeignKeys"} :
                 \E args \in [Components[f] -> Argument \cup {Absent}] : Ask(f, s, args, {"%"})
            \/ \E args \in [Components["SQLForeignKeys"] -> {"a", "%", Absent}] :
                 Ask("SQLForeignKeys", s, args, {"%"})
            \/ \E args \in [Components["SQLTables"] -> Argument \cup {"", Absent}], types \in TypeLists :
                 Ask("SQLTables", s, args, types)
            \/ \E info \in InfoType : AskInfo(s, info)
    \/ \E id \in {"SQL_API_ODBC3_ALL_FUNCTIONS", "another"} : AskFunctions(id)
    \/ \E t \in ServiceType, n \in BOOLEAN, m \in StringMaxLength : Describe(t, n, m)

CatalogSpec == NotCalled /\ [][CatalogCall]_call

-----------------------------------------------------------------------------
(* Properties                                                               *)

IsQuery == call.op \in DOMAIN Components

\* An application of ODBC 3 that takes arguments for patterns, as it does by
\* default, and names the catalog gets a query the service can parse from
\* every catalog function, whatever else it asks for.
OrdinaryQueriesParse ==
    IsQuery /\ ~call.s.metadataId /\ ~call.s.odbc2 =>
        LET named(k) == Given(call.args, k) /\ call.args[k] \notin MatchAnything
            catalogs == IF call.op # "SQLForeignKeys" THEN {"cat"}
                        ELSE IF Given(call.args, "fkname") THEN {"fkcat"} ELSE {"pkcat", "pkname"}
        IN  (\A k \in catalogs : named(k)) => call.parses

\* The value of a component of a listed row, and how it may match.
Fits(v, asked) == v = Null \/ Lower[v] = Lower[asked] \/ Lower[v] \in Like[Lower[asked]]

RowOf(s, x) == IF call.op = "SQLForeignKeys" THEN Row2(s, x[1], x[2]) ELSE Row1(s, x)

Ordinary == call.op # "SQLTables" \/ TablesKind(call.s, call.args, AnyType(call.types)) = "tables"

\* The arguments that count: of SQLForeignKeys those of a table that is named.
Counts(k) ==
    CASE k \in {"fkcat", "fkschem"} -> Given(call.args, "fkname")
      [] k \in {"pkcat", "pkschem"} -> Given(call.args, "pkname")
      [] OTHER -> TRUE

\* Nothing is listed that was not asked for: a listed row fits each argument
\* in the wider of the ways ODBC has; where there are no schemas that of the
\* schema is beside the point.
OnlyWhatIsAsked ==
    \A x \in call.listed : \A k \in Components[call.op] :
        Counts(k) /\ Given(call.args, k) => Fits(RowOf(call.s, x)[k], call.args[k])

\* An argument names exactly this value, or leaves it open; a catalog left
\* open is the connected one, and no schema is asked for where there is none.
Names(s, args, k, v) ==
    IF Given(args, k) THEN args[k] = v
    ELSE k # "cat" \/ v = s.cat1

\* Everything is listed that was asked for by its exact names: the columns,
\* tables and procedures, and the foreign keys whose columns have the name of
\* those they refer to; SQLTables is bound to the scope connected to.
AllThatIsAsked ==
    IF call.op = "SQLForeignKeys"
    THEN \A key \in ForeignKey :
            LET row == Row2(call.s, key, key.ref)
            IN  /\ SeesSchemas(call.s) /\ key.fk.column = key.ref.column
                /\ \A k \in KeyComponent : row[k] # Null /\ Names(call.s, call.args, k, row[k])
                => <<key, key.ref>> \in call.listed
    ELSE \A o \in Object :
            LET row == Row1(call.s, o)
            IN  /\ \A k \in Components[call.op] :
                      \/ Names(call.s, call.args, k, row[k])
                      \/ k = "schem" /\ ~SeesSchemas(call.s) /\ ~call.s.metadataId
                         /\ call.op \in {"SQLColumns", "SQLPrimaryKeys"}
                /\ call.types # {"TABLE"}
                /\ call.op = "SQLTables" /\ call.s.twoPart =>
                      row.cat = call.s.cat1 /\ row.schem = call.s.cat2
                => o \in call.listed

\* A query lists only and all of what was asked for.
ListsWhatIsAsked == IsQuery /\ call.parses /\ Ordinary => OnlyWhatIsAsked /\ AllThatIsAsked

\* What the driver says it can do, it does: the functions reported are
\* implemented and include all those asked for here, and an application is
\* told that schemas are used if and only if objects have one.
ImplementedAsAnnounced ==
    /\ call.op = "SQLGetFunctions" /\ call.result.result = "success" =>
          call.result.exists \cap Stub = {} /\ DOMAIN Components \subseteq call.result.exists
    /\ call.op = "SQLGetInfo" /\ call.info = "SQL_SCHEMA_USAGE" =>
          (call.answer = "used" <=> \E o \in Object : Located(call.s, o).schem # Null)

\* SQLDescribeCol and SQLColAttribute describe a column alike, with no buffer
\* longer than the connection allows, and for the types SQLColumns knows also
\* as it and SQLGetTypeInfo announced the column: the type, and the verbose
\* type and subcode that make it.
DescribedAlike ==
    call.op = "describe" =>
        /\ call.described.type = call.attribute.type
        /\ call.described.nullable = call.attribute.nullable
        /\ IsBuffer(TypeInfoOf(call.t)) =>
              call.attribute.length <= call.longest /\ call.described.size <= call.longest
        /\ call.t \in DOMAIN ColumnsRow =>
              LET announced == {ColumnsRow[call.t], TypeInfoRow[call.t]}
              IN  \A row \in announced :
                     /\ row.type = call.described.type
                     /\ row.type = IF IsVerbose(row.verbose) THEN ConciseOf(row.sub, row.verbose)
                                   ELSE row.verbose
=============================================================================
