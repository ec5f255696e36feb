---------------------------- MODULE CatalogQuery ----------------------------
(* The catalog functions: SQLTables, SQLColumns, SQLPrimaryKeys,            *)
(* SQLForeignKeys, SQLProcedures and SQLProcedureColumns turn their         *)
(* arguments into a query on the Metadata dataverse.  A query is reduced to *)
(* its WHERE clause, a sequence of conditions each with or without an AND   *)
(* before it.  The service is reduced to which objects satisfy the clause.  *)
EXTENDS Integers, SequencesExt

CONSTANTS
    Absent,  \* a NULL argument
    Null,    \* the NULL of the service
    Like,    \* for each argument, the values it matches as a pattern
    Lower    \* for each argument and each value, its lower case form

(* A session is what the connection contributes to a query:                 *)
(*   metadataId SQL_ATTR_METADATA_ID, odbc2 the ODBC version of the         *)
(*   environment, entity database_entity_support, twoPart                   *)
(*   two_part_scope_name, cat1 and cat2 the parts of the connected catalog. *)
(* Arguments are a function from components to values; an object of the     *)
(* catalog has a database, a dataverse, the two parts of the dataverse's    *)
(* name, and the names of the table or procedure and of a column.           *)

MatchAnything == {"%", "%%"}        \* isMatchAnythingCatalogFnPatternArg

Given(args, k) == args[k] # Absent

\* The value used for an argument: the connected catalog for a NULL catalog,
\* what matches anything for the others.
Value(s, args, k) ==
    IF Given(args, k) THEN args[k] ELSE IF k = "cat" THEN s.cat1 ELSE "%"

-----------------------------------------------------------------------------
(* Conditions                                                               *)

Cond(and, col, op, v) == [and |-> and, col |-> col, op |-> op, value |-> v, closed |-> TRUE]

When(b, conds) == IF b THEN conds ELSE << >>

\* A condition on a pattern is left out when it matches anything, one on an
\* identifier when the argument is not given.
PatternOr(isPattern, v, given, pattern, identifier) ==
    IF isPattern THEN When(v \notin MatchAnything, pattern) ELSE When(given, identifier)

\* build_query_conditionally: where the catalog and the schema of an object
\* are found.
Located(s, o) ==
    CASE s.entity               -> [cat |-> o.database, schem |-> o.dataverse]
      [] ~s.entity /\ s.twoPart -> [cat |-> o.part1, schem |-> o.part2]
      [] OTHER                  -> [cat |-> o.dataverse, schem |-> Null]

SeesSchemas(s) == s.entity \/ s.twoPart

\* The conditions of SQLTables on the tables that match all arguments; types
\* is the parsed list of table types, all of them with one that matches
\* anything.  The literal of the catalog condition has no opening quote.
TablesWhere(s, args, types) ==
    LET isPattern == ~s.metadataId
        v(k)      == Value(s, args, k)
    IN  When(s.twoPart, << Cond(TRUE, "cat", "eq", s.cat1), Cond(TRUE, "schem", "eq", s.cat2) >>)
        \o PatternOr(isPattern /\ ~s.odbc2, v("cat"), Given(args, "cat"),
             << Cond(TRUE, "cat", "like", v("cat")) >>,
             << [Cond(TRUE, "cat", "eq", v("cat")) EXCEPT !.closed = FALSE] >>)
        \o PatternOr(isPattern, v("schem"), Given(args, "schem"),
             << Cond(TRUE, "schem", "like", v("schem")) >>,
             << Cond(TRUE, "schem", "eq", v("schem")) >>)
        \o PatternOr(isPattern, v("name"), Given(args, "name"),
             << Cond(TRUE, "name", "like", v("name")) >>,
             << Cond(TRUE, "name", "eq", v("name")) >>)
        \o When(types # {} /\ types \cap MatchAnything = {}, << Cond(TRUE, "type", "in", types) >>)

ColumnsWhere(s, args) ==
    LET isPattern == ~s.metadataId
        v(k)      == Value(s, args, k)
        on(k)     == PatternOr(isPattern, v(k), Given(args, k),
                        << Cond(TRUE, k, "like", v(k)) >>, << Cond(TRUE, k, "eq", v(k)) >>)
    IN  on("cat")
        \o When(~isPattern \/ SeesSchemas(s), on("schem"))
        \o on("name") \o on("column")

PrimaryKeysWhere_Fault(s, args) ==
    LET exact       == ~s.metadataId
        v(k)        == Value(s, args, k)
        on(and, k)  == PatternOr(exact, v(k), Given(args, k),
                         << Cond(and, k, "eq", v(k)) >>, << Cond(and, k, "ieq", v(k)) >>)
    IN  on(FALSE, "cat") \o on(TRUE, "schem") \o on(TRUE, "name")

\* What the source calls case_insensitive here is an attribute that is off.
PrimaryKeysWhere(s, args) ==
    LET exact       == ~s.metadataId
        v(k)        == Value(s, args, k)
        on(and, k)  == PatternOr(exact, v(k), Given(args, k),
                         << Cond(and, k, "eq", v(k)) >>, << Cond(and, k, "ieq", v(k)) >>)
    IN  on(FALSE, "cat") \o When(SeesSchemas(s), on(TRUE, "schem")) \o on(TRUE, "name")

ForeignKeysWhere_Fault(s, args) ==
    LET on(and, k)  == When(Given(args, k), << Cond(and, k, "eq", args[k]) >>)
        fk          == on(FALSE, "fkcat") \o on(TRUE, "fkschem") \o on(TRUE, "fkname")
        pk(and)     == on(and, "pkcat") \o on(TRUE, "pkschem") \o on(TRUE, "pkname")
    IN  CASE Given(args, "pkname") /\ Given(args, "fkname") -> fk \o pk(TRUE)
          [] Given(args, "pkname") /\ ~Given(args, "fkname") -> pk(TRUE)
          [] ~Given(args, "pkname") /\ Given(args, "fkname") -> fk
          [] OTHER -> << >>

\* The three cases of SQLForeignKeys; without a table there is no query at
\* all, an empty text.  The clause ends with the conditions of the join.
ForeignKeysWhere(s, args) ==
    LET on(and, k)  == When(Given(args, k), << Cond(and, k, "eq", args[k]) >>)
        fk          == on(FALSE, "fkcat") \o on(TRUE, "fkschem") \o on(TRUE, "fkname")
        pk(and)     == on(and, "pkcat") \o on(TRUE, "pkschem") \o on(TRUE, "pkname")
    IN  CASE Given(args, "pkname") /\ Given(args, "fkname") -> fk \o pk(TRUE)
          [] Given(args, "pkname") /\ ~Given(args, "fkname") -> pk(FALSE)
          [] ~Given(args, "pkname") /\ Given(args, "fkname") -> fk
          [] OTHER -> << >>

ProcedureColumnsWhere(s, args) ==
    LET plain == ~s.metadataId
        v(k)  == Value(s, args, k)
        on(k) == PatternOr(plain, v(k), Given(args, k),
                    << Cond(TRUE, k, "like", v(k)) >>, << Cond(TRUE, k, "ilike", v(k)) >>)
    IN  PatternOr(plain, v("cat"), Given(args, "cat"),
             << Cond(FALSE, "cat", "eq", v("cat")) >>, << Cond(FALSE, "cat", "ieq", v("cat")) >>)
        \o on("schem") \o on("name") \o on("column")

\* SQLProcedures reads the attribute the other way round.
ProceduresWhere(s, args) ==
    LET plain == s.metadataId
        v(k)  == Value(s, args, k)
        on(k) == PatternOr(plain, v(k), Given(args, k),
                    << Cond(TRUE, k, "like", v(k)) >>, << Cond(TRUE, k, "ilike", v(k)) >>)
    IN  PatternOr(plain, v("cat"), Given(args, "cat"),
             << Cond(FALSE, "cat", "eq", v("cat")) >>, << Cond(FALSE, "cat", "ieq", v("cat")) >>)
        \o on("schem") \o on("name")

-----------------------------------------------------------------------------
(* Queries                                                                  *)

\* What SQLTables is asked for: the list of catalogs, of schemas or of table
\* types, or the tables that match.
TablesKind(s, args, anyType) ==
    LET v(k) == Value(s, args, k)
    IN  CASE v("cat") = "%" /\ v("schem") = "" /\ v("name") = ""              -> "catalogs"
          [] v("cat") = "" /\ v("schem") = "%" /\ v("name") = ""              -> "schemas"
          [] v("cat") = "" /\ v("schem") = "" /\ v("name") = "" /\ anyType    -> "types"
          [] OTHER                                                            -> "tables"

\* A query: based says that the WHERE clause has a condition of its own
\* before those of the arguments, joined that conditions follow them.
Query(f, s, args, types) ==
    CASE f = "SQLTables" ->
           [based |-> TRUE, joined |-> FALSE, conds |-> TablesWhere(s, args, types)]
      [] f = "SQLColumns" ->
           [based |-> TRUE, joined |-> FALSE, conds |-> ColumnsWhere(s, args)]
      [] f = "SQLPrimaryKeys" ->
           [based |-> FALSE, joined |-> FALSE, conds |-> PrimaryKeysWhere(s, args)]
      [] f = "SQLForeignKeys" ->
           [based |-> FALSE, joined |-> TRUE, conds |-> ForeignKeysWhere(s, args)]
      [] f = "SQLProcedureColumns" ->
           [based |-> FALSE, joined |-> FALSE, conds |-> ProcedureColumnsWhere(s, args)]
      [] f = "SQLProcedures" ->
           [based |-> FALSE, joined |-> FALSE, conds |-> ProceduresWhere(s, args)]

\* Is the clause one the service can parse?  Every literal is closed, an AND
\* stands between two conditions and nowhere else, and WHERE is followed by one.
Parses(q) ==
    /\ q.based \/ q.conds # << >>
    /\ \A i \in DOMAIN q.conds : q.conds[i].closed /\ (q.conds[i].and <=> q.based \/ i > 1)

\* Does the object with these columns satisfy a condition?  No condition holds
\* of a NULL.
Holds(c, o) ==
    /\ o[c.col] # Null
    /\ CASE c.op = "eq"    -> o[c.col] = c.value
         [] c.op = "ieq"   -> Lower[o[c.col]] = Lower[c.value]
         [] c.op = "like"  -> o[c.col] \in Like[c.value]
         [] c.op = "ilike" -> Lower[o[c.col]] \in Like[Lower[c.value]]
         [] c.op = "in"    -> \E t \in c.value : o[c.col] \in Like[t]

Satisfies(q, o) == \A i \in DOMAIN q.conds : Holds(q.conds[i], o)
=============================================================================
