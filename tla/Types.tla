------------------------------- MODULE Types -------------------------------
(* The types of the driver: the names the service, the driver and ODBC give *)
(* a type, how a verbose type and its subcode make a concise one, and what  *)
(* SQLColumns, SQLGetTypeInfo, SQLDescribeCol and SQLColAttribute say of a  *)
(* column.  ODBC types and subcodes are their names; sizes are numbers.     *)
EXTENDS Integers, Sequences

\* The parts of an interval type: the fields from its first to its last one.
IntervalField == << "YEAR", "MONTH", "DAY", "HOUR", "MINUTE", "SECOND" >>
IntervalSpan ==
    {<<"YEAR", "YEAR">>, <<"MONTH", "MONTH">>, <<"YEAR", "MONTH">>} \cup
    {<<IntervalField[p[1]], IntervalField[p[2]]>> : p \in {q \in (3 .. 6) \X (3 .. 6) : q[1] <= q[2]}}

DateTimePart == {"DATE", "TIME", "TIMESTAMP"}
Part         == DateTimePart \cup IntervalSpan

\* A type is a kind and, for dates, times and intervals, the part of it: the
\* verbose types SQL_DATETIME and SQL_INTERVAL have none.
NoPart == "none"
DateTime(p) == [kind |-> "TYPE", part |-> p]
Interval(p) == [kind |-> "INTERVAL_OF", part |-> p]
Plain(k)    == [kind |-> k, part |-> NoPart]

PlainKind == { "TYPE_NULL", "CHAR", "VARCHAR", "LONGVARCHAR", "WCHAR", "WVARCHAR", "WLONGVARCHAR",
               "DECIMAL", "NUMERIC", "BIT", "TINYINT", "SMALLINT", "INTEGER", "BIGINT", "REAL",
               "FLOAT", "DOUBLE", "BINARY", "VARBINARY", "LONGVARBINARY", "GUID" }
VerboseKind == {"DATETIME", "INTERVAL"}
UnknownType == Plain("UNKNOWN_TYPE")

SqlType == {Plain(k) : k \in PlainKind \cup VerboseKind}
           \cup {DateTime(p) : p \in DateTimePart} \cup {Interval(p) : p \in IntervalSpan}

-----------------------------------------------------------------------------
(* Verbose and concise types                                                *)

IsVerbose(t) == t \in {Plain(k) : k \in VerboseKind}

VerboseOf(t) ==
    CASE t.kind = "TYPE"        -> Plain("DATETIME")
      [] t.kind = "INTERVAL_OF" -> Plain("INTERVAL")
      [] OTHER                  -> t

\* Date, time and timestamp are numbered 1, 2, 3, and so are years, months
\* and days; 0 is no subcode.
IntervalCode ==
    [p \in IntervalSpan |->
        LET from == CHOOSE i \in 1 .. 6 : IntervalField[i] = p[1]
            to   == CHOOSE i \in 1 .. 6 : IntervalField[i] = p[2]
        IN  IF from = to THEN from
            ELSE CASE from = 1 -> 7 [] from = 3 -> 4 + to [] from = 4 -> 6 + to [] from = 5 -> 13]

DateTimeCode == [DATE |-> 1, TIME |-> 2, TIMESTAMP |-> 3]

\* convertSQLTypeToDateTimeIntervalCode.
CodeOf(t) ==
    CASE t.kind = "TYPE"        -> DateTimeCode[t.part]
      [] t.kind = "INTERVAL_OF" -> IntervalCode[t.part]
      [] OTHER                  -> 0

\* convertDateTimeIntervalCodeToSQLType: the concise type of a verbose one.
ConciseOf_Fault(code, verbose) ==
    CASE verbose = Plain("DATETIME") /\ code \in 1 .. 3 ->
           DateTime(<<"DATE", "TIMESTAMP", "TIME">>[code])
      [] verbose = Plain("INTERVAL") /\ code \in 1 .. 13 ->
           Interval(CHOOSE p \in IntervalSpan : IntervalCode[p] = code)
      [] OTHER -> UnknownType

ConciseOf(code, verbose) ==
    CASE verbose = Plain("DATETIME") /\ code \in 1 .. 3 ->
           DateTime(CHOOSE p \in DateTimePart : DateTimeCode[p] = code)
      [] verbose = Plain("INTERVAL") /\ code \in 1 .. 13 ->
           Interval(CHOOSE p \in IntervalSpan : IntervalCode[p] = code)
      [] OTHER -> UnknownType

IsConciseDateTimeInterval(t) == ~IsVerbose(t) /\ IsVerbose(VerboseOf(t))

IsIntervalCode(c)     == c \in 1 .. 13
HasSecondComponent(c) == c \in {IntervalCode[p] : p \in {q \in IntervalSpan : q[2] = "SECOND"}}

\* convertSQLTypeToCType: what SQL_C_DEFAULT stands for.
CTypeOf(t) ==
    CASE t.kind \in {"TYPE_NULL", "CHAR", "VARCHAR", "LONGVARCHAR", "DECIMAL"} -> "C_CHAR"
      [] t.kind \in {"WCHAR", "WVARCHAR", "WLONGVARCHAR"} -> "C_WCHAR"
      [] t.kind = "NUMERIC"            -> "C_NUMERIC"
      [] t.kind = "BIT"                -> "C_BIT"
      [] t.kind = "TINYINT"            -> "C_TINYINT"
      [] t.kind = "SMALLINT"           -> "C_SHORT"
      [] t.kind = "INTEGER"            -> "C_LONG"
      [] t.kind = "BIGINT"             -> "C_SBIGINT"
      [] t.kind = "REAL"               -> "C_FLOAT"
      [] t.kind \in {"FLOAT", "DOUBLE"} -> "C_DOUBLE"
      [] t.kind \in {"BINARY", "VARBINARY", "LONGVARBINARY"} -> "C_BINARY"
      [] t.kind = "GUID"               -> "C_GUID"
      [] t.kind = "TYPE"               -> "C_TYPE_" \o t.part
      [] t.kind = "INTERVAL_OF"        -> "C_INTERVAL"
      [] OTHER                         -> "C_DEFAULT"

-----------------------------------------------------------------------------
(* The types of columns                                                     *)

Info(name, unsigned, type, size, octets) ==
    [name |-> name, unsigned |-> unsigned, type |-> type, size |-> size, octets |-> octets]

\* string_max_size, and no total.
StringMaxSize == 16777215
NoTotal       == -4
Text          == Info("TEXT", TRUE, Plain("VARCHAR"), StringMaxSize, StringMaxSize)

\* types_g: those the service's types become.
TypeInfo == [
    UInt8    |-> Info("BIT", TRUE, Plain("BIT"), 3, 1),
    Int8     |-> Info("TINYINT", FALSE, Plain("TINYINT"), 4, 1),
    Int16    |-> Info("SMALLINT", FALSE, Plain("SMALLINT"), 6, 2),
    Int32    |-> Info("INT", FALSE, Plain("INTEGER"), 11, 4),
    Int64    |-> Info("BIGINT", FALSE, Plain("BIGINT"), 20, 8),
    Float64  |-> Info("DOUBLE", FALSE, Plain("DOUBLE"), 15, 8),
    Date     |-> Info("DATE", TRUE, DateTime("DATE"), 10, 6),
    DateTime |-> Info("TIMESTAMP", TRUE, DateTime("TIMESTAMP"), 19, 16),
    Time     |-> Info("TIME", TRUE, DateTime("TIME"), 8, 6),
    String   |-> Text ]

\* cb_to_ch_types_g: the driver's name of a type of the service.
ChType == [
    boolean |-> "UInt8", bigint |-> "Int64", double |-> "Float64", string |-> "String",
    datetime |-> "DateTime", date |-> "Date", time |-> "Time",
    int8 |-> "Int8", int16 |-> "Int16", int32 |-> "Int32", int64 |-> "Int64" ]

ServiceType == DOMAIN ChType

\* type_without_parameters: a type convertUnparametrizedTypeNameToTypeId does
\* not know is a string from then on, but keeps its name, under which
\* getTypeInfo finds it first.
WithoutParameters(t) == IF ChType[t] = "Time" THEN "String" ELSE ChType[t]

DisplaySize(t) ==
    IF WithoutParameters(t) = "String" THEN NoTotal ELSE TypeInfo[WithoutParameters(t)].size

TypeInfoOf(t) == TypeInfo[ChType[t]]

IsBuffer(info) == info.type.kind \in {"CHAR", "VARCHAR", "LONGVARCHAR", "WCHAR", "WVARCHAR",
                                      "WLONGVARCHAR", "BINARY", "VARBINARY", "LONGVARBINARY"}

\* SQLDescribeCol of a column of a type of the service.
DescribeCol(t, nullable, stringMaxLength) ==
    LET info == TypeInfoOf(t)
    IN  [ type |-> info.type, nullable |-> nullable,
          size |-> IF info.size < stringMaxLength THEN info.size ELSE stringMaxLength ]

\* SQLColAttribute; a length is that of a buffer type only.
ColAttribute(t, nullable, stringMaxLength) ==
    LET info   == TypeInfoOf(t)
        shown  == DisplaySize(t)
        length == IF ~IsBuffer(info) THEN 0
                  ELSE IF shown > 0 /\ shown <= stringMaxLength THEN shown ELSE stringMaxLength
    IN  [ type |-> info.type, nullable |-> nullable, length |-> length, display |-> shown,
          octets |-> IF IsBuffer(info) THEN length ELSE info.octets,
          unsigned |-> info.unsigned ]

-----------------------------------------------------------------------------
(* What the catalog functions announce                                      *)

Row(type, size, verbose, sub) == [type |-> type, size |-> size, verbose |-> verbose, sub |-> sub]

\* SQLColumns, computed by the query itself; anything else is a long string.
ColumnsRow ==
    [ int64    |-> Row(Plain("BIGINT"), 19, Plain("BIGINT"), 0),
      double   |-> Row(Plain("DOUBLE"), 15, Plain("DOUBLE"), 0),
      string   |-> Row(Plain("VARCHAR"), 32000, Plain("VARCHAR"), 0),
      date     |-> Row(DateTime("DATE"), 10, Plain("DATETIME"), 1),
      time     |-> Row(DateTime("TIME"), 8, Plain("DATETIME"), 2),
      datetime |-> Row(DateTime("TIMESTAMP"), 23, Plain("DATETIME"), 3) ]

\* SQLGetTypeInfo, whatever type it is asked for.  Dates and times have a
\* verbose type, and subcodes, that are written out.
TypeInfoRow ==
    LET row(type, size) == Row(type, size, VerboseOf(type), CodeOf(type))
    IN  [ boolean  |-> row(Plain("SMALLINT"), 5),
          int8     |-> row(Plain("TINYINT"), 3),
          int16    |-> row(Plain("SMALLINT"), 5),
          int32    |-> row(Plain("INTEGER"), 10),
          int64    |-> row(Plain("BIGINT"), 19),
          float    |-> row(Plain("FLOAT"), 15),
          double   |-> row(Plain("DOUBLE"), 15),
          string   |-> row(Plain("VARCHAR"), 2147483647),
          date     |-> Row(DateTime("DATE"), 10, Plain("DATETIME"), 1),
          time     |-> Row(DateTime("TIME"), 8, Plain("DATETIME"), 2),
          datetime |-> Row(DateTime("TIMESTAMP"), 23, Plain("DATETIME"), 3) ]
=============================================================================
