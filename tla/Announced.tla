------------------------------ MODULE Announced ------------------------------
(* The scalar functions and intervals SQLGetInfo announces, and what becomes *)
(* of an escape that uses one of them.                                       *)
EXTENDS Call, EscapeSequences

NumericFunctions ==
    { "ABS", "ACOS", "ASIN", "ATAN", "ATAN2", "CEILING", "COS", "COT", "DEGREES", "EXP", "FLOOR", "LOG", "LOG10",
      "MOD", "PI", "POWER", "RADIANS", "RAND", "ROUND", "SIGN", "SIN", "SQRT", "TAN", "TRUNCATE" }

StringFunctions ==
    { "ASCII", "BIT_LENGTH", "CHAR", "CHAR_LENGTH", "CHARACTER_LENGTH", "CONCAT", "DIFFERENCE", "INSERT", "LCASE",
      "LEFT", "LENGTH", "LOCATE", "LTRIM", "OCTET_LENGTH", "POSITION", "REPEAT", "REPLACE", "RIGHT", "RTRIM",
      "SOUNDEX", "SPACE", "SUBSTRING", "UCASE" }

TimedateFunctions ==
    { "CURRENT_DATE", "CURRENT_TIME", "CURRENT_TIMESTAMP", "CURDATE", "CURTIME", "DAYNAME", "DAYOFMONTH",
      "DAYOFWEEK", "DAYOFYEAR", "EXTRACT", "HOUR", "MINUTE", "MONTH", "MONTHNAME", "NOW", "QUARTER", "SECOND",
      "TIMESTAMPADD", "TIMESTAMPDIFF", "WEEK", "YEAR" }

TimedateAddIntervals ==
    { "SQL_TSI_FRAC_SECOND", "SQL_TSI_SECOND", "SQL_TSI_MINUTE", "SQL_TSI_HOUR", "SQL_TSI_DAY", "SQL_TSI_WEEK",
      "SQL_TSI_MONTH", "SQL_TSI_QUARTER", "SQL_TSI_YEAR" }
TimedateDiffIntervals == TimedateAddIntervals

ConvertFunctions == {"CONVERT"}

\* An escape that calls the function, and one with the interval.
CallOf(fn, args) == << "{", "FN", Space, fn, "(" >> \o args \o << ")", "}" >>
Operand1 == CHOOSE a \in Identifier : TRUE

EscapesOf(fn) ==
    CASE fn = "CONVERT"   -> { CallOf(fn, << Operand1, ",", t >>) : t \in Identifier \cap DOMAIN ConvertMap }
      [] fn = "LOCATE"    -> { CallOf(fn, << Operand1, ",", Operand1 >> \o rest) :
                                 rest \in { << >>, << ",", Operand1 >> } }
      [] fn \in {"TIMESTAMPADD", "TIMESTAMPDIFF"} ->
              { CallOf(fn, << i, ",", Operand1, ",", Operand1 >>) :
                  i \in IF fn = "TIMESTAMPADD" THEN TimedateAddIntervals ELSE TimedateDiffIntervals }
      [] OTHER            -> { CallOf(fn, << Operand1 >>) }

Functions == NumericFunctions \cup StringFunctions \cup TimedateFunctions \cup ConvertFunctions

AnnouncedCall ==
    \E fn \in Functions : \E escape \in EscapesOf(fn) :
        call' = [op |-> "announced", fn |-> fn, escape |-> escape, out |-> ReplaceEscapeSequences(escape)]

-----------------------------------------------------------------------------
(* Properties                                                               *)

\* What is announced although nothing translates it.
Untranslated ==
    { "ATAN2", "COT", "DEGREES", "RADIANS", "SIGN", "ASCII", "BIT_LENGTH", "CHAR", "DIFFERENCE", "INSERT", "LEFT",
      "POSITION", "REPEAT", "RIGHT", "RTRIM", "SOUNDEX", "SPACE", "CURRENT_TIME", "CURTIME", "DAYNAME", "MONTHNAME" }

Arity(escape) == 1 + Len(SelectSeq(escape, LAMBDA t : t = ","))

\* SQLGetInfo announces more than the driver translates: these functions, and
\* LOCATE of two arguments, reach the service as the application wrote them,
\* braces and all.  Every other function that is announced, with each interval
\* and type, loses its braces.
AnnouncedTranslated ==
    call.op = "announced" =>
        IF call.fn \in Untranslated \/ (call.fn = "LOCATE" /\ Arity(call.escape) = 2)
        THEN call.out = call.escape
        ELSE ~Contains(call.out, "{") /\ ~Contains(call.out, "}")
=============================================================================
