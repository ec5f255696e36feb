--------------------------- MODULE EscapeSequences ---------------------------
(* replaceEscapeSequences: the ODBC escapes of a query, {fn F(...)}, {d     *)
(* '...'} and {ts '...'}, become expressions of the Analytics service.  A   *)
(* query is a sequence of tokens, the single space among them; a token is   *)
(* the text it has in upper case, an identifier or the type CONVERT asks    *)
(* for as it is written.  Literals hold no braces, and what a               *)
(* literal or an identifier is made of is left out.                         *)
EXTENDS Integers, SequencesExt

CONSTANTS
    Identifier, Number, Literal,  \* the tokens IDENT, NUMBER and STRING
    WithoutFraction               \* a literal without its milliseconds

Space == " "
EOS   == ""

FunctionMap ==
    [ ABS |-> "abs", ACOS |-> "acos", ASIN |-> "asin", ATAN |-> "atan", CEILING |-> "ceil",
      COS |-> "cos", EXP |-> "exp", FLOOR |-> "floor", LOG |-> "ln", LOG10 |-> "log", MOD |-> "MOD",
      PI |-> "pi", POWER |-> "power", RAND |-> "random", ROUND |-> "round", SIN |-> "sin",
      SQRT |-> "sqrt", TAN |-> "tan", TRUNCATE |-> "trunc", CHAR_LENGTH |-> "length",
      CHARACTER_LENGTH |-> "length", CONCAT |-> "concat", LCASE |-> "lower", LOWER |-> "lower",
      LENGTH |-> "length", LOCATE |-> "", CONVERT |-> "", LTRIM |-> "", OCTET_LENGTH |-> "length",
      REPLACE |-> "replace", SUBSTRING |-> "substr", UCASE |-> "upper", UPPER |-> "upper",
      CURRENT_TIMESTAMP |-> "", CURDATE |-> "today", CURRENT_DATE |-> "today",
      DAYOFMONTH |-> "GET_DAY", DAYOFWEEK |-> "DAY_OF_WEEK", DAYOFYEAR |-> "DAY_OF_YEAR",
      EXTRACT |-> "EXTRACT", HOUR |-> "GET_HOUR", MINUTE |-> "GET_MINUTE", MONTH |-> "GET_MONTH",
      NOW |-> "now", SECOND |-> "GET_SECOND", TIMESTAMPADD |-> "", TIMESTAMPDIFF |-> "",
      WEEK |-> "WEEK_OF_YEAR", SQL_TSI_QUARTER |-> "QUARTER_OF_YEAR", YEAR |-> "GET_YEAR",
      IFNULL |-> "ifNull" ]

LiteralMap ==
    [ SQL_TSI_FRAC_SECOND |-> "'millisecond'", SQL_TSI_SECOND |-> "'second'",
      SQL_TSI_MINUTE |-> "'minute'", SQL_TSI_HOUR |-> "'hour'", SQL_TSI_DAY |-> "'day'",
      SQL_TSI_WEEK |-> "'week'", SQL_TSI_MONTH |-> "'month'", SQL_TSI_QUARTER |-> "'quarter'",
      SQL_TSI_YEAR |-> "'year'" ]

ConvertMap ==
    [ SQL_TINYINT |-> "to_bigint", SQL_SMALLINT |-> "to_bigint", SQL_INTEGER |-> "to_bigint",
      SQL_BIGINT |-> "to_bigint", SQL_REAL |-> "to_number", SQL_DOUBLE |-> "to_double",
      SQL_VARCHAR |-> "to_string", SQL_DATE |-> "date", SQL_TYPE_DATE |-> "date",
      SQL_TIMESTAMP |-> "datetime", SQL_TYPE_TIMESTAMP |-> "datetime" ]

\* LookupIdent: the word of an interval may stand for it, unless it is the name
\* of a function too; the type of a token is its own word else.
KEYWORDS == [DAY |-> "SQL_TSI_DAY", QUARTER |-> "SQL_TSI_QUARTER"]
TypeOf(tok) == IF tok \in DOMAIN KEYWORDS THEN KEYWORDS[tok] ELSE tok

-----------------------------------------------------------------------------
(* The lexer: the text not read yet, the tokens read ahead, and whether     *)
(* spaces are tokens.  A token that is read ahead stays when spaces stop    *)
(* being tokens.                                                            *)

Lexer(seq) == [todo |-> seq, readed |-> << >>, spaces |-> FALSE]

SetEmitSpaces(lex, b) == [lex EXCEPT !.spaces = b]

RECURSIVE FromText(_)
FromText(seq) == IF seq # << >> /\ seq[1] = Space THEN FromText(Tail(seq)) ELSE seq

\* NextToken, from the text it starts at.
NextToken(lex, text) ==
    IF text = << >> THEN [lex EXCEPT !.todo = text, !.readed = Append(@, EOS)]
    ELSE [lex EXCEPT !.todo = Tail(text), !.readed = Append(@, Head(text))]

\* LookAhead(n - 1): at least n tokens are read.
RECURSIVE ReadAhead(_, _)
ReadAhead(lex, n) ==
    IF Len(lex.readed) >= n THEN lex
    ELSE ReadAhead(NextToken(lex, IF lex.spaces THEN lex.todo ELSE FromText(lex.todo)), n)

Peek(lex)    == ReadAhead(lex, 1).readed[1]
Consume(lex) == [ReadAhead(lex, 1) EXCEPT !.readed = Tail(@)]

RECURSIVE SkipSpaces(_)
SkipSpaces(lex) == IF Peek(lex) = Space THEN SkipSpaces(Consume(lex)) ELSE ReadAhead(lex, 1)

-----------------------------------------------------------------------------
(* The translation.  What has no translation becomes the text of the        *)
(* outermost escape, seq, and the lexer goes on from where it stopped.      *)

Result(out, lex) == [out |-> out, lex |-> lex]
Before(out, r)   == Result(out \o r.out, r.lex)
Emitting(b, r)   == Result(r.out, SetEmitSpaces(r.lex, b))

RECURSIVE Escape(_, _)

\* The spaces after the escape are lost.
Nested_Fault(seq, lex) == Escape(seq, SetEmitSpaces(lex, FALSE))

\* An escape inside an expression: spaces are tokens again after it.
Nested(seq, lex) == Emitting(TRUE, Escape(seq, SetEmitSpaces(lex, FALSE)))

\* processParentheses, from the opening parenthesis and from inside.
RECURSIVE Parentheses(_, _), InParentheses(_, _)
Inside(seq, r) == Before(r.out, InParentheses(seq, r.lex))

InParentheses(seq, lex) ==
    LET tok == Peek(lex)
    IN  CASE tok = ")" -> Result(<< tok >>, Consume(lex))
          [] tok = "(" -> Inside(seq, Parentheses(seq, lex))
          [] tok = "{" -> Inside(seq, Nested(seq, lex))
          [] tok = EOS -> Result(<< >>, ReadAhead(lex, 1))
          [] OTHER     -> Inside(seq, Result(<< tok >>, Consume(lex)))

Opened(seq, lex)      == Inside(seq, Result(<< Peek(lex) >>, Consume(lex)))
Parentheses(seq, lex) == Opened(seq, SetEmitSpaces(ReadAhead(lex, 1), TRUE))

\* processIdentOrFunction: the operand of a function, nothing when there is
\* none, with the spaces around it read.
Calls         == (DOMAIN FunctionMap \ {"CURRENT_TIMESTAMP"}) \cup Identifier
MayCall(lex)  == TypeOf(Peek(lex)) \in Calls
Called(lex)   == MayCall(lex) /\ ReadAhead(lex, 2).readed[2] = "("
LookedAt(lex) == IF MayCall(lex) THEN ReadAhead(lex, 2) ELSE lex

OperandAt(seq, lex) ==
    LET tok == Peek(lex)
    IN  CASE tok = "{"                 -> Nested(seq, lex)
          [] tok = "("                 -> Parentheses(seq, lex)
          [] tok = "CURRENT_TIMESTAMP" -> Result(<< "now()" >>, lex)
          [] Called(lex)               -> Before(<< tok >>, Parentheses(seq, Consume(LookedAt(lex))))
          [] ~Called(lex) /\ tok \in Identifier \cup Number \cup Literal \cup {"?"}
                                       -> Result(<< tok >>, Consume(LookedAt(lex)))
          [] OTHER                     -> Result(<< >>, LookedAt(lex))

Spaced(r)         == Result(r.out, SkipSpaces(r.lex))
Operand(seq, lex) == Spaced(OperandAt(seq, SkipSpaces(lex)))

\* The end of a call.
Closed(seq, out, lex) ==
    IF Peek(lex) = ")" THEN Result(out \o << ")" >>, Consume(lex)) ELSE Result(seq, lex)

\* CONVERT(operand, type): a type without a function leaves the operand alone.
ConvertTo(seq, operand, lex) ==
    LET type == Peek(lex)
    IN  CASE type \notin Identifier                  -> Result(seq, Consume(lex))
          [] type \in Identifier \ DOMAIN ConvertMap -> Result(operand, Consume(lex))
          [] OTHER -> Closed(seq, << ConvertMap[type], "(" >> \o operand, SkipSpaces(Consume(lex)))

Convert(seq, operand) ==
    IF operand.out = << >> \/ Peek(operand.lex) # "," THEN Result(seq, operand.lex)
    ELSE ConvertTo(seq, operand.out, SkipSpaces(Consume(operand.lex)))

\* TIMESTAMPADD and TIMESTAMPDIFF(unit, operand, operand), from the unit on.
LastOperand(seq, out, operand) ==
    IF operand.out = << >> THEN Result(seq, operand.lex) ELSE Closed(seq, out \o operand.out, operand.lex)

SecondOperand(seq, out, operand) ==
    IF operand.out = << >> \/ Peek(operand.lex) # "," THEN Result(seq, operand.lex)
    ELSE LastOperand(seq, out \o operand.out \o << ",", Space >>, Operand(seq, Consume(operand.lex)))

IntervalCall(fname, seq, lex) ==
    LET unit == TypeOf(Peek(lex))
        l    == Consume(lex)
    IN  IF unit \notin DOMAIN LiteralMap \/ Peek(l) # "," THEN Result(seq, l)
        ELSE SecondOperand(seq, << fname, "(", LiteralMap[unit], ",", Space >>, Operand(seq, Consume(l)))

\* LOCATE(needle, haystack, offset): whatever follows an operand is consumed,
\* the end of the escape with it when there is no offset.
WithOffset(out, offset) ==
    Result(out \o (IF offset.out = << >> THEN << "))" >> ELSE << ")," >> \o offset.out \o << ")" >>),
           Consume(offset.lex))

LocateIn(seq, out, haystack) ==
    IF haystack.out = << >> THEN Result(seq, haystack.lex)
    ELSE WithOffset(out \o haystack.out, Operand(seq, Consume(haystack.lex)))

Locate(seq, needle) ==
    IF needle.out = << >> THEN Result(seq, needle.lex)
    ELSE LocateIn(seq, << "locate(lower(" >> \o needle.out \o << "),lower(" >>, Operand(seq, Consume(needle.lex)))

\* LTRIM and DAYOFWEEK of one operand.
Wrapped(fn, seq, p) ==
    CASE p.out = << >> -> Result(seq, p.lex)
      [] p.out # << >> /\ fn = "LTRIM" ->
            Result(<< "replaceRegexpOne(" >> \o p.out \o << ", '^\\s+', '')" >>, Consume(p.lex))
      [] OTHER ->
            Result(<< "if(toDayOfWeek(" >> \o p.out \o << ") = 7, 1, toDayOfWeek(" >> \o p.out \o << ") + 1)" >>,
                   Consume(p.lex))

\* A call that takes its arguments apart, from the opening parenthesis.
TakesApart == {"CONVERT", "TIMESTAMPADD", "TIMESTAMPDIFF", "LOCATE", "LTRIM", "DAYOFWEEK"}

Arguments(fn, seq, lex) ==
    CASE fn = "TIMESTAMPADD"  -> IntervalCall("timestampadd", seq, lex)
      [] fn = "TIMESTAMPDIFF" -> IntervalCall("timestampdiff", seq, lex)
      [] fn = "CONVERT"       -> Convert(seq, Operand(seq, lex))
      [] fn = "LOCATE"        -> Locate(seq, Operand(seq, lex))
      [] OTHER                -> Wrapped(fn, seq, Operand(seq, lex))

\* The text of any other function, up to the end of its escape.
Spelled(tok) == IF TypeOf(tok) \in DOMAIN LiteralMap THEN LiteralMap[TypeOf(tok)] ELSE tok

RECURSIVE Function(_, _), Copied(_, _, _)
CopiedAfter(fn, seq, r) == Before(r.out, Copied(fn, seq, r.lex))

Copied(fn, seq, lex) ==
    LET tok == Peek(lex)
    IN  CASE tok \in {"}", EOS} -> Result(<< >>, ReadAhead(lex, 1))
          [] tok = "{"          -> CopiedAfter(fn, seq, Nested(seq, lex))
          [] tok = "EXTRACT"    -> CopiedAfter(fn, seq, Function(seq, lex))
          [] OTHER              ->
                CopiedAfter(fn, seq, Result(<< IF fn = "EXTRACT" THEN tok ELSE Spelled(tok) >>, Consume(lex)))

\* processFunction
FunctionOf(fn, seq, lex) ==
    CASE fn \in TakesApart         ->
            IF Peek(lex) = "(" THEN Arguments(fn, seq, Consume(lex)) ELSE Result(seq, ReadAhead(lex, 1))
      [] fn = "CURRENT_TIMESTAMP"  ->
            Result(<< "now()" >>, IF Peek(lex) = "(" THEN Parentheses(seq, lex).lex ELSE ReadAhead(lex, 1))
      [] fn \notin DOMAIN FunctionMap -> Result(seq, lex)
      [] OTHER -> Before(<< FunctionMap[fn] >>, Emitting(FALSE, Copied(fn, seq, SetEmitSpaces(lex, TRUE))))

Function(seq, lex) == FunctionOf(TypeOf(Peek(lex)), seq, Consume(lex))

\* processDate and processDateTime
DateOrTime(kind, seq, lex) ==
    LET data == Peek(lex)
    IN  IF data \notin Literal THEN Result(seq, ReadAhead(lex, 1))
        ELSE IF kind = "D" THEN Result(<< "toDate(", data, ")" >>, Consume(lex))
        ELSE Result(<< "toDateTime(", WithoutFraction[data], ")" >>, Consume(lex))

\* processEscapeSequencesImpl, from the opening brace and from inside, where
\* out is what has been translated.
RECURSIVE InEscape(_, _, _)
AfterPart(seq, out, r) == InEscape(seq, out \o r.out, r.lex)

PartOfEscape(seq, out, tok, lex) ==
    CASE tok = "}"          -> Result(out, lex)
      [] tok = "FN"         -> AfterPart(seq, out, Function(seq, lex))
      [] tok \in {"D", "TS"} -> AfterPart(seq, out, DateOrTime(tok, seq, lex))
      [] OTHER              -> Result(seq, lex)

FromPart(seq, out, lex) == PartOfEscape(seq, out, Peek(lex), Consume(lex))
InEscape(seq, out, lex) == FromPart(seq, out, SkipSpaces(lex))

Escape(seq, lex) ==
    IF Peek(lex) = "{" THEN InEscape(seq, << >>, Consume(lex)) ELSE Result(seq, ReadAhead(lex, 1))

-----------------------------------------------------------------------------
(* replaceEscapeSequences: the outermost pairs of braces.                   *)

Level(query, i) == Cardinality({ j \in 1 .. i : query[j] = "{" }) - Cardinality({ j \in 1 .. i : query[j] = "}" })

RECURSIVE Replaced(_)
Replaced(query) ==
    LET open  == SelectInSeq(query, LAMBDA c : c = "{")
        ends  == { i \in open .. Len(query) : Level(query, i) = 0 }
        close == CHOOSE i \in ends : \A j \in ends : i <= j
        seq   == SubSeq(query, open, close)
    IN  IF open = 0 \/ ends = {} THEN query
        ELSE SubSeq(query, 1, open - 1) \o Escape(seq, Lexer(seq)).out
             \o Replaced(SubSeq(query, close + 1, Len(query)))

\* A closing brace with no opening one leaves the query as it is.
ReplaceEscapeSequences(query) ==
    IF \E i \in 1 .. Len(query) : Level(query, i) < 0 THEN query ELSE Replaced(query)
=============================================================================
