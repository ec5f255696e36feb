----------------------------- MODULE Translation -----------------------------
(* Queries with escapes, as the driver translates them (EscapeSequences).   *)
EXTENDS Call, EscapeSequences

CONSTANTS
    OperandToken   \* identifiers, numbers, literals and parameters that are operands

-----------------------------------------------------------------------------
(* Queries: a text with what it means.  Blank is the spacing used.          *)

Blank == { << >>, << Space >> }

Verbatim(tok) == [text |-> << tok >>, means |-> << tok >>]

Operands0 == { Verbatim(tok) : tok \in OperandToken }

Braced(name, b, inside) ==
    << "{", "FN", Space >> \o name \o << "(" >> \o b \o inside \o b \o << ")" >> \o b \o << "}" >>

\* What the service calls a function of ODBC, a type it converts to, and a
\* unit of time, as ODBC names them, not as the driver's tables do.
CalledThere ==
    [ ABS |-> "abs", LOG |-> "ln", LOG10 |-> "log", UCASE |-> "upper", CURDATE |-> "today",
      HOUR |-> "GET_HOUR", QUARTER |-> "QUARTER_OF_YEAR" ]
ConvertedThere ==
    [ SQL_BIGINT |-> "to_bigint", SQL_VARCHAR |-> "to_string", SQL_TYPE_DATE |-> "date" ]
UnitThere ==
    [ SQL_TSI_HOUR |-> "'hour'", SQL_TSI_DAY |-> "'day'", SQL_TSI_QUARTER |-> "'quarter'",
      DAY |-> "'day'", QUARTER |-> "'quarter'" ]

\* The functions whose text is copied: their spaces remain.
Copies(functions, A) ==
    { [text  |-> Braced(<< fn >>, b, a.text),
       means |-> << CalledThere[fn], "(" >> \o b \o a.means \o b \o << ")" >> \o b] :
         fn \in functions, a \in A, b \in Blank }

\* Operands are stripped of their spaces.
Converts(types, A) ==
    { [text  |-> Braced(<< "CONVERT" >>, b, a.text \o b \o << "," >> \o b \o << t >>),
       means |-> << ConvertedThere[t], "(" >> \o a.means \o << ")" >>] : a \in A, b \in Blank, t \in types }

Intervals(units, A) ==
    { [text  |-> Braced(<< "TIMESTAMPADD" >>, b, << u, "," >> \o b \o p[1].text \o b \o << "," >> \o b \o p[2].text),
       means |-> << "timestampadd", "(", UnitThere[u], ",", Space >> \o p[1].means
                 \o << ",", Space >> \o p[2].means \o << ")" >>] : u \in units, p \in A \X A, b \in Blank }

Wrappings(A) ==
    { [text  |-> Braced(<< "LTRIM" >>, b, a.text),
       means |-> << "replaceRegexpOne(" >> \o a.means \o << ", '^\\s+', '')" >>] : a \in A, b \in Blank }

Locates(A) ==
    { [text  |-> Braced(<< "LOCATE" >>, b, p[1].text \o b \o << "," >> \o b \o p[2].text \o << "," >> \o b \o << "1" >>),
       means |-> << "locate(lower(" >> \o p[1].means \o << "),lower(" >> \o p[2].means
                 \o << ")," >> \o << "1", ")" >>] : p \in A \X A, b \in Blank }

Dates ==
    { [text |-> << "{" >> \o b \o << k, Space, d >> \o b \o << "}" >>,
       means |-> IF k = "D" THEN << "toDate(", d, ")" >> ELSE << "toDateTime(", WithoutFraction[d], ")" >>] :
         b \in Blank, k \in {"D", "TS"}, d \in Literal }

Nows == { [text |-> << "{", "FN", Space, "CURRENT_TIMESTAMP" >> \o b \o p \o b \o << "}" >>, means |-> << "now()" >>] :
            b \in Blank, p \in { << >>, << "(", ")" >>, << "(", "1", ")" >> } }

Escapes(A) ==
    Copies(DOMAIN CalledThere, A) \cup Converts(DOMAIN ConvertedThere, A) \cup Intervals(DOMAIN UnitThere, A)
    \cup Wrappings(A) \cup Locates(A)

\* A function of the service takes the escapes among its arguments.
Applied(A) == { [text |-> << "F", "(" >> \o a.text \o << ")" >>, means |-> << "F", "(" >> \o a.means \o << ")" >>] : a \in A }

Simple   == Escapes(Operands0) \cup Dates \cup Nows
Operands == Simple \cup Applied(Operands0 \cup Simple)
\* An escape inside an escape, in the place of each operand.
Deep == LET few == Operands0 \cup Dates
        IN  Copies({"ABS"}, Operands) \cup Converts({"SQL_BIGINT"}, Operands) \cup Wrappings(Operands)
            \cup Intervals({"DAY"}, Nows \cup few) \cup Locates(Applied(Dates) \cup few)

\* Escapes the driver does not know stay as they are, alone or around others.
Unknown == { [text |-> t, means |-> t] :
    t \in { << "{", "T", Space, d, "}" >> : d \in Literal }
       \cup { << "{", "FN", Space, "CONVERT", "(" >> \o a.text \o << ",", "F", ")", "}" >> : a \in Simple }
       \cup { << "{", "F", Space >> \o a.text \o << "}" >> : a \in Simple } }

\* Escapes in a query, among other text.  Bound: an escape before another one
\* is a date without spaces.
Translate ==
    \E e \in Simple \cup Deep \cup Unknown,
      before \in {d \in Dates : Len(d.text) = 5} \cup {Verbatim("?")} :
        call' = [op |-> "translate", before |-> before, escape |-> e,
                 out |-> ReplaceEscapeSequences(before.text \o << Space >> \o e.text \o << ")" >>)]

TranslationCall == Translate

-----------------------------------------------------------------------------
(* Properties                                                               *)

\* replaceEscapeSequences: every escape of the kinds above, whatever escape
\* stands in the place of its operands and however it is spaced, becomes what it
\* means; one the driver does not know stays as it is; the text around them is
\* kept.  An operand is no word the lexer knows: a column named day or quarter
\* would become the name of a unit.  LOCATE has three arguments here.
WrittenTranslated ==
    call.op = "translate" =>
        call.out = call.before.means \o << Space >> \o call.escape.means \o << ")" >>
=============================================================================
