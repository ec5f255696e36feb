----------------------------- MODULE Documents -----------------------------
(* The documents exchanged with the Analytics service: what arrives is read *)
(* by cJSON (Json), what is sent is put together by the statement.          *)
EXTENDS Call, Integers, SequencesExt

CONSTANTS
    Digits,         \* the digits before and after the point of a number
    PowerOfTen,     \* its powers of ten
    Piece,          \* what strings are made of: a text with what it means
    ColumnKey,      \* names of columns
    PlainText,      \* queries and values of parameters
    TimeValue       \* those of timestamps, as digits

J == INSTANCE Json

Spacing == { << >>, << 32, 10 >> }

-----------------------------------------------------------------------------
(* Documents that are well formed: a text with what it means.               *)

Meant(text, means) == [text |-> text, means |-> means]

JsonConstants ==
    { Meant(J!NullText, [type |-> "NULL"]), Meant(J!FalseText, [type |-> "False"]), Meant(J!TrueText, [type |-> "True"]) }

\* Of a number the integer in it counts.
Moved(n, power) == IF power < 0 THEN n \div (10 ^ (-power)) ELSE n * (10 ^ power)

Decimal(sign, whole, f, x) ==
    sign \o whole \o (IF f = << >> THEN f ELSE << J!Dot >> \o f)
    \o (IF x = 0 THEN << >> ELSE << 101, IF x < 0 THEN J!Minus ELSE 43, J!Zero + (IF x < 0 THEN -x ELSE x) >>)

IntegerItem(n) == [type |-> "Number", valueint |-> n]

NumberTexts ==
    { Meant(Decimal(sign, whole, f, x),
            IntegerItem((IF sign = << >> THEN 1 ELSE -1) * Moved(J!ValueOf(whole \o f), x - Len(f)))) :
        sign \in { << >>, << J!Minus >> }, f \in Digits, x \in PowerOfTen,
        whole \in { d \in Digits : d # << >> /\ (d[1] = J!Zero => Len(d) = 1) } }

StringItem(s) == [type |-> "String", valuestring |-> s]

InQuotes(text) == << J!Quote >> \o text \o << J!Quote >>

StringTexts ==
    { Meant(InQuotes(FlattenSeq([i \in DOMAIN ps |-> ps[i].text])),
            StringItem(FlattenSeq([i \in DOMAIN ps |-> ps[i].means]))) : ps \in SeqOf(Piece, 2) }

\* Between commas, with spacing b.
Separated(texts, b) ==
    b \o FlattenSeq([i \in DOMAIN texts |-> (IF i = 1 THEN << >> ELSE << J!Comma >> \o b) \o texts[i] \o b])

Arrays(A) ==
    { Meant(<< J!Bracket[1] >> \o Separated([i \in DOMAIN vs |-> vs[i].text], b) \o << J!Bracket[2] >>,
            J!ArrayItem([i \in DOMAIN vs |-> vs[i].means])) : vs \in SeqOf(A, 2), b \in Spacing }

Objects(A) ==
    { Meant(<< J!Brace[1] >>
            \o Separated([i \in DOMAIN ms |-> InQuotes(ms[i][1]) \o b \o << J!Colon >> \o b \o ms[i][2].text], b)
            \o << J!Brace[2] >>,
            J!ObjectItem([i \in DOMAIN ms |-> [string |-> ms[i][1], item |-> ms[i][2].means]])) :
        ms \in SeqOf(ColumnKey \X A, 2), b \in Spacing }

Scalars == JsonConstants \cup NumberTexts \cup StringTexts
NestedTexts  == Objects(JsonConstants) \cup Objects(Arrays({ Meant(<< J!Zero >>, IntegerItem(0)) }))

\* The column is looked up in what was read.
DocumentRead(doc, column, out) ==
    call' = [ op |-> "document", doc |-> doc, column |-> column, out |-> out,
              found |-> IF doc \in NestedTexts /\ ~J!Failed(out) THEN J!GetObjectItem(out, column) ELSE 0 ]

ReadDocument ==
    \E doc \in Scalars \cup UNION { Arrays({scalar}) : scalar \in Scalars } \cup NestedTexts, column \in ColumnKey :
        DocumentRead(doc, column, J!Parse(doc.text))

-----------------------------------------------------------------------------
(* Requests                                                                 *)

\* The arguments made of one parameter, of its type and the text of its value:
\* SQL_BIT runs on into SQL_TYPE_TIMESTAMP, to which its value is no time, and
\* other types make none.
Tag == [Double |-> << 48, 67, J!Colon >>, Timestamp |-> << 49, 48, J!Colon >>]

ArgumentsOf(p) ==
    CASE p.type = "characters" -> << InQuotes(<< J!Colon >> \o p.value) >>
      [] p.type = "integer"    -> << p.value >>
      [] p.type = "double"     -> << InQuotes(Tag.Double \o p.value) >>
      [] p.type = "bit"        -> << p.value, InQuotes(Tag.Timestamp \o << J!Minus, J!Zero + 1 >>) >>
      [] p.type = "timestamp"  -> << InQuotes(Tag.Timestamp \o p.value) >>
      [] OTHER                 -> << >>

ParameterOf(type) ==
    [ type  : {type},
      value : CASE type = "characters" -> PlainText
                [] type = "bit"        -> {J!TrueText, J!FalseText}
                [] OTHER               -> TimeValue ]

Parameters == UNION { ParameterOf(t) : t \in {"characters", "integer", "double", "bit", "timestamp", "other"} }

\* The names of the two members that depend on the statement.
Named == [statement |-> << 115 >>, args |-> << 97 >>]

\* Queries and values are put in as they are.
Payload(query, args) ==
    << J!Brace[1] >> \o InQuotes(Named.statement) \o << J!Colon >> \o InQuotes(query)
    \o (IF args = << >> THEN << >>
        ELSE << J!Comma >> \o InQuotes(Named.args) \o << J!Colon, J!Bracket[1] >>
             \o Separated(args, << >>) \o << J!Bracket[2] >>)
    \o << J!Brace[2] >>

Request ==
    \E query \in PlainText, ps \in SeqOf(Parameters, 2) :
        call' = [ op |-> "request", query |-> query, parameters |-> ps,
                  out |-> J!Parse(Payload(query, FlattenSeq([i \in DOMAIN ps |-> ArgumentsOf(ps[i])]))) ]

DocumentCall == ReadDocument \/ Request

-----------------------------------------------------------------------------
(* Properties                                                               *)

\* A request says what it should: the statement, and one argument for each
\* parameter, in order, with the mark of its type.
Requested(query, ps) ==
    LET item(p) == CASE p.type = "characters" -> StringItem(<< J!Colon >> \o p.value)
                     [] p.type = "integer"    -> J!Parse(p.value)
                     [] p.type = "double"     -> StringItem(Tag.Double \o p.value)
                     [] p.type = "timestamp"  -> StringItem(Tag.Timestamp \o p.value)
        statement == [string |-> Named.statement, item |-> StringItem(query)]
        args      == [string |-> Named.args, item |-> J!ArrayItem([i \in DOMAIN ps |-> item(ps[i])])]
    IN  J!ObjectItem(IF ps = << >> THEN << statement >> ELSE << statement, args >>)

\* The text can stand in a string as it is.
CanBeQuoted(text) == \A i \in DOMAIN text : text[i] \notin {J!Quote, J!Backslash} /\ text[i] > 31

\* cJSON_Parse: a document that is well formed is read as it was meant,
\* however it is spaced and escaped, and the column found in an object is one
\* of its name, the only one of its name in any case, if there is one.
\* requestNextPackOfResultSets: a request whose query and values need no
\* escapes and whose parameters have none of the types left out or run on from
\* (SQL_BIT and the others) is such a document.
DocumentsReadBack ==
    /\ call.op = "document" => call.out = call.doc.means
    /\ call.op = "document" /\ call.doc \in NestedTexts =>
          LET child == call.out.child
              named == { i \in DOMAIN child : child[i].string = call.column }
              like  == { i \in DOMAIN child : J!ToLower(child[i].string) = J!ToLower(call.column) }
          IN  /\ named # {} /\ named = like => call.found \in named
              /\ call.found = 0 => named = {}
    /\ call.op = "request"
       /\ CanBeQuoted(call.query)
       /\ (\A i \in DOMAIN call.parameters :
              call.parameters[i].type \notin {"bit", "other"} /\ CanBeQuoted(call.parameters[i].value))
       => call.out = Requested(call.query, call.parameters)
=============================================================================
