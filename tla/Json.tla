-------------------------------- MODULE Json --------------------------------
(* cJSON as the driver uses it: cJSON_Parse reads a document of the         *)
(* service, cJSON_GetObjectItem finds a column in it.  A text is the        *)
(* sequence of its bytes; after its end there are zeros.                    *)
EXTENDS Integers, SequencesExt

Quote == 34
Comma == 44
Minus == 45
Dot   == 46
Zero  == 48
Colon == 58
Backslash == 92
Bracket == << 91, 93 >>
Brace   == << 123, 125 >>
NullText  == << 110, 117, 108, 108 >>
FalseText == << 102, 97, 108, 115, 101 >>
TrueText  == << 116, 114, 117, 101 >>

At(str) == IF str = << >> THEN 0 ELSE str[1]
Drop(str, n) == SubSeq(str, n + 1, Len(str))

\* The bytes at the start of str that are in cs.
Span(str, cs) ==
    LET i == SelectInSeq(str, LAMBDA c : c \notin cs) IN IF i = 0 THEN Len(str) ELSE i - 1

Skip(str) == Drop(str, Span(str, 1 .. 32))

Failure   == [malformed |-> TRUE]
Failed(r) == r = Failure

Parsed(value, rest) == [value |-> value, rest |-> rest]

\* parse_number: all its digits make one integer, which a power of ten moves
\* to its place; what valueint holds of it has no fraction.
Digit == Zero .. 57
ValueOf(digits) == FoldLeft(LAMBDA n, d : 10 * n + d - Zero, 0, digits)

\* From the end of the number back to its sign: what is read so far, and str.
NumberItem(sign, digits, power, str) ==
    Parsed([type |-> "Number",
            valueint |-> sign * (IF power < 0 THEN ValueOf(digits) \div (10 ^ (-power)) ELSE ValueOf(digits) * (10 ^ power))],
           str)

Subscale(sign, digits, scale, signsubscale, str) ==
    LET k == Span(str, Digit)
    IN  NumberItem(sign, digits, scale + signsubscale * ValueOf(SubSeq(str, 1, k)), Drop(str, k))

Exponent(sign, digits, scale, str) ==
    IF At(str) \notin {69, 101} THEN NumberItem(sign, digits, scale, str)
    ELSE Subscale(sign, digits, scale, IF At(Drop(str, 1)) = Minus THEN -1 ELSE 1,
                  Drop(str, IF At(Drop(str, 1)) \in {43, Minus} THEN 2 ELSE 1))

\* The byte after the point counts as a digit.
Fraction(sign, digits, str) ==
    LET f == 1 + Span(Drop(str, 2), Digit)
    IN  IF At(str) # Dot THEN Exponent(sign, digits, 0, str)
        ELSE Exponent(sign, digits \o SubSeq(str, 2, f + 1), -f, Drop(str, f + 1))

Whole(sign, str) ==
    LET n == IF At(str) \in Digit \ {Zero} THEN Span(str, Digit) ELSE 0
    IN  Fraction(sign, SubSeq(str, 1, n), Drop(str, n))

Unsigned(sign, str) == Whole(sign, Drop(str, IF At(str) = Zero THEN 1 ELSE 0))

ParseNumber(str) == IF At(str) = Minus THEN Unsigned(-1, Drop(str, 1)) ELSE Unsigned(1, str)

\* An escape of parse_string, after its backslash.
Control == (98 :> 8) @@ (102 :> 12) @@ (110 :> 10) @@ (114 :> 13) @@ (116 :> 9)

HexDigit(c) == IF c \in Digit THEN c - Zero ELSE (c % 32) + 9

Transcoded(uc) ==
    CASE uc < 128            -> << uc >>
      [] uc \in 128 .. 2047  -> << 192 + uc \div 64, 128 + (uc % 64) >>
      [] OTHER               -> << 224 + uc \div 4096, 128 + ((uc \div 64) % 64), 128 + (uc % 64) >>

Unescaped(str) ==
    CASE At(str) = 117              ->
            Parsed(Transcoded(FoldLeft(LAMBDA n, c : 16 * n + HexDigit(c), 0, SubSeq(str, 2, 5))), Drop(str, 5))
      [] At(str) \in DOMAIN Control -> Parsed(<< Control[At(str)] >>, Drop(str, 1))
      [] OTHER                      -> Parsed(<< At(str) >>, Drop(str, 1))

\* The bytes of a string up to a quote, a control character or the end.
RECURSIVE StringBytes(_, _)
AfterEscape(out, e) == StringBytes(e.rest, out \o e.value)

StringBytes(str, out) ==
    CASE At(str) = Quote      -> Parsed(out, Drop(str, 1))
      [] At(str) \in 0 .. 31  -> Parsed(out, str)
      [] At(str) = Backslash  -> AfterEscape(out, Unescaped(Drop(str, 1)))
      [] OTHER                -> StringBytes(Drop(str, 1), Append(out, At(str)))

\* parse_string; a zero inside ends the string for whoever reads it.
StringItem(r) == Parsed([type |-> "String", valuestring |-> SubSeq(r.value, 1, Span(r.value, 1 .. 255))], r.rest)

ParseString(str) == IF At(str) # Quote THEN Failure ELSE StringItem(StringBytes(Drop(str, 1), << >>))

\* parse_array and parse_object, from a value or a member.
RECURSIVE ParseValue(_), ParseArray(_, _), ParseObject(_, _)

ArrayItem(child)  == [type |-> "Array", child |-> child]
ObjectItem(child) == [type |-> "Object", child |-> child]

MoreValues(child, str) ==
    CASE At(str) = Comma      -> ParseArray(Drop(str, 1), child)
      [] At(str) = Bracket[2] -> Parsed(ArrayItem(child), Drop(str, 1))
      [] OTHER                -> Failure

AfterValue(child, v) == IF Failed(v) THEN Failure ELSE MoreValues(Append(child, v.value), Skip(v.rest))

ParseArray(str, child) == AfterValue(child, ParseValue(Skip(str)))

MoreMembers(child, str) ==
    CASE At(str) = Comma    -> ParseObject(Drop(str, 1), child)
      [] At(str) = Brace[2] -> Parsed(ObjectItem(child), Drop(str, 1))
      [] OTHER              -> Failure

AfterMember(child, string, v) ==
    IF Failed(v) THEN Failure ELSE MoreMembers(Append(child, [string |-> string, item |-> v.value]), Skip(v.rest))

AfterString(child, s) ==
    IF Failed(s) \/ At(Skip(s.rest)) # Colon THEN Failure
    ELSE AfterMember(child, s.value.valuestring, ParseValue(Skip(Drop(Skip(s.rest), 1))))

ParseObject(str, child) == AfterString(child, ParseString(Skip(str)))

\* From inside the brackets, which may hold nothing.
Brackets(str) == IF At(str) = Bracket[2] THEN Parsed(ArrayItem(<< >>), Drop(str, 1)) ELSE ParseArray(str, << >>)
Braces(str)   == IF At(str) = Brace[2] THEN Parsed(ObjectItem(<< >>), Drop(str, 1)) ELSE ParseObject(str, << >>)

ParseValue(str) ==
    CASE IsPrefix(NullText, str)           -> Parsed([type |-> "NULL"], Drop(str, 4))
      [] IsPrefix(FalseText, str)          -> Parsed([type |-> "False"], Drop(str, 5))
      [] IsPrefix(TrueText, str)           -> Parsed([type |-> "True"], Drop(str, 4))
      [] At(str) = Quote                   -> ParseString(str)
      [] At(str) \in Digit \cup {Minus}    -> ParseNumber(str)
      [] At(str) = Bracket[1]              -> Brackets(Skip(Drop(str, 1)))
      [] At(str) = Brace[1]                -> Braces(Skip(Drop(str, 1)))
      [] OTHER                             -> Failure

\* cJSON_Parse does not ask what follows the value.
Document(v) == IF Failed(v) THEN v ELSE v.value
Parse(str)  == Document(ParseValue(Skip(str)))

\* cJSON_strcasecmp
ToLower(str) == [i \in DOMAIN str |-> IF str[i] \in 65 .. 90 THEN str[i] + 32 ELSE str[i]]

\* cJSON_GetObjectItem: the place of the first member of that name, in any
\* case, 0 if there is none.
GetObjectItem(object, string) ==
    SelectInSeq(object.child, LAMBDA m : ToLower(m.string) = ToLower(string))
=============================================================================
