-------------------------- MODULE ConnectionString --------------------------
(* readConnectionString, the connection string SQLConnect writes, and       *)
(* parseCatalogFnVLArgs, the list of table types of SQLTables.  A text is a *)
(* sequence of characters; a keyword of the driver counts as one character. *)
EXTENDS Integers, SequencesExt

CONSTANTS Upper  \* for each character, its upper case

Space == " "
DSN == << "DSN" >>
FILEDSN == << "FILEDSN" >>
DRIVER  == << "DRIVER" >>

\* The text from the first character that is not in cs.
From(str, cs) ==
    LET i == SelectInSeq(str, LAMBDA c : c \notin cs)
    IN  IF i = 0 THEN << >> ELSE SubSeq(str, i, Len(str))

TrimRight(str) == SubSeq(str, 1, SelectLastInSeq(str, LAMBDA c : c # Space))

Fold(str) == [i \in DOMAIN str |-> Upper[str[i]]]

Failure(what) == [error |-> what]
Failed(r)     == "error" \in DOMAIN r

\* extract_key_name: the characters before a single '=', the rest after it.
\* A turn of its loop, and as many as there are characters.
KeyTurn(s) ==
    LET str == s.rest
        key == s.key
    IN  IF s.met \/ str = << >> \/ str[1] = ";" THEN s
        ELSE IF str[1] # "=" THEN [rest |-> Tail(str), key |-> Append(key, str[1]), met |-> FALSE]
        ELSE IF Len(str) > 1 /\ str[2] = "=" THEN [rest |-> Tail(Tail(str)), key |-> Append(key, "="), met |-> FALSE]
        ELSE [rest |-> Tail(str), key |-> key, met |-> TRUE]

KeyRead(str) ==
    LET after[i \in 0 .. Len(str)] ==
            IF i = 0 THEN [rest |-> str, key |-> << >>, met |-> FALSE] ELSE KeyTurn(after[i - 1])
    IN  after[Len(str)]

KeyName(str) ==
    LET s   == KeyRead(str)
        key == TrimRight(s.key)
    IN  IF key = << >> THEN Failure("key name is missing")
        ELSE IF ~s.met THEN Failure("'=' is missing")
        ELSE [key |-> key, rest |-> s.rest]

\* extract_key_value: braces hold everything up to the first closing one.
ValueBefore(value, after) ==
    LET rest == From(after, {";", Space})
    IN  IF rest # << >> /\ ~Contains(SubSeq(after, 1, Len(after) - Len(rest)), ";") THEN Failure("';' expected")
        ELSE [value |-> value, rest |-> rest]

BracedValue(str) ==
    LET stop == SelectInSeq(str, LAMBDA c : c = "}")
    IN  IF stop = 0 THEN Failure("'}' expected")
        ELSE ValueBefore(SubSeq(str, 2, stop - 1), SubSeq(str, stop + 1, Len(str)))

PlainValue(str) ==
    LET stop == SelectInSeq(Append(str, ";"), LAMBDA c : c = ";")
    IN  ValueBefore(TrimRight(SubSeq(str, 1, stop - 1)), SubSeq(str, stop, Len(str)))

ValueAt(str)   == IF str # << >> /\ str[1] = "{" THEN BracedValue(str) ELSE PlainValue(str)
KeyValue(text) == ValueAt(From(text, {Space}))

\* The first of DSN and what it excludes is not remembered.
Stays_Fault(fields, key) == Fold(key) \in DOMAIN fields

\* The first value of a key is used; DSN on one side, FILEDSN and DRIVER on
\* the other, shut each other out.
Stays(fields, key) ==
    \/ Fold(key) \in DOMAIN fields
    \/ Fold(key) = DSN /\ {FILEDSN, DRIVER} \cap DOMAIN fields # {}
    \/ Fold(key) \in {FILEDSN, DRIVER} /\ DSN \in DOMAIN fields

With(fields, key, value) == [k \in DOMAIN fields \cup {key} |-> IF k = key THEN value ELSE fields[k]]

\* A turn of the loop over the fields, unless an earlier one has thrown.
Field(text, fields) ==
    LET k == KeyName(text)
        v == KeyValue(k.rest)
    IN  IF Failed(k) THEN k
        ELSE IF Failed(v) THEN v
        ELSE [ rest   |-> v.rest,
               fields |-> IF Stays(fields, k.key) THEN fields ELSE With(fields, Fold(k.key), v.value) ]

FieldTurn(s) ==
    IF Failed(s) THEN s
    ELSE LET text == From(s.rest, {Space, ";"}) IN IF text = << >> THEN s ELSE Field(text, s.fields)

ReadFields(str) ==
    LET after[i \in 0 .. Len(str)] ==
            IF i = 0 THEN [rest |-> str, fields |-> << >>] ELSE FieldTurn(after[i - 1])
    IN  after[Len(str)]

ReadConnectionString(str) ==
    LET s == ReadFields(str) IN IF Failed(s) THEN s ELSE [fields |-> s.fields]

\* SQLConnect: what it is given, in braces.
Attribute(key, value) == << key, "=", "{" >> \o value \o << "}", ";" >>

ConnectString(given) ==
    FlattenSeq([i \in 1 .. 3 |->
        LET k == << "DSN", "UID", "PWD" >>[i] IN IF k \in DOMAIN given THEN Attribute(k, given[k]) ELSE << >>])

-----------------------------------------------------------------------------
(* parseCatalogFnVLArgs: values between commas, each of them perhaps in     *)
(* quotes that hide commas; a value has no more than two quotes.            *)

Unquoted(str) ==
    LET v == TrimRight(From(str, {Space}))
    IN  IF Len(v) > 1 /\ v[1] = "'" /\ v[Len(v)] = "'" THEN SubSeq(v, 2, Len(v) - 1) ELSE v

\* One more character, unless an earlier one has thrown.
ListTurn(s, ch) ==
    IF Failed(s) THEN s
    ELSE IF ch = "," /\ s.quotes % 2 = 0
    THEN [curr |-> << >>, quotes |-> 0, values |-> s.values \cup {Unquoted(s.curr)}]
    ELSE IF ch # "'" THEN [curr |-> Append(s.curr, ch), quotes |-> s.quotes, values |-> s.values]
    ELSE IF s.quotes >= 2 THEN Failure("invalid list")
    ELSE [curr |-> Append(s.curr, ch), quotes |-> s.quotes + 1, values |-> s.values]

ListedValues(list) ==
    LET after[i \in 0 .. Len(list)] ==
            IF i = 0 THEN [curr |-> << >>, quotes |-> 0, values |-> {}] ELSE ListTurn(after[i - 1], list[i])
    IN  after[Len(list)]

ParseCatalogFnVLArgs(list) ==
    LET s == ListedValues(Append(list, ","))
    IN  IF Failed(s) THEN s
        ELSE IF s.curr # << >> THEN Failure("invalid list")
        ELSE [values |-> s.values]
=============================================================================
