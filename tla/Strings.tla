------------------------------ MODULE Strings ------------------------------
(* Connection strings and lists of table types, as they are written and     *)
(* read (ConnectionString).                                                 *)
EXTENDS Call, Integers, FiniteSets, SequencesExt

CONSTANTS
    FieldValue,    \* values given to SQLConnect or written in a string
    FieldKey,      \* keys written in a string
    MostFields,    \* how many fields are written at most
    AnyText,       \* any text taken for a connection string or a list
    Upper          \* as in ConnectionString

CS == INSTANCE ConnectionString

Character == DOMAIN Upper

\* What connection strings and lists tell apart, as the keywords of the driver
\* do, has no other upper case than itself and is that of nothing else.
Mark    == {"=", ";", "{", "}", CS!Space, ",", "'"}
Keyword == {"DSN", "FILEDSN", "DRIVER", "UID", "PWD"}

\* A key is not empty, has no spaces around it and no semicolon.
CanBeKey(key) ==
    key # << >> /\ key[1] # CS!Space /\ key[Len(key)] # CS!Space /\ ~Contains(key, ";")

ASSUME StringsAssumption ==
    /\ Upper \in [Character -> Character] /\ \A c \in Character : Upper[Upper[c]] = Upper[c]
    /\ Mark \cup Keyword \subseteq Character /\ \A k \in Keyword : Upper[k] = k
    /\ \A c \in Character, m \in Mark : Upper[c] = m <=> c = m
    /\ FieldValue \cup AnyText \subseteq Seq(Character)
    /\ FieldKey \subseteq { key \in Seq(Character) : CanBeKey(key) }
    /\ MostFields \in Nat

-----------------------------------------------------------------------------
(* Connection strings and lists                                             *)

\* SQLConnect, any of its arguments a null pointer.
ReadArguments ==
    \E ks \in SUBSET {"DSN", "UID", "PWD"} : \E given \in [ks -> FieldValue] :
        call' = [op |-> "connect", given |-> given, out |-> CS!ReadConnectionString(CS!ConnectString(given))]

\* An application that writes a string by the rules: '=' doubled in keys, a
\* space before a '=' that begins a value, and braces around a value that
\* needs them.
Doubled(key) == FlattenSeq([i \in DOMAIN key |-> IF key[i] = "=" THEN << "=", "=" >> ELSE << key[i] >>])

NeedsBraces(v) == v # << >> /\ (v[1] \in {"{", CS!Space} \/ v[Len(v)] = CS!Space \/ Contains(v, ";"))

\* b is the spacing used.
FieldText(key, v, b) ==
    b \o Doubled(key) \o b \o << "=" >>
    \o (IF v # << >> /\ v[1] = "=" THEN << CS!Space >> ELSE b)
    \o (IF NeedsBraces(v) THEN << "{" >> \o v \o << "}" >> ELSE v)
    \o b \o << ";" >>

StringOf(pairs, b) == FlattenSeq([i \in DOMAIN pairs |-> FieldText(pairs[i][1], pairs[i][2], b)])

Read ==
    \E pairs \in SeqOf(FieldKey \X { v \in FieldValue : ~Contains(v, "}") }, MostFields),
       b \in { << >>, << CS!Space >> } :
        call' = [op |-> "read", pairs |-> pairs, out |-> CS!ReadConnectionString(StringOf(pairs, b))]

\* A string written by no rule.
ReadText ==
    \E text \in AnyText :
        call' = [op |-> "text", text |-> text, out |-> CS!ReadConnectionString(text)]

\* The table types of SQLTables.
ReadList ==
    \E list \in AnyText :
        call' = [op |-> "list", list |-> list, out |-> CS!ParseCatalogFnVLArgs(list)]

StringCall == ReadArguments \/ Read \/ ReadText \/ ReadList

StringsSpec == NotCalled /\ [][StringCall]_call

-----------------------------------------------------------------------------
(* Properties                                                               *)

\* The fields that stay: of the pairs with one key the first, and of DSN and
\* what it shuts out those on the side of the one met first.
Sided == {CS!DSN, CS!FILEDSN, CS!DRIVER}

Kept(pairs) ==
    LET key(i)    == CS!Fold(pairs[i][1])
        First(ks) == CHOOSE i \in DOMAIN pairs :
                        key(i) \in ks /\ \A j \in DOMAIN pairs : key(j) \in ks => i <= j
        keys      == { key(i) : i \in DOMAIN pairs }
        shut      == IF Sided \cap keys = {} THEN {}
                     ELSE IF key(First(Sided)) = CS!DSN THEN {CS!FILEDSN, CS!DRIVER} ELSE {CS!DSN}
    IN  [k \in keys \ shut |-> pairs[First({k})][2]]

\* The pairs of fields in some order.
Pairs(fields) == LET ks == SetToSeq(DOMAIN fields) IN [i \in DOMAIN ks |-> << ks[i], fields[ks[i]] >>]

\* The values of a list, quoted again unless they hold quotes.
Requoted(values) ==
    LET vs == SetToSeq(values)
    IN  FlattenSeq([i \in DOMAIN vs |->
            (IF Contains(vs[i], "'") THEN vs[i] ELSE << "'" >> \o vs[i] \o << "'" >>)
            \o (IF i = Len(vs) THEN << >> ELSE << "," >>)])

\* What SQLConnect is given arrives, unless a value holds a closing brace.
ArgumentsArrive ==
    (call.op = "connect" /\ \A k \in DOMAIN call.given : ~Contains(call.given[k], "}")) =>
        call.out = [fields |-> [k \in { << d >> : d \in DOMAIN call.given } |-> call.given[k[1]]]]

WrittenArrives == call.op = "read" => call.out = [fields |-> Kept(call.pairs)]

\* A text that is accepted holds nothing that cannot be written and read again.
AcceptedAgain ==
    (call.op = "text" /\ ~CS!Failed(call.out)) =>
        CS!ReadConnectionString(StringOf(Pairs(call.out.fields), << CS!Space >>)) = call.out

ListedAgain ==
    (call.op = "list" /\ ~CS!Failed(call.out)) =>
        CS!ParseCatalogFnVLArgs(Requoted(call.out.values)) = call.out

\* readConnectionString: what SQLConnect is given arrives unless a value holds
\* a closing brace; what is written by the rules is read as it was written,
\* the first of two values that exclude each other; whatever text is accepted
\* holds nothing that cannot be written and read again.
\* parseCatalogFnVLArgs: the same for the values of a list.
StringsReadBack == ArgumentsArrive /\ WrittenArrives /\ AcceptedAgain /\ ListedAgain
=============================================================================
