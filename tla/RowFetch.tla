------------------------------ MODULE RowFetch ------------------------------
(* What a fetch delivers: the columns of a result set, put in the order a   *)
(* catalog function expects; the rows decoded from the documents of the     *)
(* service into rows recycled from a pool; and the row set with its status  *)
(* array.  The statement and its cursor are the module Statement, the       *)
(* bound buffers ColumnBinding: here are the values.                        *)
(*                                                                          *)
(* A document is a sequence of pairs of a key and an item; a line that is   *)
(* no JSON object is an empty one.  Strings keep what their prefix says.    *)
(* Items whose text std::stoi refuses are left to the module Statement.     *)
EXTENDS Integers, SequencesExt

CONSTANTS
    Name,            \* names of columns
    Fold,            \* each name with its letters in lower case
    TypeOf,          \* the type the signature gives each column
    CatalogOrder,    \* arrays the catalog functions expect columns in
    Signature,       \* sequences of columns the service may answer with
    Document,        \* documents the service may send
    PrefetchAtLeast, \* rows read ahead by one fetch (100 in the code)
    PoolSize,        \* rows kept for reuse (1000000 in the code)
    Columns,         \* numbers of columns SQLGetData asks for
    RowSetSizes,     \* values of SQL_DESC_ARRAY_SIZE
    MaxDocuments     \* bound on the documents of one result set

\* What a document has for a key: prefix is that of lossless ADM, "none" for a
\* string without one.
Item == [kind: {"null", "string", "number", "bool"}, prefix: STRING, text: STRING]

Folded(names) == [i \in DOMAIN names |-> Fold[names[i]]]

\* The arrays of the catalog functions name no column twice.
ASSUME RowFetchAssumption ==
    /\ Fold \in [Name -> Name] /\ TypeOf \in [Name -> STRING]
    /\ CatalogOrder \subseteq Seq(Name) /\ Signature \subseteq Seq(Name)
    /\ \A array \in CatalogOrder : IsInjective(Folded(array))
    /\ Document \subseteq Seq(Name \X Item)
    /\ PrefetchAtLeast \in Nat \ {0} /\ PoolSize \in Nat
    /\ RowSetSizes \subseteq Nat /\ MaxDocuments \in Nat

VARIABLES
    order,     \* what expected_column_order points to
    rs,        \* the result set, or NoResultSet
    stream,    \* documents of the service not yet read
    app        \* the application's status array, rows-fetched counter, and
               \* what its last call read with SQLGetData

vars == <<order, rs, stream, app>>

NoResultSet == [open |-> FALSE]
NoOrder     == [at |-> "null", names |-> << >>]
Nothing     == [kind |-> "nothing"]
NotRead     == [column |-> 0, cell |-> [kind |-> "none"]]
Text(t)     == [kind |-> "string", text |-> t]

Init ==
    /\ order = NoOrder
    /\ rs = NoResultSet
    /\ stream = << >>
    /\ app = [status |-> << >>, fetched |-> 0, got |-> NotRead]

-----------------------------------------------------------------------------
(* Columns                                                                  *)

SlotOf_Fault(sig, expected) ==
    [i \in DOMAIN sig |->
        LET at == {j \in DOMAIN expected : expected[j] = sig[i]}
        IN  IF at = {} THEN 1 ELSE Min(at)]

\* indexMapper: for each column of the signature its place in the expected
\* order, the first one when it has none.
SlotOf(sig, expected) ==
    [i \in DOMAIN sig |->
        LET at == {j \in DOMAIN expected : Folded(expected)[j] = Fold[sig[i]]}
        IN  IF at = {} THEN 1 ELSE Min(at)]

\* The mapper is made when an order of the same size is expected.
Mapped(sig, expected) == expected # << >> /\ Len(expected) = Len(sig)

Mapper(sig, expected) ==
    IF Mapped(sig, expected) THEN SlotOf(sig, expected) ELSE [i \in DOMAIN sig |-> i]

\* The name of each slot: that of the last column put there which has a place
\* in the order; "" for a slot no column has.
Names(sig, mapper, expected) ==
    LET placed(i) == Mapped(sig, expected) => Fold[sig[i]] \in ToSet(Folded(expected))
        of(j)     == {i \in DOMAIN sig : placed(i) /\ mapper[i] = j}
    IN  [j \in DOMAIN sig |->
            IF of(j) = {} THEN "" ELSE sig[Max(of(j))]]

\* The type of each slot: that of the last column put there.
Types(sig, mapper) ==
    [j \in DOMAIN sig |->
        LET of == {i \in DOMAIN sig : mapper[i] = j}
        IN  IF of = {} THEN "" ELSE TypeOf[sig[Max(of)]]]

\* The constructor of CBASResultSet.
NewResultSet(sig, expected) ==
    LET mapper == Mapper(sig, expected)
    IN  [ open |-> TRUE, signature |-> sig, mapper |-> mapper,
          names |-> Names(sig, mapper, expected), types |-> Types(sig, mapper),
          finished |-> sig = << >>, prefetched |-> << >>, rowSet |-> << >>, pool |-> << >> ]

-----------------------------------------------------------------------------
(* Rows                                                                     *)

\* cb_to_ch_types_g and the tag of the type: how a column is decoded.
Tag(type) ==
    CASE type \in {"boolean", "bigint", "int8", "int16", "int32", "int64"} -> "Integer"
      [] type = "double"   -> "Float64"
      [] type = "date"     -> "Date"
      [] type = "time"     -> "Time"
      [] type = "datetime" -> "DateTime"
      [] type = ""         -> "Other"
      [] OTHER             -> "String"

\* The prefix of lossless ADM each tag takes off, and what becomes of the rest.
Prefix == [ String |-> "", Integer |-> "", Float64 |-> "0C", Date |-> "11",
            Time |-> "12", DateTime |-> "10" ]

\* The cell made of an item: only items of the kinds the tag knows have text.
Decoded(tag, item) ==
    CASE item.kind = "null" -> Nothing
      [] item.kind = "string" /\ tag # "Other" ->
            Text(IF tag \in {"Date", "Time", "DateTime"} /\ item.prefix = Prefix[tag]
                 THEN <<"calendar", item.text>>
                 ELSE IF item.prefix \in {"none", Prefix[tag]} THEN <<"plain", item.text>>
                 ELSE <<"prefixed", item.text>>)
      [] item.kind = "number" /\ tag \in {"Integer", "Other"} -> Text(<<"truncated", item.text>>)
      [] item.kind = "bool" /\ tag = "Integer" -> Text(<<"digit", item.text>>)
      [] item.kind = "bool" /\ tag = "Other"   -> Text(<<"word", item.text>>)
      [] OTHER -> Text(<<"plain", "">>)

\* cJSON_GetObjectItem compares keys without case and takes the first.
KeysLike(doc, name) == {k \in DOMAIN doc : Fold[doc[k][1]] = Fold[name]}

NextRow_Fault(r, row, doc) ==
    [j \in DOMAIN r.names |->
        LET found == KeysLike(doc, r.signature[j])
        IN  IF found = {} THEN row[j] ELSE Decoded(Tag(r.types[j]), doc[Min(found)][2])]

\* readNextRow: a slot no column is put in, and one whose key the document
\* lacks, keep what the row had.
NextRow(r, row, doc) ==
    [j \in DOMAIN r.names |->
        LET found == KeysLike(doc, r.names[j])
        IN  IF j \notin ToSet(r.mapper) \/ found = {} THEN row[j]
            ELSE Decoded(Tag(r.types[j]), doc[Min(found)][2])]

\* retireRow: the buffer of a long string goes to the string pool, which
\* leaves the string empty; the row goes to the row pool with its fields.
Retired(row) ==
    [j \in DOMAIN row |->
        IF row[j].kind = "string" /\ row[j].text[2] = "long" THEN Text(<<"plain", "">>) ELSE row[j]]

\* ObjectPool::put of several rows: the oldest go when there are too many.
Newest(pool) ==
    IF Len(pool) > PoolSize THEN SubSeq(pool, Len(pool) - PoolSize + 1, Len(pool)) ELSE pool

Put(pool, rows) == Newest(pool \o [i \in DOMAIN rows |-> Retired(rows[i])])

FieldsOf(rows) == [i \in DOMAIN rows |-> rows[i].fields]

Smaller(a, b) == IF a < b THEN a ELSE b
Larger(a, b)  == IF a > b THEN a ELSE b

\* A row new to the result set, and the row the i-th one read is put in.
Blank(r)     == [j \in DOMAIN r.names |-> Nothing]
Reused(r, i) == IF i <= Len(r.pool) THEN r.pool[i] ELSE Blank(r)

\* How many rows tryPrefetchRows would read.
Wanted(r, size) ==
    IF r.finished \/ Len(r.prefetched) >= size THEN 0
    ELSE Larger(size, PrefetchAtLeast) - Len(r.prefetched)

\* The rows made of the first documents.  The document is kept with the row
\* for the properties.
Read(r, docs) ==
    [i \in DOMAIN docs |->
        [fields |-> NextRow(r, Reused(r, i), docs[i]), doc |-> docs[i]]]

\* The pool when `count' rows have been taken from it: the end of the stream
\* is found with one more row, which goes back.
PoolAfter(r, count, ended) ==
    LET left == SubSeq(r.pool, count + 1, Len(r.pool))
    IN  IF ~ended THEN left
        ELSE IF left = << >> THEN Put(left, <<Blank(r)>>)
        ELSE Put(Tail(left), <<Head(left)>>)

\* tryPrefetchRows.
Prefetch(r, size) ==
    LET wanted == Wanted(r, size)
        docs   == SubSeq(stream, 1, Smaller(wanted, Len(stream)))
        ended  == wanted > Len(stream)
    IN  [r EXCEPT !.prefetched = @ \o Read(r, docs), !.finished = @ \/ ended,
                  !.pool = PoolAfter(r, Len(docs), ended)]

-----------------------------------------------------------------------------
(* Calls                                                                    *)

\* The service's answer to a query: its columns and its documents.
Answers(sig, expected, docs) ==
    /\ rs' = NewResultSet(sig, expected)
    /\ stream' = docs

\* A catalog function: expected_column_order points to an array of the
\* function's frame, which is gone when it returns.
CatalogCall(array, sig, docs) ==
    /\ ~rs.open
    /\ Answers(sig, array, docs)
    /\ order' = [at |-> "frame", names |-> array]
    /\ app' = [app EXCEPT !.got = NotRead]

\* Any other execution uses the pointer as it is: after a catalog function it
\* reads whatever the frame's memory holds by now.
Execute(sig, docs) ==
    /\ ~rs.open
    /\ \E junk \in CatalogOrder \cup {<< >>} :
          /\ order' = IF order = NoOrder THEN NoOrder ELSE [at |-> "gone", names |-> junk]
          /\ Answers(sig, order'.names, docs)
    /\ app' = [app EXCEPT !.got = NotRead]

StatusAfter_Fault(old, size, n, bound) ==
    [i \in DOMAIN old |-> IF i <= n /\ bound THEN "success" ELSE old[i]]

\* The status array after a fetch of n rows: the return code of a column is
\* kept in a variable of an inner block, so a row is never in error; a row is
\* marked once for each column that has a record in the descriptor, so with
\* none it is not.
StatusAfter(old, size, n, bound) ==
    [i \in DOMAIN old |-> IF i > n /\ i <= size THEN "no_row"
                          ELSE IF i <= n /\ bound THEN "success" ELSE old[i]]

\* The array of the application, of the size it has asked for.
StatusArray(size) ==
    [i \in 1 .. Larger(size, Len(app.status)) |->
        IF i <= Len(app.status) THEN app.status[i] ELSE "unset"]

\* fetchBindings, with columns bound or none: SQLFetch and SQLFetchScroll.
Fetch(size, bound) ==
    LET retired == [rs EXCEPT !.pool = Put(@, FieldsOf(rs.rowSet)), !.rowSet = << >>]
        ahead   == Prefetch(retired, size)
        n       == Smaller(size, Len(ahead.prefetched))
    IN  /\ rs.open
        /\ rs' = [ahead EXCEPT !.rowSet = SubSeq(ahead.prefetched, 1, n),
                               !.prefetched = SubSeq(@, n + 1, Len(@))]
        /\ stream' = SubSeq(stream, Smaller(Wanted(retired, size), Len(stream)) + 1, Len(stream))
        /\ app' = [ status  |-> StatusAfter(StatusArray(size), size, n, bound),
                    fetched |-> n, got |-> NotRead ]
        /\ UNCHANGED order

\* A fetch without a result set.
FetchNothing(size) ==
    /\ ~rs.open
    /\ app' = [ status  |-> StatusAfter(StatusArray(size), size, 0, FALSE),
                fetched |-> 0, got |-> NotRead ]
    /\ UNCHANGED <<order, rs, stream>>

\* SQLGetData: the current row is the first of the row set; each call reads
\* the column from its beginning.
GetData(column) ==
    /\ app' = [app EXCEPT !.got =
                  IF rs.open /\ rs.rowSet # << >> /\ column \in DOMAIN rs.names
                  THEN [column |-> column, cell |-> rs.rowSet[1].fields[column]]
                  ELSE NotRead]
    /\ UNCHANGED <<order, rs, stream>>

\* SQLCloseCursor: the result set goes, with its pools.
Close ==
    /\ rs.open
    /\ rs' = NoResultSet
    /\ stream' = << >>
    /\ app' = [app EXCEPT !.got = NotRead]
    /\ UNCHANGED order

Documents == UNION {[1 .. n -> Document] : n \in 0 .. MaxDocuments}

Next ==
    \/ \E sig \in Signature, docs \in Documents :
          \/ Execute(sig, docs)
          \/ \E array \in CatalogOrder : CatalogCall(array, sig, docs)
    \/ \E size \in RowSetSizes : FetchNothing(size) \/ \E bound \in BOOLEAN : Fetch(size, bound)
    \/ \E column \in Columns : GetData(column)
    \/ Close

Spec == Init /\ [][Next]_vars

-----------------------------------------------------------------------------
(* Properties                                                               *)

Unambiguous(doc) == \A i, j \in DOMAIN doc : Fold[doc[i][1]] = Fold[doc[j][1]] => i = j

\* Whatever rows were recycled and however the columns were put in order, a
\* cell of the row set shows the item its own document has under the name of
\* that column, decoded by the type the column is described with.
CellsOfOwnDocument ==
    rs.open => \A i \in DOMAIN rs.rowSet : \A j \in DOMAIN rs.names :
        LET row == rs.rowSet[i]
        IN  Unambiguous(row.doc) /\ rs.names[j] # "" =>
              \A k \in DOMAIN row.doc : row.doc[k][1] = rs.names[j] =>
                  row.fields[j] = Decoded(Tag(rs.types[j]), row.doc[k][2])

\* The columns of a catalog function come in the order its array says, each
\* with the type the service gave it, whatever order and case the service
\* names them in; those of another query on a statement that never ran a
\* catalog function come as the service says.
ColumnsInOrder ==
    LET typed == rs.types = [j \in DOMAIN rs.names |-> TypeOf[rs.names[j]]]
    IN  rs.open =>
        IF /\ order.at = "frame" /\ Len(order.names) = Len(rs.signature)
           /\ ToSet(Folded(order.names)) = ToSet(Folded(rs.signature))
        THEN Folded(rs.names) = Folded(order.names) /\ typed
        ELSE order.at = "null" => rs.names = rs.signature /\ typed

\* The status array and the counter tell the rows there are: as many rows are
\* marked as were fetched, and they are the first ones, if columns are bound.
StatusTellsRows ==
    [][\A size \in RowSetSizes : Fetch(size, TRUE) \/ FetchNothing(size) =>
          /\ app'.fetched = IF rs'.open THEN Len(rs'.rowSet) ELSE 0
          /\ \A i \in 1 .. size : app'.status[i] = IF i <= app'.fetched THEN "success" ELSE "no_row"]_vars
=============================================================================
