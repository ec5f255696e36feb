--------------------------- MODULE RowFetch_proofs ---------------------------
(***************************************************************************)
(* What a fetch delivers, for any columns, catalog arrays, documents, pool *)
(* and row set sizes: each cell is the one of its own document, columns    *)
(* come in the order they are expected in, and the status array tells which*)
(* rows there are.                                                         *)
(***************************************************************************)
EXTENDS RowFetch, SequenceTheorems, WellFoundedInduction, TLAPS

(***************************************************************************)
(* The least and the greatest of some numbers.                             *)
(***************************************************************************)
LEMMA LeastOf ==
    ASSUME NEW S \in SUBSET Nat, S # {}
    PROVE  Min(S) \in S /\ \A n \in S : Min(S) <= n
<1>1. PICK n \in S : \A m \in S : ~(<<m, n>> \in OpToRel(<, Nat))
    BY WFMin, NatLessThanWellFounded, Zenon
<1>2. ASSUME NEW m \in S PROVE n <= m
    <2>1. m < n => <<m, n>> \in OpToRel(<, Nat)
        <3>1. <<m, n>> \in Nat \X Nat /\ <<m, n>>[1] = m /\ <<m, n>>[2] = n OBVIOUS
        <3> QED BY <3>1, Zenon DEF OpToRel
    <2>2. ~(m < n) BY <1>1, <2>1, Zenon
    <2> QED BY <2>2
<1> QED BY <1>2 DEF Min

LEMMA LeastOfOne ==
    ASSUME NEW n \in Nat
    PROVE  Min({n}) = n /\ Max({n}) = n
BY DEF Min, Max

LEMMA GreatestOf ==
    ASSUME NEW k \in Nat, NEW S \in SUBSET (1..k), S # {}
    PROVE  Max(S) \in S /\ \A n \in S : n <= Max(S)
<1> DEFINE T == {n \in Nat : k - n \in S}
<1>1. T # {}
    <2>1. PICK n \in S : TRUE OBVIOUS
    <2>2. k - n \in T BY <2>1
    <2> QED BY <2>2
<1>2. T \subseteq Nat OBVIOUS
<1>3. PICK n \in T : \A m \in T : n <= m
    <2> HIDE DEF T
    <2>1. Min(T) \in T /\ \A m \in T : Min(T) <= m BY <1>1, <1>2, LeastOf
    <2> QED BY <2>1
<1>4. k - n \in S /\ \A m \in S : m <= k - n
    <2>1. ASSUME NEW m \in S PROVE m <= k - n
        <3>1. k - m \in T BY <2>1
        <3> QED BY <1>3, <3>1
    <2> QED BY <2>1
<1> QED BY <1>4 DEF Max

(***************************************************************************)
(* Columns.                                                                *)
(***************************************************************************)

\* What an order points to: a catalog array, or nothing.
Orders == CatalogOrder \cup {<< >>}

LEMMA OrdersAreSequences ==
    ASSUME NEW names \in Orders
    PROVE  names \in Seq(Name)
<1>1. << >> \in Seq(Name) OBVIOUS
<1>2. CatalogOrder \subseteq Seq(Name) BY RowFetchAssumption
<1> QED BY <1>1, <1>2 DEF Orders

\* The mapper, names and types of a result set are functions of its columns.
LEMMA ColumnsTyped ==
    ASSUME NEW sig \in Signature, NEW expected \in Orders
    PROVE  LET r == NewResultSet(sig, expected)
           IN  /\ r.signature = sig /\ DOMAIN r.names = DOMAIN sig
               /\ r.mapper = Mapper(sig, expected)
               /\ r.names = Names(sig, r.mapper, expected)
               /\ r.types = Types(sig, r.mapper)
BY DEF NewResultSet, Names

\* A slot that has a name has a column.
LEMMA NamedSlotIsMapped ==
    ASSUME NEW sig \in Signature, NEW mapper, DOMAIN mapper = DOMAIN sig, NEW expected,
           NEW j \in DOMAIN sig, Names(sig, mapper, expected)[j] # ""
    PROVE  j \in ToSet(mapper)
BY DEF Names, ToSet

LEMMA MapperDomain ==
    ASSUME NEW sig \in Signature, NEW expected
    PROVE  DOMAIN Mapper(sig, expected) = DOMAIN sig
BY DEF Mapper, SlotOf

\* A catalog array that names the columns of the service places each of them,
\* and each of its slots gets one.
LEMMA CatalogColumns ==
    ASSUME NEW sig \in Signature, NEW array \in CatalogOrder, array # << >>,
           Len(array) = Len(sig), ToSet(Folded(array)) = ToSet(Folded(sig))
    PROVE  LET r == NewResultSet(sig, array)
           IN  /\ Folded(r.names) = Folded(array)
               /\ r.types = [j \in DOMAIN r.names |-> TypeOf[r.names[j]]]
<1> DEFINE mapper == Mapper(sig, array)
           of(j)  == {i \in DOMAIN sig : mapper[i] = j}
<1>1. /\ sig \in Seq(Name) /\ array \in Seq(Name) /\ IsInjective(Folded(array))
      /\ DOMAIN array = DOMAIN sig /\ DOMAIN sig = 1 .. Len(sig) /\ Len(sig) \in Nat
    BY RowFetchAssumption
<1>2. Mapped(sig, array) BY DEF Mapped
<1>3. \A i \in DOMAIN sig : Fold[sig[i]] \in ToSet(Folded(array))
    BY DEF ToSet, Folded
<1>4. \A j \in DOMAIN sig : \E i \in DOMAIN sig : Fold[sig[i]] = Fold[array[j]]
    <2> SUFFICES ASSUME NEW j \in DOMAIN sig
                 PROVE  \E i \in DOMAIN sig : Fold[sig[i]] = Fold[array[j]]
        OBVIOUS
    <2>1. Fold[array[j]] \in ToSet(Folded(array)) BY <1>1 DEF ToSet, Folded
    <2> QED BY <2>1 DEF ToSet, Folded
<1>5. ASSUME NEW i \in DOMAIN sig
      PROVE  /\ mapper[i] \in DOMAIN sig /\ Fold[array[mapper[i]]] = Fold[sig[i]]
             /\ \A j \in DOMAIN sig : Fold[array[j]] = Fold[sig[i]] => mapper[i] = j
    <2> DEFINE at == {j \in DOMAIN array : Folded(array)[j] = Fold[sig[i]]}
    <2>1. mapper[i] = IF at = {} THEN 1 ELSE Min(at)
        BY <1>2 DEF Mapper, SlotOf
    <2>2. PICK j \in DOMAIN array : Fold[array[j]] = Fold[sig[i]]
        BY <1>3 DEF ToSet, Folded
    <2>3. \A k \in DOMAIN array : Fold[array[k]] = Fold[sig[i]] => k = j
        BY <1>1, <2>2 DEF IsInjective, Folded
    <2>4. at = {j} BY <2>2, <2>3 DEF Folded
    <2>5. Min({j}) = j BY <1>1, LeastOfOne
    <2>6. mapper[i] = j BY <2>1, <2>4, <2>5
    <2> QED BY <1>1, <2>2, <2>3, <2>6
<1> HIDE DEF mapper
<1>6. ASSUME NEW j \in DOMAIN sig
      PROVE  /\ Max(of(j)) \in DOMAIN sig /\ Fold[sig[Max(of(j))]] = Fold[array[j]]
             /\ of(j) # {}
    <2>1. of(j) # {} BY <1>4, <1>5
    <2>2. of(j) \in SUBSET (1 .. Len(sig)) BY <1>1
    <2> HIDE DEF of
    <2>3. Max(of(j)) \in of(j) BY <1>1, <2>1, <2>2, GreatestOf
    <2> QED BY <1>5, <2>1, <2>3 DEF of
<1>7. \A j \in DOMAIN sig : Names(sig, mapper, array)[j] = sig[Max(of(j))]
    <2> SUFFICES ASSUME NEW j \in DOMAIN sig
                 PROVE  Names(sig, mapper, array)[j] = sig[Max(of(j))]
        OBVIOUS
    <2>1. {i \in DOMAIN sig : (Mapped(sig, array) => Fold[sig[i]] \in ToSet(Folded(array)))
                                  /\ mapper[i] = j} = of(j)
        BY <1>3
    <2> QED BY <1>6, <2>1 DEF Names
<1>8. \A j \in DOMAIN sig : Types(sig, mapper)[j] = TypeOf[sig[Max(of(j))]]
    BY <1>6 DEF Types
<1> DEFINE r == NewResultSet(sig, array)
<1>9. /\ r.names = Names(sig, mapper, array) /\ DOMAIN r.names = DOMAIN sig
      /\ r.types = Types(sig, mapper) /\ r.types = [j \in DOMAIN sig |-> r.types[j]]
    BY DEF NewResultSet, Names, Types, mapper
<1> HIDE DEF r
<1>10. \A j \in DOMAIN sig : r.names[j] = sig[Max(of(j))] /\ r.types[j] = TypeOf[r.names[j]]
    BY <1>7, <1>8, <1>9
<1>11. \A j \in DOMAIN sig : Fold[r.names[j]] = Fold[array[j]]
    BY <1>6, <1>10
<1>12. Folded(r.names) = Folded(array)
    BY <1>1, <1>9, <1>11 DEF Folded
<1>13. r.types = [j \in DOMAIN r.names |-> TypeOf[r.names[j]]]
    BY <1>9, <1>10
<1> QED BY <1>12, <1>13 DEF r

\* Without an expected order the columns are those of the service.
LEMMA PlainColumns ==
    ASSUME NEW sig \in Signature
    PROVE  LET r == NewResultSet(sig, << >>)
           IN  /\ r.names = sig
               /\ r.types = [j \in DOMAIN r.names |-> TypeOf[r.names[j]]]
<1> DEFINE mapper == [i \in DOMAIN sig |-> i]
           r      == NewResultSet(sig, << >>)
<1>1. sig \in Seq(Name) /\ DOMAIN sig = 1 .. Len(sig) /\ Len(sig) \in Nat
    BY RowFetchAssumption
<1>2. ~Mapped(sig, << >>) /\ Mapper(sig, << >>) = mapper
    BY DEF Mapped, Mapper
<1>3. ASSUME NEW j \in DOMAIN sig
      PROVE  {i \in DOMAIN sig : mapper[i] = j} = {j} /\ Max({j}) = j
    <2>1. {i \in DOMAIN sig : mapper[i] = j} = {j} OBVIOUS
    <2>2. j \in Nat BY <1>1
    <2> QED BY <2>1, <2>2, LeastOfOne
<1>4. /\ r.names = Names(sig, mapper, << >>) /\ r.types = Types(sig, mapper)
    BY <1>2 DEF NewResultSet
<1> HIDE DEF mapper, r
<1>5. \A j \in DOMAIN sig : Names(sig, mapper, << >>)[j] = sig[j]
    <2> SUFFICES ASSUME NEW j \in DOMAIN sig
                 PROVE  Names(sig, mapper, << >>)[j] = sig[j]
        OBVIOUS
    <2>1. {i \in DOMAIN sig : (Mapped(sig, << >>) => Fold[sig[i]] \in ToSet(Folded(<< >>)))
                                  /\ mapper[i] = j} = {j}
        BY <1>2, <1>3
    <2> QED BY <1>3, <2>1 DEF Names
<1>6. \A j \in DOMAIN sig : Types(sig, mapper)[j] = TypeOf[sig[j]]
    BY <1>3 DEF Types
<1>7. DOMAIN Names(sig, mapper, << >>) = DOMAIN sig /\ DOMAIN Types(sig, mapper) = DOMAIN sig
    BY DEF Names, Types
<1>8. Names(sig, mapper, << >>) = sig
    <2>1. Names(sig, mapper, << >>) = [j \in DOMAIN sig |-> Names(sig, mapper, << >>)[j]]
        BY DEF Names
    <2>2. sig = [j \in DOMAIN sig |-> sig[j]] BY <1>1
    <2> QED BY <1>5, <2>1, <2>2
<1>9. Types(sig, mapper) = [j \in DOMAIN sig |-> TypeOf[sig[j]]]
    BY <1>6 DEF Types
<1> QED BY <1>4, <1>8, <1>9 DEF r

(***************************************************************************)
(* Rows.                                                                   *)
(***************************************************************************)
Wording == {"calendar", "plain", "prefixed", "truncated", "digit", "word"}

\* The provers are not told that "" is a string.
Cell == {Nothing} \cup [kind : {"string"}, text : Wording \X (STRING \cup {""})]

RowOf(names) == [fields : [DOMAIN names -> Cell], doc : Document]

\* A row that shows its own document under the names and types.
Shows(row, names, types) ==
    \A j \in DOMAIN names :
        Unambiguous(row.doc) /\ names[j] # "" =>
            \A k \in DOMAIN row.doc : row.doc[k][1] = names[j] =>
                row.fields[j] = Decoded(Tag(types[j]), row.doc[k][2])

GoodRow(names, types) == {row \in RowOf(names) : Shows(row, names, types)}

LEMMA DecodedIsCell ==
    ASSUME NEW tag, NEW item \in Item
    PROVE  Decoded(tag, item) \in Cell
<1>1. /\ \A w \in Wording, t \in STRING \cup {""} : Text(<<w, t>>) \in Cell
      /\ {"calendar", "plain", "prefixed", "truncated", "digit", "word"} = Wording
    BY DEF Text, Cell, Wording
<1>2. item.text \in STRING /\ item.kind \in {"null", "string", "number", "bool"}
    BY DEF Item
<1>4. Nothing \in Cell BY DEF Cell
<1>5. CASE item.kind = "null"
    BY <1>4, <1>5 DEF Decoded
<1>6. CASE item.kind = "string"
    BY <1>1, <1>2, <1>6 DEF Decoded
<1>7. CASE item.kind = "number"
    BY <1>1, <1>2, <1>7 DEF Decoded
<1>8. CASE item.kind = "bool"
    BY <1>1, <1>2, <1>8 DEF Decoded
<1> QED BY <1>2, <1>5, <1>6, <1>7, <1>8

\* The columns of an open result set.
Described(r) ==
    /\ r.signature \in Signature
    /\ DOMAIN r.names = DOMAIN r.signature
    /\ \A j \in DOMAIN r.names : r.names[j] # "" => j \in ToSet(r.mapper)

\* Whatever the row held before, what is read is the document's.
LEMMA NextRowShows ==
    ASSUME NEW r, Described(r), NEW row \in [DOMAIN r.names -> Cell], NEW doc \in Document
    PROVE  [fields |-> NextRow(r, row, doc), doc |-> doc] \in GoodRow(r.names, r.types)
<1> DEFINE fields == NextRow(r, row, doc)
           found(j) == KeysLike(doc, r.names[j])
<1>1. doc \in Seq(Name \X Item) /\ DOMAIN doc = 1 .. Len(doc) /\ Len(doc) \in Nat
    BY RowFetchAssumption
<1>2. \A j \in DOMAIN r.names :
          fields[j] = IF j \notin ToSet(r.mapper) \/ found(j) = {} THEN row[j]
                      ELSE Decoded(Tag(r.types[j]), doc[Min(found(j))][2])
    BY DEF NextRow
<1>3. fields \in [DOMAIN r.names -> Cell]
    <2>1. ASSUME NEW j \in DOMAIN r.names, found(j) # {}
          PROVE  Decoded(Tag(r.types[j]), doc[Min(found(j))][2]) \in Cell
        <3>1. found(j) \in SUBSET Nat /\ found(j) \subseteq DOMAIN doc BY <1>1 DEF KeysLike
        <3> HIDE DEF found
        <3>2. Min(found(j)) \in DOMAIN doc BY <2>1, <3>1, LeastOf
        <3>3. doc[Min(found(j))] \in Name \X Item BY <1>1, <3>2
        <3> QED BY <3>3, DecodedIsCell
    <2>2. fields = [j \in DOMAIN r.names |-> fields[j]] BY DEF NextRow
    <2> HIDE DEF fields, found
    <2>3. \A j \in DOMAIN r.names : fields[j] \in Cell BY <1>2, <2>1
    <2> QED BY <2>2, <2>3
<1>4. ASSUME NEW j \in DOMAIN r.names, Unambiguous(doc), r.names[j] # "",
             NEW k \in DOMAIN doc, doc[k][1] = r.names[j]
      PROVE  fields[j] = Decoded(Tag(r.types[j]), doc[k][2])
    <2>1. j \in ToSet(r.mapper) BY <1>4 DEF Described
    <2>2. found(j) = {k} BY <1>4 DEF KeysLike, Unambiguous
    <2>3. Min({k}) = k BY <1>1, LeastOfOne
    <2> HIDE DEF fields, found
    <2> QED BY <1>2, <2>1, <2>2, <2>3
<1> HIDE DEF fields
<1> DEFINE new == [fields |-> fields, doc |-> doc]
<1>5. new.fields = fields /\ new.doc = doc /\ new \in RowOf(r.names)
    BY <1>3 DEF RowOf
<1> HIDE DEF new
<1>6. Shows(new, r.names, r.types) BY <1>4, <1>5 DEF Shows
<1>7. new \in GoodRow(r.names, r.types) BY <1>5, <1>6 DEF GoodRow
<1> QED BY <1>7 DEF new, fields

\* The pool keeps rows of cells, whatever is put in it.
LEMMA RetiredTyped ==
    ASSUME NEW W, NEW row \in [W -> Cell]
    PROVE  Retired(row) \in [W -> Cell]
<1>1. Text(<<"plain", "">>) \in Cell
    <2>1. <<"plain", "">> \in Wording \X (STRING \cup {""}) BY DEF Wording
    <2> QED BY <2>1 DEF Text, Cell
<1> QED BY <1>1 DEF Retired

LEMMA PutTyped ==
    ASSUME NEW W, NEW pool \in Seq([W -> Cell]), NEW rows \in Seq([W -> Cell])
    PROVE  Put(pool, rows) \in Seq([W -> Cell])
<1> DEFINE R    == [W -> Cell]
           more == [i \in DOMAIN rows |-> Retired(rows[i])]
           all  == pool \o more
<1>1. \A row \in R : Retired(row) \in R BY RetiredTyped
<1> HIDE DEF R
<1>2. rows \in Seq(R) /\ pool \in Seq(R) BY DEF R
<1>3. more \in Seq(R)
    <2>1. \A i \in 1 .. Len(rows) : Retired(rows[i]) \in R BY <1>1, <1>2
    <2>2. DOMAIN rows = 1 .. Len(rows) /\ Len(rows) \in Nat BY <1>2
    <2>3. [i \in 1 .. Len(rows) |-> Retired(rows[i])] \in Seq(R) BY <2>1, <2>2
    <2> QED BY <2>2, <2>3
<1> HIDE DEF more
<1>4. all \in Seq(R) BY <1>2, <1>3
<1> HIDE DEF all
<1>5. PoolSize \in Nat BY RowFetchAssumption
<1>6. Newest(all) \in Seq(R)
    <2>1. CASE Len(all) > PoolSize
        <3> DEFINE m == Len(all) - PoolSize + 1
        <3>1. m \in 1 .. Len(all) + 1 /\ Len(all) \in Nat BY <1>4, <1>5, <2>1
        <3>2. \A i \in m .. Len(all) : all[i] \in R BY <1>4, <3>1
        <3>3. SubSeq(all, m, Len(all)) \in Seq(R) BY <3>1, <3>2, SubSeqProperties
        <3> QED BY <2>1, <3>3 DEF Newest
    <2>2. CASE ~(Len(all) > PoolSize)
        BY <1>4, <2>2 DEF Newest
    <2> QED BY <2>1, <2>2
<1> QED BY <1>6 DEF Put, all, more, R

LEMMA PoolAfterTyped ==
    ASSUME NEW r, r.pool \in Seq([DOMAIN r.names -> Cell]), NEW count \in Nat, NEW ended
    PROVE  PoolAfter(r, count, ended) \in Seq([DOMAIN r.names -> Cell])
<1> DEFINE R    == [DOMAIN r.names -> Cell]
           left == SubSeq(r.pool, count + 1, Len(r.pool))
<1>1. Blank(r) \in R BY DEF Blank, Cell
<1> HIDE DEF R
<1>2. r.pool \in Seq(R) /\ Len(r.pool) \in Nat BY DEF R
<1>3. left \in Seq(R)
    <2>1. \A i \in count + 1 .. Len(r.pool) : r.pool[i] \in R BY <1>2
    <2>2. count + 1 \in Int /\ Len(r.pool) \in Int BY <1>2
    <2> QED BY <2>1, <2>2, SubSeqProperties
<1> HIDE DEF left
<1>4. <<Blank(r)>> \in Seq(R) BY <1>1
<1>5. left # << >> => Tail(left) \in Seq(R) /\ <<Head(left)>> \in Seq(R)
    BY <1>3, HeadTailProperties
<1>6. \A pool \in Seq(R), rows \in Seq(R) : Put(pool, rows) \in Seq(R)
    BY PutTyped DEF R
<1>7. PoolAfter(r, count, ended) = IF ~ended THEN left
                                   ELSE IF left = << >> THEN Put(left, <<Blank(r)>>)
                                   ELSE Put(Tail(left), <<Head(left)>>)
    BY DEF PoolAfter, left
<1>8. PoolAfter(r, count, ended) \in Seq(R) BY <1>3, <1>4, <1>5, <1>6, <1>7
<1> QED BY <1>8 DEF R

\* The rows a fetch reads, one for each document.
LEMMA ReadShows ==
    ASSUME NEW r, Described(r), r.pool \in Seq([DOMAIN r.names -> Cell]),
           NEW docs \in Seq(Document)
    PROVE  Read(r, docs) \in Seq(GoodRow(r.names, r.types)) /\ Len(Read(r, docs)) = Len(docs)
<1> DEFINE G == GoodRow(r.names, r.types)
           row(i) == [fields |-> NextRow(r, Reused(r, i), docs[i]), doc |-> docs[i]]
<1>1. DOMAIN docs = 1 .. Len(docs) /\ Len(docs) \in Nat OBVIOUS
<1>2. ASSUME NEW i \in 1 .. Len(docs) PROVE row(i) \in G
    <2>1. Blank(r) \in [DOMAIN r.names -> Cell] BY DEF Blank, Cell
    <2>2. Reused(r, i) \in [DOMAIN r.names -> Cell] BY <1>1, <2>1 DEF Reused
    <2>3. docs[i] \in Document BY <1>1
    <2> QED BY <2>2, <2>3, NextRowShows
<1> HIDE DEF G, row
<1>3. [i \in 1 .. Len(docs) |-> row(i)] \in Seq(G) BY <1>1, <1>2
<1>4. Read(r, docs) = [i \in 1 .. Len(docs) |-> row(i)] BY <1>1 DEF Read, row
<1>5. Len([i \in 1 .. Len(docs) |-> row(i)]) = Len(docs) BY <1>1
<1> QED BY <1>3, <1>4, <1>5 DEF G

(***************************************************************************)
(* The inductive invariant.  The rows read ahead show their documents      *)
(* already, and the names and types are those the constructor makes of the *)
(* columns and of what the order pointed to then.                          *)
(***************************************************************************)
OrderTyped ==
    /\ order.names \in Orders
    /\ order.at = "null" => order = NoOrder

AppTyped == app.status \in Seq({"unset", "success", "no_row"})

\* An open result set: what it was made from, and its rows.
Made(r) ==
    LET new == NewResultSet(r.signature, order.names)
    IN  /\ r.signature \in Signature
        /\ r.names = new.names /\ r.types = new.types /\ r.mapper = new.mapper

RowsShow(r) ==
    /\ r.pool \in Seq([DOMAIN r.names -> Cell])
    /\ r.prefetched \in Seq(GoodRow(r.names, r.types))
    /\ r.rowSet \in Seq(GoodRow(r.names, r.types))

ResultSetFields == { "open", "signature", "mapper", "names", "types", "finished",
                     "prefetched", "rowSet", "pool" }

IInv ==
    /\ OrderTyped
    /\ AppTyped
    /\ stream \in Seq(Document)
    /\ rs.open => DOMAIN rs = ResultSetFields /\ Made(rs) /\ RowsShow(rs)

LEMMA MadeIsDescribed ==
    ASSUME OrderTyped, NEW r, Made(r)
    PROVE  Described(r)
<1> DEFINE mapper == Mapper(r.signature, order.names)
<1>1. /\ r.signature \in Signature /\ order.names \in Orders
      /\ r.names = NewResultSet(r.signature, order.names).names
      /\ r.mapper = NewResultSet(r.signature, order.names).mapper
    BY DEF Made, OrderTyped
<1>2. /\ r.names = Names(r.signature, mapper, order.names) /\ r.mapper = mapper
    BY <1>1 DEF NewResultSet
<1>3. DOMAIN mapper = DOMAIN r.signature BY <1>1, MapperDomain
<1> HIDE DEF mapper
<1>4. DOMAIN r.names = DOMAIN r.signature BY <1>2 DEF Names
<1>5. \A j \in DOMAIN r.names : r.names[j] # "" => j \in ToSet(r.mapper)
    BY <1>1, <1>2, <1>3, <1>4, NamedSlotIsMapped
<1> QED BY <1>1, <1>4, <1>5 DEF Described

LEMMA InitInv == Init => IInv
<1> SUFFICES ASSUME Init PROVE IInv OBVIOUS
<1>1. ~rs.open BY DEF Init, NoResultSet
<1>2. OrderTyped BY DEF Init, OrderTyped, NoOrder, Orders
<1>3. AppTyped BY DEF Init, AppTyped
<1>4. stream \in Seq(Document) BY DEF Init
<1> QED BY <1>1, <1>2, <1>3, <1>4 DEF IInv

\* A new result set, by whatever the order points to.
LEMMA AnswersInv ==
    ASSUME NEW sig \in Signature, NEW docs \in Documents,
           Answers(sig, order'.names, docs), OrderTyped', AppTyped'
    PROVE  IInv'
<1>1. rs' = NewResultSet(sig, order'.names) /\ stream' = docs BY DEF Answers
<1>2. /\ rs'.signature = sig /\ rs'.prefetched = << >> /\ rs'.rowSet = << >>
      /\ rs'.pool = << >> /\ DOMAIN rs' = ResultSetFields
    BY <1>1 DEF NewResultSet, ResultSetFields
<1>3. Made(rs)' BY <1>1, <1>2 DEF Made
<1>4. RowsShow(rs)' BY <1>2 DEF RowsShow
<1>5. stream' \in Seq(Document)
    <2>1. PICK n \in 0 .. MaxDocuments : docs \in [1 .. n -> Document] BY DEF Documents
    <2>2. n \in Nat BY RowFetchAssumption
    <2> QED BY <1>1, <2>1, <2>2
<1> QED BY <1>2, <1>3, <1>4, <1>5 DEF IInv

\* The status array keeps its type, and has the size asked for.
LEMMA StatusTyped ==
    ASSUME AppTyped, NEW size \in Nat, NEW n, NEW bound
    PROVE  /\ StatusAfter(StatusArray(size), size, n, bound) \in Seq({"unset", "success", "no_row"})
           /\ DOMAIN StatusArray(size) = 1 .. Larger(size, Len(app.status))
           /\ Larger(size, Len(app.status)) \in Nat /\ Larger(size, Len(app.status)) >= size
<1> DEFINE m == Larger(size, Len(app.status))
           S == {"unset", "success", "no_row"}
<1>1. app.status \in Seq(S) /\ Len(app.status) \in Nat BY DEF AppTyped
<1>2. m \in Nat /\ m >= size BY <1>1 DEF Larger
<1>3. /\ DOMAIN StatusArray(size) = 1 .. m
      /\ \A i \in 1 .. m : StatusArray(size)[i] \in S
    BY <1>1, <1>2 DEF StatusArray
<1> HIDE DEF m
<1>4. \A i \in 1 .. m : StatusAfter(StatusArray(size), size, n, bound)[i] \in S
    BY <1>3 DEF StatusAfter
<1>5. StatusAfter(StatusArray(size), size, n, bound)
        = [i \in 1 .. m |-> StatusAfter(StatusArray(size), size, n, bound)[i]]
    BY <1>3 DEF StatusAfter
<1>6. StatusAfter(StatusArray(size), size, n, bound) \in Seq(S)
    BY <1>2, <1>4, <1>5
<1> QED BY <1>2, <1>3, <1>6 DEF m

\* A fetch keeps the invariant, and counts and marks the rows of its row set.
LEMMA FetchInv ==
    ASSUME IInv, NEW size \in RowSetSizes, NEW bound \in BOOLEAN, Fetch(size, bound)
    PROVE  /\ IInv' /\ rs'.open
           /\ app'.fetched \in Nat /\ Len(rs'.rowSet) = app'.fetched
           /\ app'.status = StatusAfter(StatusArray(size), size, app'.fetched, bound)
<1> DEFINE retired == [rs EXCEPT !.pool = Put(@, FieldsOf(rs.rowSet)), !.rowSet = << >>]
           wanted  == Wanted(retired, size)
           docs    == SubSeq(stream, 1, Smaller(wanted, Len(stream)))
           ended   == wanted > Len(stream)
           ahead   == Prefetch(retired, size)
           n       == Smaller(size, Len(ahead.prefetched))
           W       == DOMAIN rs.names
           G       == GoodRow(rs.names, rs.types)
<1>1. /\ rs.open /\ DOMAIN rs = ResultSetFields /\ Made(rs) /\ RowsShow(rs)
      /\ stream \in Seq(Document) /\ OrderTyped /\ AppTyped /\ UNCHANGED order
    BY DEF IInv, Fetch
<1>2. /\ rs' = [ahead EXCEPT !.rowSet = SubSeq(ahead.prefetched, 1, n),
                             !.prefetched = SubSeq(@, n + 1, Len(@))]
      /\ stream' = SubSeq(stream, Smaller(wanted, Len(stream)) + 1, Len(stream))
      /\ app'.status = StatusAfter(StatusArray(size), size, n, bound) /\ app'.fetched = n
    BY DEF Fetch
<1>3. /\ DOMAIN retired = ResultSetFields /\ retired.signature = rs.signature
      /\ retired.names = rs.names /\ retired.types = rs.types /\ retired.mapper = rs.mapper
      /\ retired.pool = Put(rs.pool, FieldsOf(rs.rowSet))
      /\ retired.prefetched = rs.prefetched /\ retired.finished = rs.finished
      /\ retired.open = rs.open
    BY <1>1 DEF ResultSetFields
<1> HIDE DEF retired
<1>4. /\ DOMAIN ahead = ResultSetFields /\ ahead.signature = rs.signature
      /\ ahead.names = rs.names /\ ahead.types = rs.types /\ ahead.mapper = rs.mapper
      /\ ahead.open = rs.open
      /\ ahead.pool = PoolAfter(retired, Len(docs), ended)
      /\ ahead.prefetched = rs.prefetched \o Read(retired, docs)
    BY <1>3 DEF Prefetch, ResultSetFields
<1> HIDE DEF ahead
<1>5. /\ rs'.signature = rs.signature /\ rs'.open = rs.open
      /\ rs'.names = rs.names /\ rs'.types = rs.types /\ rs'.mapper = rs.mapper
      /\ rs'.pool = ahead.pool /\ DOMAIN rs' = ResultSetFields
      /\ rs'.rowSet = SubSeq(ahead.prefetched, 1, n)
      /\ rs'.prefetched = SubSeq(ahead.prefetched, n + 1, Len(ahead.prefetched))
    BY <1>2, <1>4 DEF ResultSetFields
<1>6. size \in Nat /\ Len(stream) \in Nat /\ PrefetchAtLeast \in Nat
    BY <1>1, RowFetchAssumption
<1>7. rs.prefetched \in Seq(G) /\ rs.rowSet \in Seq(G) /\ rs.pool \in Seq([W -> Cell])
    BY <1>1 DEF RowsShow
<1>8. wanted \in Nat
    <2>1. Len(rs.prefetched) \in Nat BY <1>7
    <2> QED BY <1>3, <1>6, <2>1 DEF Wanted, Larger
<1> HIDE DEF wanted
<1>9. docs \in Seq(Document) /\ stream' \in Seq(Document) /\ Len(docs) \in Nat
    <2> DEFINE k == Smaller(wanted, Len(stream))
    <2>1. k \in 0 .. Len(stream) BY <1>6, <1>8 DEF Smaller
    <2> HIDE DEF k
    <2>2. \A i \in 1 .. k : stream[i] \in Document BY <1>1, <1>6, <2>1
    <2>3. \A i \in k + 1 .. Len(stream) : stream[i] \in Document BY <1>1, <1>6, <2>1
    <2>4. SubSeq(stream, 1, k) \in Seq(Document) BY <2>1, <2>2, SubSeqProperties
    <2>5. SubSeq(stream, k + 1, Len(stream)) \in Seq(Document)
        BY <1>6, <2>1, <2>3, SubSeqProperties
    <2> QED BY <1>2, <2>4, <2>5 DEF k
<1> HIDE DEF docs, ended
<1>10. retired.pool \in Seq([W -> Cell])
    <2>1. FieldsOf(rs.rowSet) \in Seq([W -> Cell])
        <3> DEFINE R == [W -> Cell]
        <3>1. \A row \in G : row.fields \in R BY DEF GoodRow, RowOf
        <3> HIDE DEF R, G
        <3>2. DOMAIN rs.rowSet = 1 .. Len(rs.rowSet) /\ Len(rs.rowSet) \in Nat BY <1>7
        <3>3. \A i \in 1 .. Len(rs.rowSet) : rs.rowSet[i].fields \in R BY <1>7, <3>1
        <3>4. [i \in 1 .. Len(rs.rowSet) |-> rs.rowSet[i].fields] \in Seq(R) BY <3>2, <3>3
        <3> QED BY <3>2, <3>4 DEF FieldsOf, R
    <2> QED BY <1>3, <1>7, <2>1, PutTyped
<1>11. Described(retired)
    <2>1. Described(rs) BY <1>1, MadeIsDescribed
    <2> QED BY <1>3, <2>1 DEF Described
<1>12. Read(retired, docs) \in Seq(G)
    BY <1>3, <1>9, <1>10, <1>11, ReadShows
<1>13. ahead.pool \in Seq([W -> Cell])
    <2>1. DOMAIN retired.names = W BY <1>3
    <2>2. retired.pool \in Seq([DOMAIN retired.names -> Cell]) BY <1>10, <2>1
    <2>3. PoolAfter(retired, Len(docs), ended) \in Seq([DOMAIN retired.names -> Cell])
        BY <1>9, <2>2, PoolAfterTyped
    <2> QED BY <1>4, <2>1, <2>3
<1> HIDE DEF G
<1>14. ahead.prefetched \in Seq(G) /\ Len(ahead.prefetched) \in Nat
    BY <1>4, <1>7, <1>12
<1>15. n \in 0 .. Len(ahead.prefetched) BY <1>6, <1>14 DEF Smaller
<1> HIDE DEF n
<1>16. rs'.rowSet \in Seq(G) /\ Len(rs'.rowSet) = n
    <2>1. \A i \in 1 .. n : ahead.prefetched[i] \in G BY <1>14, <1>15
    <2> QED BY <1>5, <1>15, <2>1, SubSeqProperties
<1>17. rs'.prefetched \in Seq(G)
    <2>1. \A i \in n + 1 .. Len(ahead.prefetched) : ahead.prefetched[i] \in G BY <1>14, <1>15
    <2>2. n + 1 \in Int /\ Len(ahead.prefetched) \in Int BY <1>14, <1>15
    <2> QED BY <1>5, <2>1, <2>2, SubSeqProperties
<1>18. RowsShow(rs)' BY <1>5, <1>13, <1>16, <1>17 DEF RowsShow, G
<1>19. Made(rs)' BY <1>1, <1>5 DEF Made
<1>20. OrderTyped' BY <1>1 DEF OrderTyped
<1>21. AppTyped' BY <1>1, <1>2, <1>6, <1>14, <1>15, StatusTyped DEF AppTyped
<1>22. IInv' BY <1>5, <1>9, <1>18, <1>19, <1>20, <1>21 DEF IInv
<1>23. app'.fetched \in Nat /\ Len(rs'.rowSet) = app'.fetched
    BY <1>2, <1>14, <1>15, <1>16
<1>24. app'.status = StatusAfter(StatusArray(size), size, app'.fetched, bound)
    BY <1>2, Zenon
<1>25. rs'.open BY <1>1, <1>5, Zenon
<1> QED BY <1>22, <1>23, <1>24, <1>25

\* Calls that change nothing but what the application has.
LEMMA AppInv ==
    ASSUME IInv, UNCHANGED <<order, rs, stream>>, AppTyped'
    PROVE  IInv'
<1>1. OrderTyped' BY DEF IInv, OrderTyped
<1>2. rs'.open => Made(rs)' /\ RowsShow(rs)' /\ DOMAIN rs' = ResultSetFields
    BY DEF IInv, Made, RowsShow
<1> QED BY <1>1, <1>2 DEF IInv

LEMMA StepInv == IInv /\ [Next]_vars => IInv'
<1> SUFFICES ASSUME IInv, [Next]_vars
             PROVE  IInv'
    OBVIOUS
<1>1. CASE UNCHANGED vars
    <2>1. AppTyped' BY <1>1 DEF IInv, AppTyped, vars
    <2> QED BY <1>1, <2>1, AppInv DEF vars
<1>2. ASSUME NEW sig \in Signature, NEW docs \in Documents, Execute(sig, docs)
      PROVE  IInv'
    <2>1. PICK junk \in Orders :
              /\ order' = IF order = NoOrder THEN NoOrder ELSE [at |-> "gone", names |-> junk]
              /\ Answers(sig, order'.names, docs)
        BY <1>2 DEF Execute, Orders
    <2>2. OrderTyped' BY <2>1 DEF OrderTyped, NoOrder, Orders
    <2>3. AppTyped' BY <1>2 DEF Execute, IInv, AppTyped
    <2> QED BY <2>1, <2>2, <2>3, AnswersInv
<1>3. ASSUME NEW sig \in Signature, NEW docs \in Documents, NEW array \in CatalogOrder,
             CatalogCall(array, sig, docs)
      PROVE  IInv'
    <2>1. order' = [at |-> "frame", names |-> array] /\ Answers(sig, array, docs)
        BY <1>3 DEF CatalogCall
    <2>2. OrderTyped' /\ order'.names = array BY <2>1 DEF OrderTyped, Orders
    <2>3. AppTyped' BY <1>3 DEF CatalogCall, IInv, AppTyped
    <2> QED BY <2>1, <2>2, <2>3, AnswersInv
<1>4. ASSUME NEW size \in RowSetSizes, FetchNothing(size)
      PROVE  IInv'
    <2>1. size \in Nat BY RowFetchAssumption
    <2>2. AppTyped' BY <1>4, <2>1, StatusTyped DEF FetchNothing, IInv, AppTyped
    <2> QED BY <1>4, <2>2, AppInv DEF FetchNothing
<1>5. ASSUME NEW column \in Columns, GetData(column)
      PROVE  IInv'
    <2>1. AppTyped' BY <1>5 DEF GetData, IInv, AppTyped
    <2> QED BY <1>5, <2>1, AppInv DEF GetData
<1>6. CASE Close
    <2>1. ~rs'.open BY <1>6 DEF Close, NoResultSet
    <2>2. OrderTyped' /\ AppTyped' /\ stream' \in Seq(Document)
        BY <1>6 DEF Close, IInv, OrderTyped, AppTyped
    <2> QED BY <2>1, <2>2 DEF IInv
<1>7. CASE Next
    BY <1>2, <1>3, <1>4, <1>5, <1>6, <1>7, FetchInv DEF Next
<1> QED BY <1>1, <1>7

\* Rows read ahead, rows recycled and the columns of an open result set: what
\* the three results below follow from.
THEOREM InvariantHolds == Spec => []IInv
BY InitInv, StepInv, PTL DEF Spec

\* No cell of a row set shows what another row, the pool or another column
\* left there, when its own document has an item for it.
THEOREM CellsAreOwn == Spec => []CellsOfOwnDocument
<1>1. IInv => CellsOfOwnDocument
    <2> SUFFICES ASSUME IInv, rs.open, NEW i \in DOMAIN rs.rowSet
                 PROVE  Shows(rs.rowSet[i], rs.names, rs.types)
        BY DEF CellsOfOwnDocument, Shows
    <2>1. rs.rowSet \in Seq(GoodRow(rs.names, rs.types)) BY DEF IInv, RowsShow
    <2>2. rs.rowSet[i] \in GoodRow(rs.names, rs.types) BY <2>1
    <2> QED BY <2>2 DEF GoodRow
<1> QED BY <1>1, InvariantHolds, PTL

\* The columns of a catalog function are in the order of its array and have
\* the types of their names, for every array and every answer of the service.
THEOREM ColumnsAreInOrder == Spec => []ColumnsInOrder
<1>1. IInv => ColumnsInOrder
    <2> SUFFICES ASSUME IInv, rs.open
                 PROVE  ColumnsInOrder
        BY DEF ColumnsInOrder
    <2> DEFINE new   == NewResultSet(rs.signature, order.names)
               typed == rs.types = [j \in DOMAIN rs.names |-> TypeOf[rs.names[j]]]
    <2>1. /\ rs.signature \in Signature /\ rs.names = new.names /\ rs.types = new.types
          /\ order.names \in Orders /\ (order.at = "null" => order = NoOrder)
        BY DEF IInv, Made, OrderTyped
    <2>2. ASSUME order.at = "frame", Len(order.names) = Len(rs.signature),
                 ToSet(Folded(order.names)) = ToSet(Folded(rs.signature))
          PROVE  Folded(rs.names) = Folded(order.names) /\ typed
        <3>1. CASE order.names # << >>
            <4>1. order.names \in CatalogOrder BY <2>1, <3>1 DEF Orders
            <4> QED BY <2>1, <2>2, <3>1, <4>1, CatalogColumns
        <3>2. CASE order.names = << >>
            <4>1. rs.signature \in Seq(Name) /\ Len(rs.signature) = 0
                BY <2>1, <2>2, <3>2, RowFetchAssumption
            <4>2. rs.signature = << >> BY <4>1
            <4> QED BY <2>1, <3>2, <4>2, PlainColumns
        <3> QED BY <3>1, <3>2
    <2>3. ASSUME order.at = "null"
          PROVE  rs.names = rs.signature /\ typed
        <3>1. order.names = << >> BY <2>1, <2>3 DEF NoOrder
        <3> QED BY <2>1, <3>1, PlainColumns
    <2> QED BY <2>2, <2>3 DEF ColumnsInOrder
<1> QED BY <1>1, InvariantHolds, PTL

\* After a fetch with columns bound the status array marks exactly the rows of
\* the row set, which are as many as the counter says, for every size.
THEOREM StatusIsRight == Spec => StatusTellsRows
<1> DEFINE Told(size) ==
        /\ app'.fetched = IF rs'.open THEN Len(rs'.rowSet) ELSE 0
        /\ \A i \in 1 .. size : app'.status[i] = IF i <= app'.fetched THEN "success" ELSE "no_row"
           Step == \A size \in RowSetSizes : Fetch(size, TRUE) \/ FetchNothing(size) => Told(size)
<1>1. IInv => Step
    <2> SUFFICES ASSUME IInv, NEW size \in RowSetSizes, Fetch(size, TRUE) \/ FetchNothing(size)
                 PROVE  Told(size)
        OBVIOUS
    <2>1. size \in Nat /\ AppTyped BY RowFetchAssumption DEF IInv
    <2> DEFINE old == StatusArray(size)
    <2>2. \A i \in 1 .. size : i \in DOMAIN old
        <3>1. /\ DOMAIN old = 1 .. Larger(size, Len(app.status))
              /\ Larger(size, Len(app.status)) \in Nat /\ Larger(size, Len(app.status)) >= size
            BY <2>1, StatusTyped
        <3> QED BY <2>1, <3>1
    <2> HIDE DEF old
    <2>3. CASE FetchNothing(size)
        <3>1. app'.status = StatusAfter(old, size, 0, FALSE) /\ app'.fetched = 0 /\ ~rs'.open
            BY <2>3 DEF FetchNothing, old
        <3>2. \A i \in 1 .. size : app'.status[i] = "no_row"
            BY <2>1, <2>2, <3>1 DEF StatusAfter
        <3>3. \A i \in 1 .. size : ~(i <= 0) BY <2>1
        <3> QED BY <3>1, <3>2, <3>3
    <2>4. CASE Fetch(size, TRUE)
        <3>1. /\ rs'.open /\ app'.fetched \in Nat /\ Len(rs'.rowSet) = app'.fetched
              /\ app'.status = StatusAfter(old, size, app'.fetched, TRUE)
            BY <2>4, FetchInv DEF old
        <3>2. \A i \in 1 .. size :
                  app'.status[i] = IF i <= app'.fetched THEN "success" ELSE "no_row"
            BY <2>1, <2>2, <3>1 DEF StatusAfter
        <3> QED BY <3>1, <3>2
    <2> QED BY <2>3, <2>4
<1> QED BY <1>1, InvariantHolds, PTL DEF StatusTellsRows
=============================================================================
