--------------------------- MODULE OneCall_proofs ---------------------------
(***************************************************************************)
(* What a single call computes: the queries of the catalog functions, for  *)
(* all arguments, sessions and objects; conversions between encodings, for *)
(* all texts, encodings and sizes; texts in buffers, for all lengths and   *)
(* sizes; dates and times, for all days, milliseconds and years; what the  *)
(* driver says of itself, for all attributes; and numbers, for all texts,  *)
(* precisions and scales.                                                  *)
(***************************************************************************)
EXTENDS Promises, Conversion, UnicodeConversion, SequenceTheorems,
        FiniteSetTheorems, WellFoundedInduction, TLAPS

-----------------------------------------------------------------------------
(* Clauses of catalog queries.                                             *)

IsSequence(s) == \E C : s \in Seq(C)

\* s may begin a clause, or may go on with one.
Leads(s)   == /\ IsSequence(s) /\ s # << >>
              /\ \A i \in DOMAIN s : s[i].closed = TRUE /\ s[i].and = (i > 1)
Follows(s) == IsSequence(s) /\ \A i \in DOMAIN s : s[i].closed = TRUE /\ s[i].and = TRUE

\* A sequence of a set is one of every larger set.
LEMMA Widened ==
    ASSUME NEW C, NEW D, NEW s \in Seq(C), C \subseteq D
    PROVE  s \in Seq(D)
  <1>1. \A i \in 1 .. Len(s) : s[i] \in D
    OBVIOUS
  <1> QED
    BY <1>1

\* Two sequences after one another.
LEMMA Joins ==
    ASSUME NEW s, NEW t, IsSequence(s), IsSequence(t)
    PROVE  /\ IsSequence(s \o t)
           /\ s # << >> => s \o t # << >>
           /\ \A i \in DOMAIN (s \o t) :
                 \/ i \in DOMAIN s /\ (s \o t)[i] = s[i]
                 \/ i \in Nat \ {0} /\ (s # << >> => i > 1) /\ i - Len(s) \in DOMAIN t /\ (s \o t)[i] = t[i - Len(s)]
           /\ Range(s \o t) = Range(s) \cup Range(t)
  <1>1. PICK C : s \in Seq(C)
    BY DEF IsSequence
  <1>2. PICK D : t \in Seq(D)
    BY DEF IsSequence
  <1>3. s \in Seq(C \cup D) /\ t \in Seq(C \cup D)
    BY <1>1, <1>2, Widened
  <1>4. s \o t \in Seq(C \cup D) /\ Range(s \o t) = Range(s) \cup Range(t)
    BY <1>3, ConcatProperties, RangeConcatenation
  <1>5. s # << >> => s \o t # << >>
    BY <1>3, ConcatProperties
  <1>6. \A i \in DOMAIN (s \o t) :
           \/ i \in DOMAIN s /\ (s \o t)[i] = s[i]
           \/ i \in Nat \ {0} /\ (s # << >> => i > 1) /\ i - Len(s) \in DOMAIN t /\ (s \o t)[i] = t[i - Len(s)]
    BY <1>3, ConcatProperties
  <1> QED
    BY <1>4, <1>5, <1>6 DEF IsSequence

\* What follows may be put after what leads or follows.
LEMMA FollowsOn ==
    ASSUME NEW s, NEW t, Follows(t)
    PROVE  /\ Leads(s) => Leads(s \o t)
           /\ Follows(s) => Follows(s \o t)
  <1>1. IsSequence(t)
    BY DEF Follows
  <1>2. ASSUME Leads(s)
        PROVE  Leads(s \o t)
    <2>1. IsSequence(s) /\ s # << >>
      BY <1>2 DEF Leads
    <2>2. ASSUME NEW i \in DOMAIN (s \o t)
          PROVE  (s \o t)[i].closed = TRUE /\ (s \o t)[i].and = (i > 1)
      <3>1. CASE i \in DOMAIN s /\ (s \o t)[i] = s[i]
        BY <3>1, <1>2 DEF Leads
      <3>2. CASE i > 1 /\ i - Len(s) \in DOMAIN t /\ (s \o t)[i] = t[i - Len(s)]
        <4>1. (s \o t)[i].closed = TRUE /\ (s \o t)[i].and = TRUE
          BY <3>2 DEF Follows
        <4>2. QED
          BY <3>2, <4>1
      <3>3. QED
        BY <2>1, <1>1, Joins, <3>1, <3>2
    <2>3. IsSequence(s \o t) /\ s \o t # << >>
      BY <2>1, <1>1, Joins
    <2>4. QED
      BY <2>2, <2>3 DEF Leads
  <1>3. ASSUME Follows(s)
        PROVE  Follows(s \o t)
    <2>1. IsSequence(s)
      BY <1>3 DEF Follows
    <2>2. ASSUME NEW i \in DOMAIN (s \o t)
          PROVE  (s \o t)[i].closed = TRUE /\ (s \o t)[i].and = TRUE
      <3>1. CASE i \in DOMAIN s /\ (s \o t)[i] = s[i]
        BY <3>1, <1>3 DEF Follows
      <3>2. CASE i - Len(s) \in DOMAIN t /\ (s \o t)[i] = t[i - Len(s)]
        BY <3>2 DEF Follows
      <3>3. QED
        BY <2>1, <1>1, Joins, <3>1, <3>2
    <2>3. QED
      BY <2>1, <2>2, <1>1, Joins DEF Follows
  <1> QED
    BY <1>2, <1>3

\* A condition without an AND leads,
LEMMA LeadsAlone ==
    ASSUME NEW k, NEW op, NEW v
    PROVE  Leads(<< Cond(FALSE, k, op, v) >>)
  <1> DEFINE c == Cond(FALSE, k, op, v)
  <1>1. c.and = FALSE /\ c.closed = TRUE
    BY Zenon DEF Cond
  <1> HIDE DEF c
  <1>2. << c >> \in Seq({c}) /\ << c >> # << >> /\ DOMAIN << c >> = {1} /\ << c >>[1] = c
    OBVIOUS
  <1>3. \A i \in {1} : (i > 1) = FALSE
    OBVIOUS
  <1>4. Leads(<< c >>)
    BY <1>1, <1>2, <1>3 DEF Leads, IsSequence
  <1> QED
    BY <1>4 DEF c

\* one with an AND follows,
LEMMA FollowsAlone ==
    ASSUME NEW k, NEW op, NEW v
    PROVE  Follows(<< Cond(TRUE, k, op, v) >>)
  <1> DEFINE c == Cond(TRUE, k, op, v)
  <1>1. c.and = TRUE /\ c.closed = TRUE
    BY Zenon DEF Cond
  <1> HIDE DEF c
  <1>2. << c >> \in Seq({c}) /\ DOMAIN << c >> = {1} /\ << c >>[1] = c
    OBVIOUS
  <1>3. Follows(<< c >>)
    BY <1>1, <1>2 DEF Follows, IsSequence
  <1> QED
    BY <1>3 DEF c

\* and so does none.
LEMMA NothingFollows == Follows(<< >>)
  <1>1. << >> \in Seq({})
    OBVIOUS
  <1> QED
    BY <1>1 DEF Follows, IsSequence

\* A part that may be left out follows if it does when it is there.
LEMMA WhenFollows ==
    ASSUME NEW b, NEW conds, Follows(conds)
    PROVE  Follows(When(b, conds))
  BY NothingFollows DEF When

\* Either condition on a component follows.
LEMMA PatternFollows ==
    ASSUME NEW b, NEW v, NEW given, NEW k, NEW op, NEW k2, NEW op2, NEW v2
    PROVE  Follows(PatternOr(b, v, given, << Cond(TRUE, k, op, v) >>, << Cond(TRUE, k2, op2, v2) >>))
  BY FollowsAlone, WhenFollows DEF PatternOr

\* Two conditions follow if both do.
LEMMA PairFollows ==
    ASSUME NEW a, NEW b, Follows(<< a >>), Follows(<< b >>)
    PROVE  Follows(<< a, b >>)
  <1>1. << a, b >> \in Seq({a, b}) /\ DOMAIN << a, b >> = {1, 2} /\ << a, b >>[1] = a /\ << a, b >>[2] = b
    OBVIOUS
  <1>2. 1 \in DOMAIN << a >> /\ << a >>[1] = a /\ 1 \in DOMAIN << b >> /\ << b >>[1] = b
    OBVIOUS
  <1>3. a.closed = TRUE /\ a.and = TRUE /\ b.closed = TRUE /\ b.and = TRUE
    BY <1>2 DEF Follows
  <1> QED
    BY <1>1, <1>3 DEF Follows, IsSequence

\* The parts of SQLTables' clause follow its own condition: the literal without
\* an opening quote is for ODBC 2 and SQL_ATTR_METADATA_ID.
LEMMA TablesFollow ==
    ASSUME NEW s, NEW args, NEW types, ~s.metadataId, ~s.odbc2
    PROVE  Follows(TablesWhere(s, args, types))
  <1> DEFINE cat == Value(s, args, "cat")
             p1  == PatternOr(~s.metadataId /\ ~s.odbc2, cat, Given(args, "cat"),
                       << Cond(TRUE, "cat", "like", cat) >>,
                       << [Cond(TRUE, "cat", "eq", cat) EXCEPT !.closed = FALSE] >>)
             p2  == PatternOr(~s.metadataId, Value(s, args, "schem"), Given(args, "schem"),
                       << Cond(TRUE, "schem", "like", Value(s, args, "schem")) >>,
                       << Cond(TRUE, "schem", "eq", Value(s, args, "schem")) >>)
             p3  == PatternOr(~s.metadataId, Value(s, args, "name"), Given(args, "name"),
                       << Cond(TRUE, "name", "like", Value(s, args, "name")) >>,
                       << Cond(TRUE, "name", "eq", Value(s, args, "name")) >>)
             two == << Cond(TRUE, "cat", "eq", s.cat1), Cond(TRUE, "schem", "eq", s.cat2) >>
             w1  == When(s.twoPart, two)
             w2  == When(types # {} /\ types \cap MatchAnything = {}, << Cond(TRUE, "type", "in", types) >>)
  <1>1. TablesWhere(s, args, types) = w1 \o p1 \o p2 \o p3 \o w2
    BY Zenon DEF TablesWhere
  <1>2. Follows(p1)
    <2>1. p1 = When(cat \notin MatchAnything, << Cond(TRUE, "cat", "like", cat) >>)
      BY DEF PatternOr
    <2>2. QED
      BY <2>1, FollowsAlone, WhenFollows
  <1>3. Follows(p2) /\ Follows(p3) /\ Follows(w2)
    BY PatternFollows, FollowsAlone, WhenFollows
  <1>4. Follows(w1)
    BY FollowsAlone, PairFollows, WhenFollows
  <1> HIDE DEF p1, p2, p3, w1, w2
  <1> QED
    BY <1>1, <1>2, <1>3, <1>4, FollowsOn

\* The parts of SQLColumns' clause follow its own condition, whatever is asked for.
LEMMA ColumnsFollow ==
    ASSUME NEW s, NEW args
    PROVE  Follows(ColumnsWhere(s, args))
  <1> DEFINE v(k)  == Value(s, args, k)
             on(k) == PatternOr(~s.metadataId, v(k), Given(args, k),
                         << Cond(TRUE, k, "like", v(k)) >>, << Cond(TRUE, k, "eq", v(k)) >>)
  <1>1. ASSUME NEW k
        PROVE  Follows(on(k))
    BY PatternFollows
  <1>2. ColumnsWhere(s, args) =
          on("cat") \o When(s.metadataId \/ SeesSchemas(s), on("schem")) \o on("name") \o on("column")
    BY DEF ColumnsWhere
  <1> HIDE DEF on
  <1> QED
    BY <1>1, <1>2, WhenFollows, FollowsOn

\* The condition on a catalog that is named comes first and has no AND.
LEMMA PrimaryKeysLead ==
    ASSUME NEW s, NEW args, ~s.metadataId, Given(args, "cat"), args["cat"] \notin MatchAnything
    PROVE  Leads(PrimaryKeysWhere(s, args))
  <1> DEFINE v(k)       == Value(s, args, k)
             on(and, k) == PatternOr(~s.metadataId, v(k), Given(args, k),
                              << Cond(and, k, "eq", v(k)) >>, << Cond(and, k, "ieq", v(k)) >>)
  <1>1. ASSUME NEW k
        PROVE  Follows(on(TRUE, k))
    BY PatternFollows
  <1>2. on(FALSE, "cat") = << Cond(FALSE, "cat", "eq", v("cat")) >>
    BY DEF PatternOr, When, Value
  <1>3. Leads(on(FALSE, "cat"))
    BY <1>2, LeadsAlone
  <1>4. PrimaryKeysWhere(s, args) =
          on(FALSE, "cat") \o When(SeesSchemas(s), on(TRUE, "schem")) \o on(TRUE, "name")
    BY DEF PrimaryKeysWhere
  <1> HIDE DEF on
  <1> QED
    BY <1>1, <1>3, <1>4, WhenFollows, FollowsOn

\* So it does for SQLProcedureColumns,
LEMMA ProcedureColumnsLead ==
    ASSUME NEW s, NEW args, ~s.metadataId, Given(args, "cat"), args["cat"] \notin MatchAnything
    PROVE  Leads(ProcedureColumnsWhere(s, args))
  <1> DEFINE v(k)  == Value(s, args, k)
             on(k) == PatternOr(~s.metadataId, v(k), Given(args, k),
                         << Cond(TRUE, k, "like", v(k)) >>, << Cond(TRUE, k, "ilike", v(k)) >>)
             cat   == PatternOr(~s.metadataId, v("cat"), Given(args, "cat"),
                         << Cond(FALSE, "cat", "eq", v("cat")) >>, << Cond(FALSE, "cat", "ieq", v("cat")) >>)
  <1>1. ASSUME NEW k
        PROVE  Follows(on(k))
    BY PatternFollows
  <1>2. cat = << Cond(FALSE, "cat", "eq", v("cat")) >>
    BY DEF PatternOr, When, Value
  <1>3. Leads(cat)
    BY <1>2, LeadsAlone
  <1>4. ProcedureColumnsWhere(s, args) = cat \o on("schem") \o on("name") \o on("column")
    BY DEF ProcedureColumnsWhere
  <1> HIDE DEF on, cat
  <1> QED
    BY <1>1, <1>3, <1>4, FollowsOn

\* for SQLProcedures, which takes the catalog for an identifier,
LEMMA ProceduresLead ==
    ASSUME NEW s, NEW args, ~s.metadataId, Given(args, "cat")
    PROVE  Leads(ProceduresWhere(s, args))
  <1> DEFINE v(k)  == Value(s, args, k)
             on(k) == PatternOr(s.metadataId, v(k), Given(args, k),
                         << Cond(TRUE, k, "like", v(k)) >>, << Cond(TRUE, k, "ilike", v(k)) >>)
             cat   == PatternOr(s.metadataId, v("cat"), Given(args, "cat"),
                         << Cond(FALSE, "cat", "eq", v("cat")) >>, << Cond(FALSE, "cat", "ieq", v("cat")) >>)
  <1>1. ASSUME NEW k
        PROVE  Follows(on(k))
    BY PatternFollows
  <1>2. cat = << Cond(FALSE, "cat", "ieq", v("cat")) >>
    BY DEF PatternOr, When
  <1>3. Leads(cat)
    BY <1>2, LeadsAlone
  <1>4. ProceduresWhere(s, args) = cat \o on("schem") \o on("name")
    BY DEF ProceduresWhere
  <1> HIDE DEF on, cat
  <1> QED
    BY <1>1, <1>3, <1>4, FollowsOn

\* and for SQLForeignKeys, if the table that is named has a named catalog.
LEMMA ForeignKeysLead ==
    ASSUME NEW s, NEW args,
           IF Given(args, "fkname") THEN Given(args, "fkcat") ELSE Given(args, "pkcat") /\ Given(args, "pkname")
    PROVE  Leads(ForeignKeysWhere(s, args))
  <1> DEFINE on(and, k) == When(Given(args, k), << Cond(and, k, "eq", args[k]) >>)
             fk         == on(FALSE, "fkcat") \o on(TRUE, "fkschem") \o on(TRUE, "fkname")
             pk(and)    == on(and, "pkcat") \o on(TRUE, "pkschem") \o on(TRUE, "pkname")
  <1>1. ASSUME NEW k
        PROVE  Follows(on(TRUE, k)) /\ (Given(args, k) => Leads(on(FALSE, k)))
    BY FollowsAlone, WhenFollows, LeadsAlone DEF When
  <1>2. ForeignKeysWhere(s, args) =
          CASE Given(args, "pkname") /\ Given(args, "fkname") -> fk \o pk(TRUE)
            [] Given(args, "pkname") /\ ~Given(args, "fkname") -> pk(FALSE)
            [] ~Given(args, "pkname") /\ Given(args, "fkname") -> fk
            [] OTHER -> << >>
    BY DEF ForeignKeysWhere
  <1> HIDE DEF on
  <1>3. Follows(pk(TRUE))
    BY <1>1, FollowsOn
  <1>4. Given(args, "fkname") => Leads(fk)
    BY <1>1, FollowsOn
  <1>5. Given(args, "pkcat") => Leads(pk(FALSE))
    BY <1>1, FollowsOn
  <1> HIDE DEF fk, pk
  <1> QED
    BY <1>2, <1>3, <1>4, <1>5, FollowsOn

\* What makes a clause the service can parse.
LEMMA ClausesParse ==
    ASSUME NEW q
    PROVE  /\ q.based = TRUE /\ Follows(q.conds) => Parses(q)
           /\ q.based = FALSE /\ Leads(q.conds) => Parses(q)
  <1>1. ASSUME q.based = TRUE, Follows(q.conds)
        PROVE  Parses(q)
    <2>1. \A i \in DOMAIN q.conds : q.conds[i].closed = TRUE /\ q.conds[i].and = TRUE
      BY <1>1 DEF Follows
    <2> QED
      BY <1>1, <2>1, Zenon DEF Parses
  <1>2. ASSUME q.based = FALSE, Leads(q.conds)
        PROVE  Parses(q)
    <2>1. \A i \in DOMAIN q.conds : q.conds[i].closed = TRUE /\ q.conds[i].and = (i > 1)
      BY <1>2 DEF Leads
    <2>2. q.conds # << >>
      BY <1>2 DEF Leads
    <2> QED
      BY <1>2, <2>1, <2>2, Zenon DEF Parses
  <1> QED
    BY <1>1, <1>2

-----------------------------------------------------------------------------

\* What is known of a call of a catalog function.
LEMMA CallAnswered ==
    ASSUME NEW f, NEW s, NEW args, NEW types, Ask(f, s, args, types)
    PROVE  /\ call'.op = f /\ call'.s = s /\ call'.args = args /\ call'.types = types
           /\ call'.parses <=> \/ f = "SQLTables" /\ TablesKind(s, args, AnyType(types)) # "tables"
                              \/ Parses(Query(f, s, args, types))
           /\ call'.parses => call'.listed = Listed(f, s, args, types)
  BY Zenon DEF Ask

\* The queries of all the functions, with the catalog named where it has to be.
LEMMA OrdinaryParse ==
    ASSUME NEW f \in DOMAIN Components, NEW s, NEW args, NEW types, ~s.metadataId, ~s.odbc2,
           f # "SQLForeignKeys" => Given(args, "cat") /\ args["cat"] \notin MatchAnything,
           f = "SQLForeignKeys" =>
              IF Given(args, "fkname") THEN Given(args, "fkcat") ELSE Given(args, "pkcat") /\ Given(args, "pkname")
    PROVE  Parses(Query(f, s, args, types))
  <1> DEFINE q == Query(f, s, args, types)
  <1>1. CASE f = "SQLTables"
    <2>1. q.based = TRUE /\ q.conds = TablesWhere(s, args, types)
      BY <1>1 DEF Query
    <2> QED
      BY <2>1, TablesFollow, ClausesParse
  <1>2. CASE f = "SQLColumns"
    <2>1. q.based = TRUE /\ q.conds = ColumnsWhere(s, args)
      BY <1>2 DEF Query
    <2> QED
      BY <2>1, ColumnsFollow, ClausesParse
  <1>3. CASE f = "SQLPrimaryKeys"
    <2>1. q.based = FALSE /\ q.conds = PrimaryKeysWhere(s, args)
      BY <1>3 DEF Query
    <2> QED
      BY <1>3, <2>1, PrimaryKeysLead, ClausesParse
  <1>4. CASE f = "SQLForeignKeys"
    <2>1. q.based = FALSE /\ q.conds = ForeignKeysWhere(s, args)
      BY <1>4 DEF Query
    <2> QED
      BY <1>4, <2>1, ForeignKeysLead, ClausesParse
  <1>5. CASE f = "SQLProcedureColumns"
    <2>1. q.based = FALSE /\ q.conds = ProcedureColumnsWhere(s, args)
      BY <1>5 DEF Query
    <2> QED
      BY <1>5, <2>1, ProcedureColumnsLead, ClausesParse
  <1>6. CASE f = "SQLProcedures"
    <2>1. q.based = FALSE /\ q.conds = ProceduresWhere(s, args)
      BY <1>6 DEF Query
    <2> QED
      BY <1>6, <2>1, ProceduresLead, ClausesParse
  <1> QED
    BY <1>1, <1>2, <1>3, <1>4, <1>5, <1>6 DEF Components

\* A call that sends a query is one of these.
LEMMA Calls ==
    ASSUME CatalogCall, IsQuery'
    PROVE  \E f \in DOMAIN Components, s \in Session :
             \E args \in [Components[f] -> Argument \cup {"", "a", "%", Absent}], types \in TypeLists :
                /\ Ask(f, s, args, types)
                /\ f # "SQLTables" => types = {"%"}
                /\ f # "SQLForeignKeys" => args \in [Components[f] -> Argument \cup {"", Absent}]
  <1>1. ASSUME NEW id, AskFunctions(id)
        PROVE  FALSE
    BY <1>1 DEF AskFunctions, IsQuery, Components
  <1>2. ASSUME NEW s, NEW info, AskInfo(s, info)
        PROVE  FALSE
    BY <1>2 DEF AskInfo, IsQuery, Components
  <1>3. ASSUME NEW t, NEW n, NEW m, Describe(t, n, m)
        PROVE  FALSE
    BY <1>3 DEF Describe, IsQuery, Components
  <1>4. PICK s \in Session :
            \/ \E f \in DOMAIN Components \ {"SQLTables", "SQLForeignKeys"} :
                 \E args \in [Components[f] -> Argument \cup {Absent}] : Ask(f, s, args, {"%"})
            \/ \E args \in [Components["SQLForeignKeys"] -> {"a", "%", Absent}] :
                 Ask("SQLForeignKeys", s, args, {"%"})
            \/ \E args \in [Components["SQLTables"] -> Argument \cup {"", Absent}], types \in TypeLists :
                 Ask("SQLTables", s, args, types)
    BY <1>1, <1>2, <1>3, Zenon DEF CatalogCall
  <1>5. {"%"} \in TypeLists /\ "SQLTables" \in DOMAIN Components /\ "SQLForeignKeys" \in DOMAIN Components
    BY DEF TypeLists, Components
  <1>6. CASE \E f \in DOMAIN Components \ {"SQLTables", "SQLForeignKeys"} :
               \E args \in [Components[f] -> Argument \cup {Absent}] : Ask(f, s, args, {"%"})
    <2>1. PICK f \in DOMAIN Components \ {"SQLTables", "SQLForeignKeys"} :
             \E args \in [Components[f] -> Argument \cup {Absent}] : Ask(f, s, args, {"%"})
      BY <1>6
    <2>2. PICK args \in [Components[f] -> Argument \cup {Absent}] : Ask(f, s, args, {"%"})
      BY <2>1
    <2>3. /\ args \in [Components[f] -> Argument \cup {"", "a", "%", Absent}]
          /\ args \in [Components[f] -> Argument \cup {"", Absent}]
      OBVIOUS
    <2> QED
      BY <2>2, <2>3, <1>5
  <1>7. CASE \E args \in [Components["SQLForeignKeys"] -> {"a", "%", Absent}] :
               Ask("SQLForeignKeys", s, args, {"%"})
    BY <1>5, <1>7
  <1>8. CASE \E args \in [Components["SQLTables"] -> Argument \cup {"", Absent}], types \in TypeLists :
               Ask("SQLTables", s, args, types)
    BY <1>5, <1>8
  <1> QED
    BY <1>4, <1>6, <1>7, <1>8

\* Catalog queries can be parsed.  An application of ODBC 3 that takes
\* arguments for patterns and names the catalog gets from every catalog
\* function a query with an AND between conditions and nowhere else, with
\* closed literals and with a condition after WHERE.
THEOREM QueriesParse == CatalogSpec => []OrdinaryQueriesParse
  <1>1. NotCalled => OrdinaryQueriesParse
    BY DEF NotCalled, Start, OrdinaryQueriesParse, IsQuery, Components
  <1>2. ASSUME CatalogCall
        PROVE  OrdinaryQueriesParse'
    <2>1. SUFFICES ASSUME IsQuery', ~call'.s.metadataId, ~call'.s.odbc2
                   PROVE  LET named(k) == Given(call'.args, k) /\ call'.args[k] \notin MatchAnything
                              catalogs == IF call'.op # "SQLForeignKeys" THEN {"cat"}
                                          ELSE IF Given(call'.args, "fkname") THEN {"fkcat"} ELSE {"pkcat", "pkname"}
                          IN  (\A k \in catalogs : named(k)) => call'.parses
      BY Zenon DEF OrdinaryQueriesParse
    <2>2. PICK f \in DOMAIN Components, s \in Session :
             \E args \in [Components[f] -> Argument \cup {"", "a", "%", Absent}], types \in TypeLists : Ask(f, s, args, types)
      BY <1>2, <2>1, Calls
    <2>3. PICK args, types : Ask(f, s, args, types)
      BY <2>2
    <2>4. ~s.metadataId /\ ~s.odbc2
      BY <2>1, <2>3, CallAnswered
    <2>5. Parses(Query(f, s, args, types)) => call'.parses
      BY <2>3, CallAnswered
    <2>6. CASE f # "SQLForeignKeys"
      BY <2>3, <2>4, <2>5, <2>6, CallAnswered, OrdinaryParse
    <2>7. CASE f = "SQLForeignKeys" /\ Given(args, "fkname")
      BY <2>3, <2>4, <2>5, <2>7, CallAnswered, OrdinaryParse
    <2>8. CASE f = "SQLForeignKeys" /\ ~Given(args, "fkname")
      BY <2>3, <2>4, <2>5, <2>8, CallAnswered, OrdinaryParse
    <2> QED
      BY <2>6, <2>7, <2>8
  <1>3. OrdinaryQueriesParse /\ UNCHANGED call => OrdinaryQueriesParse'
    BY Zenon DEF OrdinaryQueriesParse, IsQuery
  <1> QED
    BY <1>1, <1>2, <1>3, PTL DEF CatalogSpec

-----------------------------------------------------------------------------
(* What an object has to meet for a clause to hold of it.                   *)

Meets(conds, row) == \A i \in DOMAIN conds : Holds(conds[i], row)

\* A condition with these parts, with or without an AND before it, closed or not.
Matches(row, k, op, v) ==
    /\ row[k] # Null
    /\ CASE op = "eq"    -> row[k] = v
         [] op = "ieq"   -> Lower[row[k]] = Lower[v]
         [] op = "like"  -> row[k] \in Like[v]
         [] op = "ilike" -> Lower[row[k]] \in Like[Lower[v]]
         [] op = "in"    -> \E t \in v : row[k] \in Like[t]

\* A clause is met if its parts are, in whatever order.
LEMMA MeetsBoth ==
    ASSUME NEW s, NEW t, NEW row, IsSequence(s), IsSequence(t)
    PROVE  /\ IsSequence(s \o t)
           /\ Meets(s \o t, row) <=> Meets(s, row) /\ Meets(t, row)
  <1>1. IsSequence(s \o t) /\ Range(s \o t) = Range(s) \cup Range(t)
    BY Joins
  <1>2. ASSUME NEW q
        PROVE  Meets(q, row) <=> \A c \in Range(q) : Holds(c, row)
    BY DEF Meets, Range
  <1>3. Meets(s \o t, row) <=> \A c \in Range(s) \cup Range(t) : Holds(c, row)
    BY <1>1, <1>2
  <1>4. Meets(s, row) <=> \A c \in Range(s) : Holds(c, row)
    BY <1>2
  <1>5. Meets(t, row) <=> \A c \in Range(t) : Holds(c, row)
    BY <1>2
  <1> QED
    BY <1>1, <1>3, <1>4, <1>5

\* Three parts,
LEMMA MeetsThree ==
    ASSUME NEW a, NEW b, NEW c, NEW row, IsSequence(a), IsSequence(b), IsSequence(c)
    PROVE  /\ IsSequence(a \o b \o c)
           /\ Meets(a \o b \o c, row) <=> Meets(a, row) /\ Meets(b, row) /\ Meets(c, row)
  <1>1. IsSequence(a \o b) /\ (Meets(a \o b, row) <=> Meets(a, row) /\ Meets(b, row))
    BY MeetsBoth
  <1>2. IsSequence((a \o b) \o c) /\ (Meets((a \o b) \o c, row) <=> Meets(a \o b, row) /\ Meets(c, row))
    BY <1>1, MeetsBoth
  <1> QED
    BY <1>1, <1>2

\* and four.
LEMMA MeetsFour ==
    ASSUME NEW a, NEW b, NEW c, NEW d, NEW row, IsSequence(a), IsSequence(b), IsSequence(c), IsSequence(d)
    PROVE  /\ IsSequence(a \o b \o c \o d)
           /\ Meets(a \o b \o c \o d, row) <=> Meets(a, row) /\ Meets(b, row) /\ Meets(c, row) /\ Meets(d, row)
  <1> DEFINE abc == a \o b \o c
  <1>1. IsSequence(abc) /\ (Meets(abc, row) <=> Meets(a, row) /\ Meets(b, row) /\ Meets(c, row))
    BY MeetsThree
  <1> HIDE DEF abc
  <1>2. IsSequence(abc \o d) /\ (Meets(abc \o d, row) <=> Meets(abc, row) /\ Meets(d, row))
    BY <1>1, MeetsBoth
  <1> QED
    BY <1>1, <1>2 DEF abc

\* A condition is met by what matches its parts,
LEMMA MeetsOne ==
    ASSUME NEW c, NEW k, NEW op, NEW v, NEW row,
           c.col = k, c.op = op, c.value = v
    PROVE  IsSequence(<< c >>) /\ (Meets(<< c >>, row) <=> Matches(row, k, op, v))
  <1>1. << c >> \in Seq({c}) /\ DOMAIN << c >> = {1} /\ << c >>[1] = c
    OBVIOUS
  <1>2. Holds(c, row) <=> Matches(row, k, op, v)
    BY DEF Holds, Matches
  <1> HIDE DEF Matches
  <1> QED
    BY <1>1, <1>2 DEF IsSequence, Meets

\* as those are that the queries are made of.
LEMMA MeetsCond ==
    ASSUME NEW and, NEW k, NEW op, NEW v, NEW row
    PROVE  /\ IsSequence(<< Cond(and, k, op, v) >>)
           /\ Meets(<< Cond(and, k, op, v) >>, row) <=> Matches(row, k, op, v)
  <1> DEFINE c == Cond(and, k, op, v)
  <1>1. c.col = k /\ c.op = op /\ c.value = v
    BY Zenon DEF Cond
  <1> QED
    BY <1>1, MeetsOne

\* Two conditions are met if each is.
LEMMA MeetsPair ==
    ASSUME NEW a, NEW b, NEW row
    PROVE  /\ IsSequence(<< a, b >>)
           /\ Meets(<< a, b >>, row) <=> Meets(<< a >>, row) /\ Meets(<< b >>, row)
  <1>1. << a, b >> \in Seq({a, b}) /\ DOMAIN << a, b >> = {1, 2} /\ << a, b >>[1] = a /\ << a, b >>[2] = b
    OBVIOUS
  <1>2. DOMAIN << a >> = {1} /\ << a >>[1] = a /\ DOMAIN << b >> = {1} /\ << b >>[1] = b
    OBVIOUS
  <1> QED
    BY <1>1, <1>2 DEF IsSequence, Meets

\* No condition is met by all.
LEMMA MeetsNothing ==
    ASSUME NEW row
    PROVE  IsSequence(<< >>) /\ Meets(<< >>, row)
  <1>1. << >> \in Seq({})
    OBVIOUS
  <1> QED
    BY <1>1 DEF IsSequence, Meets

\* A part that may be left out is met if it is left out or met.
LEMMA MeetsWhen ==
    ASSUME NEW b, NEW conds, NEW row, IsSequence(conds)
    PROVE  IsSequence(When(b, conds)) /\ (Meets(When(b, conds), row) <=> (b => Meets(conds, row)))
  BY MeetsNothing DEF When

\* One of two conditions on a component, or none.
LEMMA MeetsPattern ==
    ASSUME NEW b, NEW v, NEW given, NEW and, NEW k, NEW op1, NEW op2, NEW row
    PROVE  LET s == PatternOr(b, v, given, << Cond(and, k, op1, v) >>, << Cond(and, k, op2, v) >>)
           IN  /\ IsSequence(s)
               /\ Meets(s, row) <=> IF b THEN v \notin MatchAnything => Matches(row, k, op1, v)
                                    ELSE given => Matches(row, k, op2, v)
  <1>1. CASE b
    BY <1>1, MeetsCond, MeetsWhen DEF PatternOr
  <1>2. CASE ~b
    BY <1>2, MeetsCond, MeetsWhen DEF PatternOr
  <1> QED
    BY <1>1, <1>2

\* What the two conditions on a component ask of it.
Choice(row, s, args, b, k, op1, op2) ==
    LET v == Value(s, args, k)
    IN  IF b THEN v \notin MatchAnything => Matches(row, k, op1, v)
        ELSE Given(args, k) => Matches(row, k, op2, v)

\* What the clause of each function asks of an object.
LEMMA TablesMeet ==
    ASSUME NEW s, NEW args, NEW types, NEW row
    PROVE  Meets(TablesWhere(s, args, types), row) <=>
             /\ s.twoPart => Matches(row, "cat", "eq", s.cat1) /\ Matches(row, "schem", "eq", s.cat2)
             /\ Choice(row, s, args, ~s.metadataId /\ ~s.odbc2, "cat", "like", "eq")
             /\ Choice(row, s, args, ~s.metadataId, "schem", "like", "eq")
             /\ Choice(row, s, args, ~s.metadataId, "name", "like", "eq")
             /\ types # {} /\ types \cap MatchAnything = {} => Matches(row, "type", "in", types)
  <1> DEFINE v(k) == Value(s, args, k)
             exact == [Cond(TRUE, "cat", "eq", v("cat")) EXCEPT !.closed = FALSE]
             p1   == PatternOr(~s.metadataId /\ ~s.odbc2, v("cat"), Given(args, "cat"),
                        << Cond(TRUE, "cat", "like", v("cat")) >>, << exact >>)
             p(k) == PatternOr(~s.metadataId, v(k), Given(args, k),
                        << Cond(TRUE, k, "like", v(k)) >>, << Cond(TRUE, k, "eq", v(k)) >>)
             c1   == Cond(TRUE, "cat", "eq", s.cat1)
             c2   == Cond(TRUE, "schem", "eq", s.cat2)
             w1   == When(s.twoPart, << c1, c2 >>)
             w2   == When(types # {} /\ types \cap MatchAnything = {}, << Cond(TRUE, "type", "in", types) >>)
  <1>1. TablesWhere(s, args, types) = w1 \o p1 \o p("schem") \o p("name") \o w2
    BY Zenon DEF TablesWhere
  <1>2. IsSequence(p1) /\ (Meets(p1, row) <=> Choice(row, s, args, ~s.metadataId /\ ~s.odbc2, "cat", "like", "eq"))
    <2>1. exact.col = "cat" /\ exact.op = "eq" /\ exact.value = v("cat")
      BY DEF Cond
    <2>2. IsSequence(<< exact >>) /\ (Meets(<< exact >>, row) <=> Matches(row, "cat", "eq", v("cat")))
      BY <2>1, MeetsOne
    <2>3. CASE ~s.metadataId /\ ~s.odbc2
      BY <2>3, MeetsCond, MeetsWhen DEF PatternOr, Choice
    <2>4. CASE ~(~s.metadataId /\ ~s.odbc2)
      <3> HIDE DEF exact
      <3> QED
        BY <2>2, <2>4, MeetsWhen DEF PatternOr, Choice
    <2> QED
      BY <2>3, <2>4
  <1>3. ASSUME NEW k
        PROVE  IsSequence(p(k)) /\ (Meets(p(k), row) <=> Choice(row, s, args, ~s.metadataId, k, "like", "eq"))
    BY MeetsPattern DEF Choice
  <1>4. IsSequence(w1) /\ (Meets(w1, row) <=> (s.twoPart =>
            Matches(row, "cat", "eq", s.cat1) /\ Matches(row, "schem", "eq", s.cat2)))
    <2>1. IsSequence(<< c1 >>) /\ (Meets(<< c1 >>, row) <=> Matches(row, "cat", "eq", s.cat1))
      BY MeetsCond
    <2>2. IsSequence(<< c2 >>) /\ (Meets(<< c2 >>, row) <=> Matches(row, "schem", "eq", s.cat2))
      BY MeetsCond
    <2> HIDE DEF c1, c2
    <2>3. IsSequence(<< c1, c2 >>) /\ (Meets(<< c1, c2 >>, row) <=> Meets(<< c1 >>, row) /\ Meets(<< c2 >>, row))
      BY MeetsPair
    <2> QED
      BY <2>1, <2>2, <2>3, MeetsWhen
  <1>5. IsSequence(w2) /\ (Meets(w2, row) <=>
            (types # {} /\ types \cap MatchAnything = {} => Matches(row, "type", "in", types)))
    BY MeetsCond, MeetsWhen
  <1> HIDE DEF p1, p, w1, w2
  <1> DEFINE front == w1 \o p1 \o p("schem") \o p("name")
  <1>6. IsSequence(front) /\ (Meets(front, row) <=>
            Meets(w1, row) /\ Meets(p1, row) /\ Meets(p("schem"), row) /\ Meets(p("name"), row))
    BY <1>2, <1>3, <1>4, MeetsFour
  <1> HIDE DEF front
  <1>7. Meets(front \o w2, row) <=> Meets(front, row) /\ Meets(w2, row)
    BY <1>5, <1>6, MeetsBoth
  <1>8. TablesWhere(s, args, types) = front \o w2
    BY <1>1 DEF front
  <1> QED
    BY <1>2, <1>3, <1>4, <1>5, <1>6, <1>7, <1>8

\* What the clauses of SQLColumns ask of an object.
LEMMA ColumnsMeet ==
    ASSUME NEW s, NEW args, NEW row
    PROVE  Meets(ColumnsWhere(s, args), row) <=>
             /\ Choice(row, s, args, ~s.metadataId, "cat", "like", "eq")
             /\ s.metadataId \/ SeesSchemas(s) => Choice(row, s, args, ~s.metadataId, "schem", "like", "eq")
             /\ Choice(row, s, args, ~s.metadataId, "name", "like", "eq")
             /\ Choice(row, s, args, ~s.metadataId, "column", "like", "eq")
  <1> DEFINE v(k)  == Value(s, args, k)
             on(k) == PatternOr(~s.metadataId, v(k), Given(args, k),
                         << Cond(TRUE, k, "like", v(k)) >>, << Cond(TRUE, k, "eq", v(k)) >>)
  <1>1. ASSUME NEW k
        PROVE  IsSequence(on(k)) /\ (Meets(on(k), row) <=> Choice(row, s, args, ~s.metadataId, k, "like", "eq"))
    BY MeetsPattern DEF Choice
  <1>2. ColumnsWhere(s, args) =
          on("cat") \o When(s.metadataId \/ SeesSchemas(s), on("schem")) \o on("name") \o on("column")
    BY DEF ColumnsWhere
  <1> HIDE DEF on
  <1> DEFINE schem == When(s.metadataId \/ SeesSchemas(s), on("schem"))
  <1>3. IsSequence(schem) /\ (Meets(schem, row) <=> (s.metadataId \/ SeesSchemas(s) => Meets(on("schem"), row)))
    BY <1>1, MeetsWhen
  <1> HIDE DEF schem
  <1>4. Meets(on("cat") \o schem \o on("name") \o on("column"), row) <=>
          Meets(on("cat"), row) /\ Meets(schem, row) /\ Meets(on("name"), row) /\ Meets(on("column"), row)
    BY <1>1, <1>3, MeetsFour
  <1> QED
    BY <1>1, <1>2, <1>3, <1>4 DEF schem

\* What the clauses of SQLPrimaryKeys ask of an object.
LEMMA PrimaryKeysMeet ==
    ASSUME NEW s, NEW args, NEW row
    PROVE  Meets(PrimaryKeysWhere(s, args), row) <=>
             /\ Choice(row, s, args, ~s.metadataId, "cat", "eq", "ieq")
             /\ SeesSchemas(s) => Choice(row, s, args, ~s.metadataId, "schem", "eq", "ieq")
             /\ Choice(row, s, args, ~s.metadataId, "name", "eq", "ieq")
  <1> DEFINE v(k)       == Value(s, args, k)
             on(and, k) == PatternOr(~s.metadataId, v(k), Given(args, k),
                              << Cond(and, k, "eq", v(k)) >>, << Cond(and, k, "ieq", v(k)) >>)
  <1>1. ASSUME NEW and, NEW k
        PROVE  IsSequence(on(and, k)) /\ (Meets(on(and, k), row) <=> Choice(row, s, args, ~s.metadataId, k, "eq", "ieq"))
    BY MeetsPattern DEF Choice
  <1>2. PrimaryKeysWhere(s, args) =
          on(FALSE, "cat") \o When(SeesSchemas(s), on(TRUE, "schem")) \o on(TRUE, "name")
    BY DEF PrimaryKeysWhere
  <1> HIDE DEF on
  <1> DEFINE schem == When(SeesSchemas(s), on(TRUE, "schem"))
  <1>3. IsSequence(schem) /\ (Meets(schem, row) <=> (SeesSchemas(s) => Meets(on(TRUE, "schem"), row)))
    BY <1>1, MeetsWhen
  <1> HIDE DEF schem
  <1>4. Meets(on(FALSE, "cat") \o schem \o on(TRUE, "name"), row) <=>
          Meets(on(FALSE, "cat"), row) /\ Meets(schem, row) /\ Meets(on(TRUE, "name"), row)
    BY <1>1, <1>3, MeetsThree
  <1> QED
    BY <1>1, <1>2, <1>3, <1>4 DEF schem

\* What the clauses of SQLProcedureColumns ask of an object.
LEMMA ProcedureColumnsMeet ==
    ASSUME NEW s, NEW args, NEW row
    PROVE  Meets(ProcedureColumnsWhere(s, args), row) <=>
             /\ Choice(row, s, args, ~s.metadataId, "cat", "eq", "ieq")
             /\ \A k \in {"schem", "name", "column"} : Choice(row, s, args, ~s.metadataId, k, "like", "ilike")
  <1> DEFINE v(k)  == Value(s, args, k)
             on(k) == PatternOr(~s.metadataId, v(k), Given(args, k),
                         << Cond(TRUE, k, "like", v(k)) >>, << Cond(TRUE, k, "ilike", v(k)) >>)
             cat   == PatternOr(~s.metadataId, v("cat"), Given(args, "cat"),
                         << Cond(FALSE, "cat", "eq", v("cat")) >>, << Cond(FALSE, "cat", "ieq", v("cat")) >>)
  <1>1. ASSUME NEW k
        PROVE  IsSequence(on(k)) /\ (Meets(on(k), row) <=> Choice(row, s, args, ~s.metadataId, k, "like", "ilike"))
    BY MeetsPattern DEF Choice
  <1>2. IsSequence(cat) /\ (Meets(cat, row) <=> Choice(row, s, args, ~s.metadataId, "cat", "eq", "ieq"))
    BY MeetsPattern DEF Choice
  <1>3. ProcedureColumnsWhere(s, args) = cat \o on("schem") \o on("name") \o on("column")
    BY DEF ProcedureColumnsWhere
  <1> HIDE DEF on, cat
  <1>4. Meets(cat \o on("schem") \o on("name") \o on("column"), row) <=>
          Meets(cat, row) /\ Meets(on("schem"), row) /\ Meets(on("name"), row) /\ Meets(on("column"), row)
    BY <1>1, <1>2, MeetsFour
  <1> QED
    BY <1>1, <1>2, <1>3, <1>4

\* What the clauses of SQLProcedures ask of an object.
LEMMA ProceduresMeet ==
    ASSUME NEW s, NEW args, NEW row
    PROVE  Meets(ProceduresWhere(s, args), row) <=>
             /\ Choice(row, s, args, s.metadataId, "cat", "eq", "ieq")
             /\ \A k \in {"schem", "name"} : Choice(row, s, args, s.metadataId, k, "like", "ilike")
  <1> DEFINE v(k)  == Value(s, args, k)
             on(k) == PatternOr(s.metadataId, v(k), Given(args, k),
                         << Cond(TRUE, k, "like", v(k)) >>, << Cond(TRUE, k, "ilike", v(k)) >>)
             cat   == PatternOr(s.metadataId, v("cat"), Given(args, "cat"),
                         << Cond(FALSE, "cat", "eq", v("cat")) >>, << Cond(FALSE, "cat", "ieq", v("cat")) >>)
  <1>1. ASSUME NEW k
        PROVE  IsSequence(on(k)) /\ (Meets(on(k), row) <=> Choice(row, s, args, s.metadataId, k, "like", "ilike"))
    BY MeetsPattern DEF Choice
  <1>2. IsSequence(cat) /\ (Meets(cat, row) <=> Choice(row, s, args, s.metadataId, "cat", "eq", "ieq"))
    BY MeetsPattern DEF Choice
  <1>3. ProceduresWhere(s, args) = cat \o on("schem") \o on("name")
    BY DEF ProceduresWhere
  <1> HIDE DEF on, cat
  <1>4. Meets(cat \o on("schem") \o on("name"), row) <=>
          Meets(cat, row) /\ Meets(on("schem"), row) /\ Meets(on("name"), row)
    BY <1>1, <1>2, MeetsThree
  <1> QED
    BY <1>1, <1>2, <1>3, <1>4

\* What the clauses of SQLForeignKeys ask of a key.
LEMMA ForeignKeysMeet ==
    ASSUME NEW s, NEW args, NEW row
    PROVE  Meets(ForeignKeysWhere(s, args), row) <=>
             /\ Given(args, "fkname") => \A k \in {"fkcat", "fkschem", "fkname"} : Given(args, k) => Matches(row, k, "eq", args[k])
             /\ Given(args, "pkname") => \A k \in {"pkcat", "pkschem", "pkname"} : Given(args, k) => Matches(row, k, "eq", args[k])
  <1> DEFINE on(and, k) == When(Given(args, k), << Cond(and, k, "eq", args[k]) >>)
             fk         == on(FALSE, "fkcat") \o on(TRUE, "fkschem") \o on(TRUE, "fkname")
             pk(and)    == on(and, "pkcat") \o on(TRUE, "pkschem") \o on(TRUE, "pkname")
  <1>1. ASSUME NEW and, NEW k
        PROVE  IsSequence(on(and, k)) /\ (Meets(on(and, k), row) <=> (Given(args, k) => Matches(row, k, "eq", args[k])))
    BY MeetsCond, MeetsWhen
  <1>2. ForeignKeysWhere(s, args) =
          CASE Given(args, "pkname") /\ Given(args, "fkname") -> fk \o pk(TRUE)
            [] Given(args, "pkname") /\ ~Given(args, "fkname") -> pk(FALSE)
            [] ~Given(args, "pkname") /\ Given(args, "fkname") -> fk
            [] OTHER -> << >>
    BY DEF ForeignKeysWhere
  <1> HIDE DEF on
  <1>3. IsSequence(fk) /\ (Meets(fk, row) <=>
          \A k \in {"fkcat", "fkschem", "fkname"} : Given(args, k) => Matches(row, k, "eq", args[k]))
    BY <1>1, MeetsThree
  <1>4. ASSUME NEW and
        PROVE  IsSequence(pk(and)) /\ (Meets(pk(and), row) <=>
                 \A k \in {"pkcat", "pkschem", "pkname"} : Given(args, k) => Matches(row, k, "eq", args[k]))
    BY <1>1, MeetsThree
  <1> HIDE DEF fk, pk
  <1>5. Meets(fk \o pk(TRUE), row) <=> Meets(fk, row) /\ Meets(pk(TRUE), row)
    BY <1>3, <1>4, MeetsBoth
  <1> QED
    BY <1>2, <1>3, <1>4, <1>5, MeetsNothing

-----------------------------------------------------------------------------
(* What is listed, and what was asked for.                                  *)

Ops    == {"eq", "ieq", "like", "ilike"}
Direct == {"eq", "like"}

\* A value the service stores, if it is one, and an argument.
Known(v, a) ==
    v # Null => /\ \A p \in MatchAnything : Lower[v] \in Like[Lower[p]]
                /\ v \in Like[a] => Lower[v] \in Like[Lower[a]]

\* What matches a condition on an argument fits the argument,
LEMMA MatchFits ==
    ASSUME NEW row, NEW k, NEW op \in Ops, NEW a, Matches(row, k, op, a), Known(row[k], a)
    PROVE  Fits(row[k], a)
  BY DEF Matches, Known, Fits, Ops

\* and so does what either condition lets through or leaves out.
LEMMA ChoiceFits ==
    ASSUME NEW row, NEW s, NEW args, NEW b, NEW k, NEW op1 \in Ops, NEW op2 \in Ops,
           Choice(row, s, args, b, k, op1, op2), Given(args, k), Known(row[k], args[k])
    PROVE  Fits(row[k], args[k])
  <1>1. Value(s, args, k) = args[k]
    BY DEF Value
  <1>2. CASE args[k] \in MatchAnything
    BY <1>2 DEF Known, Fits
  <1>3. CASE args[k] \notin MatchAnything
    BY <1>1, <1>3, MatchFits DEF Choice
  <1> QED
    BY <1>2, <1>3

\* A value that is named, by itself or by the catalog connected to.
LEMMA NamedIsChosen ==
    ASSUME NEW row, NEW s, NEW args, NEW b, NEW k,
           NEW op1 \in Direct, NEW op2 \in Ops,
           Names(s, args, k, row[k]), Given(args, k) \/ k = "cat" => row[k] # Null,
           row[k] # Null => row[k] \in Like[row[k]],
           Given(args, k) => Known(row[k], args[k])
    PROVE  Choice(row, s, args, b, k, op1, op2)
  <1>1. CASE Given(args, k)
    BY <1>1 DEF Choice, Value, Names, Matches, Known, Ops, Direct
  <1>2. CASE ~Given(args, k) /\ k = "cat"
    BY <1>2 DEF Choice, Value, Names, Matches, Direct
  <1>3. CASE ~Given(args, k) /\ k # "cat"
    BY <1>3 DEF Choice, Value, MatchAnything
  <1> QED
    BY <1>1, <1>2, <1>3

\* The columns of an object as a query sees it,
LEMMA RowFields ==
    ASSUME NEW s, NEW o
    PROVE  /\ Row1(s, o)["cat"] = Located(s, o).cat /\ Row1(s, o)["schem"] = Located(s, o).schem
           /\ Row1(s, o)["name"] = o.name /\ Row1(s, o)["column"] = o.column
           /\ Row1(s, o)["type"] = "VIEW"
  BY DEF Row1

\* which hold names or nothing,
LEMMA StoredNames ==
    ASSUME NEW s, NEW o \in Object
    PROVE  /\ \A k \in Component : Row1(s, o)[k] = Null \/ Row1(s, o)[k] \in NamesOf(o)
           /\ ~SeesSchemas(s) => Row1(s, o)["schem"] = Null
  <1>1. /\ Located(s, o).cat = Null \/ Located(s, o).cat \in NamesOf(o)
        /\ Located(s, o).schem = Null \/ Located(s, o).schem \in NamesOf(o)
        /\ ~SeesSchemas(s) => Located(s, o).schem = Null
    BY DEF Located, NamesOf, SeesSchemas
  <1>2. o.name = Null \/ o.name \in NamesOf(o)
    BY DEF NamesOf
  <1>3. o.column = Null \/ o.column \in NamesOf(o)
    BY DEF NamesOf
  <1> QED
    BY <1>1, <1>2, <1>3, RowFields DEF Component

\* names of which CatalogAssumption holds.
LEMMA StoredKnown ==
    ASSUME NEW s, NEW o \in Object, NEW k \in Component, NEW a \in Argument \cup {""}
    PROVE  /\ Known(Row1(s, o)[k], a)
           /\ Row1(s, o)[k] # Null => Row1(s, o)[k] \in Like[Row1(s, o)[k]]
  <1>1. Row1(s, o)[k] = Null \/ Row1(s, o)[k] \in NamesOf(o)
    BY StoredNames
  <1>2. \A v \in NamesOf(o) : v \in Like[v] /\ Known(v, a)
    BY CatalogAssumption DEF Known
  <1> QED
    BY <1>1, <1>2 DEF Known

Plainly == DOMAIN Components \ {"SQLForeignKeys"}

\* The arguments of each function that lists objects.
LEMMA ComponentsOf ==
    /\ Components["SQLTables"] = {"cat", "schem", "name"}
    /\ Components["SQLColumns"] = {"cat", "schem", "name", "column"}
    /\ Components["SQLPrimaryKeys"] = {"cat", "schem", "name"}
    /\ Components["SQLProcedures"] = {"cat", "schem", "name"}
    /\ Components["SQLProcedureColumns"] = {"cat", "schem", "name", "column"}
    /\ Plainly = {"SQLTables", "SQLColumns", "SQLPrimaryKeys", "SQLProcedures", "SQLProcedureColumns"}
  BY DEF Components, Component, Plainly

\* An argument that is given is one of the values of an argument.
LEMMA ArgumentsOf ==
    ASSUME NEW f \in Plainly, NEW args \in [Components[f] -> Argument \cup {"", Absent}], NEW k \in Components[f]
    PROVE  k \in Component /\ (Given(args, k) => args[k] \in Argument \cup {""})
  <1>1. Components[f] \subseteq Component
    BY ComponentsOf DEF Component
  <1>2. args[k] \in Argument \cup {"", Absent}
    OBVIOUS
  <1> QED
    BY <1>1, <1>2 DEF Given

\* Every object listed fits every argument that is given.
LEMMA OnlyThat ==
    ASSUME NEW f \in Plainly, NEW s \in Session, NEW args \in [Components[f] -> Argument \cup {"", Absent}],
           NEW types, NEW o \in Object, Satisfies(Query(f, s, args, types), Row1(s, o)),
           NEW k \in Components[f], Given(args, k)
    PROVE  Fits(Row1(s, o)[k], args[k])
  <1> DEFINE row == Row1(s, o)
             q   == Query(f, s, args, types)
  <1>1. k \in Component /\ args[k] \in Argument \cup {""}
    BY ArgumentsOf
  <1>2. Known(row[k], args[k])
    BY <1>1, StoredKnown
  <1>3. row["schem"] = Null => Fits(row["schem"], args["schem"])
    BY DEF Fits
  <1>4. ~SeesSchemas(s) => row["schem"] = Null
    BY StoredNames
  <1>5. Meets(q.conds, row)
    BY DEF Satisfies, Meets
  <1> HIDE DEF row
  <1>6. CASE f = "SQLTables"
    <2>1. q.conds = TablesWhere(s, args, types) /\ k \in {"cat", "schem", "name"}
      BY <1>6, ComponentsOf DEF Query
    <2>2. /\ Choice(row, s, args, ~s.metadataId /\ ~s.odbc2, "cat", "like", "eq")
          /\ Choice(row, s, args, ~s.metadataId, "schem", "like", "eq")
          /\ Choice(row, s, args, ~s.metadataId, "name", "like", "eq")
      BY <1>5, <2>1, TablesMeet
    <2>3. \/ Choice(row, s, args, ~s.metadataId /\ ~s.odbc2, k, "like", "eq")
          \/ Choice(row, s, args, ~s.metadataId, k, "like", "eq")
      BY <2>1, <2>2
    <2> QED
      BY <1>2, <2>3, ChoiceFits DEF row, Ops
  <1>7. CASE f = "SQLColumns"
    <2>1. q.conds = ColumnsWhere(s, args) /\ k \in {"cat", "schem", "name", "column"}
      BY <1>7, ComponentsOf DEF Query
    <2>2. /\ Choice(row, s, args, ~s.metadataId, "cat", "like", "eq")
          /\ Choice(row, s, args, ~s.metadataId, "name", "like", "eq")
          /\ Choice(row, s, args, ~s.metadataId, "column", "like", "eq")
          /\ SeesSchemas(s) => Choice(row, s, args, ~s.metadataId, "schem", "like", "eq")
      BY <1>5, <2>1, ColumnsMeet
    <2>3. (k = "schem" /\ ~SeesSchemas(s)) \/ Choice(row, s, args, ~s.metadataId, k, "like", "eq")
      BY <2>1, <2>2
    <2> QED
      BY <1>2, <1>3, <1>4, <2>3, ChoiceFits DEF row, Ops
  <1>8. CASE f = "SQLPrimaryKeys"
    <2>1. q.conds = PrimaryKeysWhere(s, args) /\ k \in {"cat", "schem", "name"}
      BY <1>8, ComponentsOf DEF Query
    <2>2. /\ Choice(row, s, args, ~s.metadataId, "cat", "eq", "ieq")
          /\ Choice(row, s, args, ~s.metadataId, "name", "eq", "ieq")
          /\ SeesSchemas(s) => Choice(row, s, args, ~s.metadataId, "schem", "eq", "ieq")
      BY <1>5, <2>1, PrimaryKeysMeet
    <2>3. (k = "schem" /\ ~SeesSchemas(s)) \/ Choice(row, s, args, ~s.metadataId, k, "eq", "ieq")
      BY <2>1, <2>2
    <2> QED
      BY <1>2, <1>3, <1>4, <2>3, ChoiceFits DEF row, Ops
  <1>9. CASE f = "SQLProcedureColumns"
    <2>1. q.conds = ProcedureColumnsWhere(s, args) /\ k \in {"cat", "schem", "name", "column"}
      BY <1>9, ComponentsOf DEF Query
    <2>2. /\ Choice(row, s, args, ~s.metadataId, "cat", "eq", "ieq")
          /\ \A c \in {"schem", "name", "column"} : Choice(row, s, args, ~s.metadataId, c, "like", "ilike")
      BY <1>5, <2>1, ProcedureColumnsMeet
    <2>3. \/ Choice(row, s, args, ~s.metadataId, k, "eq", "ieq")
          \/ Choice(row, s, args, ~s.metadataId, k, "like", "ilike")
      BY <2>1, <2>2
    <2> QED
      BY <1>2, <2>3, ChoiceFits DEF row, Ops
  <1>10. CASE f = "SQLProcedures"
    <2>1. q.conds = ProceduresWhere(s, args) /\ k \in {"cat", "schem", "name"}
      BY <1>10, ComponentsOf DEF Query
    <2>2. /\ Choice(row, s, args, s.metadataId, "cat", "eq", "ieq")
          /\ \A c \in {"schem", "name"} : Choice(row, s, args, s.metadataId, c, "like", "ilike")
      BY <1>5, <2>1, ProceduresMeet
    <2>3. \/ Choice(row, s, args, s.metadataId, k, "eq", "ieq")
          \/ Choice(row, s, args, s.metadataId, k, "like", "ilike")
      BY <2>1, <2>2
    <2> QED
      BY <1>2, <2>3, ChoiceFits DEF row, Ops
  <1> QED
    BY <1>6, <1>7, <1>8, <1>9, <1>10, ComponentsOf

\* Every object that is named satisfies the query.
LEMMA AllOfThat ==
    ASSUME NEW f \in Plainly, NEW s \in Session, NEW args \in [Components[f] -> Argument \cup {"", Absent}],
           NEW types \in TypeLists, types # {"TABLE"}, NEW o \in Object,
           \A k \in Components[f] :
              \/ Names(s, args, k, Row1(s, o)[k])
              \/ k = "schem" /\ ~SeesSchemas(s) /\ ~s.metadataId /\ f \in {"SQLColumns", "SQLPrimaryKeys"},
           f = "SQLTables" /\ s.twoPart => Row1(s, o)["cat"] = s.cat1 /\ Row1(s, o)["schem"] = s.cat2
    PROVE  Satisfies(Query(f, s, args, types), Row1(s, o))
  <1> DEFINE row == Row1(s, o)
             q   == Query(f, s, args, types)
  <1>1. SUFFICES Meets(q.conds, row)
    BY DEF Satisfies, Meets
  <1>2. ASSUME NEW k \in Components[f], NEW b, NEW op1 \in Direct, NEW op2 \in Ops,
               Names(s, args, k, row[k])
        PROVE  Choice(row, s, args, b, k, op1, op2)
    <2>1. k \in Component /\ (Given(args, k) => args[k] \in Argument \cup {""})
      BY ArgumentsOf
    <2>2. Given(args, k) => row[k] = args[k] /\ row[k] # Null
      BY <1>2, <2>1, CatalogAssumption DEF Names
    <2>3. ~Given(args, k) /\ k = "cat" => row[k] # Null
      BY <1>2, CatalogAssumption DEF Names
    <2>4. row[k] # Null => row[k] \in Like[row[k]]
      BY <2>1, StoredKnown
    <2>5. Given(args, k) => Known(row[k], args[k])
      BY <2>1, StoredKnown
    <2>6. Given(args, k) \/ k = "cat" => row[k] # Null
      BY <2>2, <2>3
    <2>7. Names(s, args, k, row[k])
      BY <1>2
    <2> HIDE DEF row
    <2> QED
      BY <2>4, <2>5, <2>6, <2>7, NamedIsChosen
  <1>3. row["type"] = "VIEW"
    BY RowFields
  <1> HIDE DEF row
  <1>4. CASE f = "SQLTables"
    <2>1. q.conds = TablesWhere(s, args, types)
      BY <1>4 DEF Query
    <2>2. \A k \in {"cat", "schem", "name"} : k \in Components[f] /\ Names(s, args, k, row[k])
      BY <1>4 DEF row, Components, Component
    <2>3. /\ Choice(row, s, args, ~s.metadataId /\ ~s.odbc2, "cat", "like", "eq")
          /\ Choice(row, s, args, ~s.metadataId, "schem", "like", "eq")
          /\ Choice(row, s, args, ~s.metadataId, "name", "like", "eq")
      BY <1>2, <2>2 DEF Ops, Direct
    <2>4. s.twoPart => Matches(row, "cat", "eq", s.cat1) /\ Matches(row, "schem", "eq", s.cat2)
      BY <1>4, CatalogAssumption DEF row, Matches
    <2>5. types # {} /\ types \cap MatchAnything = {} => Matches(row, "type", "in", types)
      BY <1>3, CatalogAssumption DEF Matches, TypeLists, MatchAnything
    <2>6. Meets(TablesWhere(s, args, types), row)
      BY <2>3, <2>4, <2>5, TablesMeet
    <2> QED
      BY <2>1, <2>6
  <1>5. CASE f = "SQLColumns"
    <2>1. q.conds = ColumnsWhere(s, args)
      BY <1>5 DEF Query
    <2>2. \A k \in {"cat", "name", "column"} : k \in Components[f] /\ Names(s, args, k, row[k])
      BY <1>5 DEF row, Components, Component
    <2>3. s.metadataId \/ SeesSchemas(s) => "schem" \in Components[f] /\ Names(s, args, "schem", row["schem"])
      BY <1>5 DEF row, Components, Component
    <2>4. \A c \in {"cat", "name", "column"} : Choice(row, s, args, ~s.metadataId, c, "like", "eq")
      BY <1>2, <2>2 DEF Ops, Direct
    <2>5. s.metadataId \/ SeesSchemas(s) => Choice(row, s, args, ~s.metadataId, "schem", "like", "eq")
      BY <1>2, <2>3 DEF Ops, Direct
    <2>6. Meets(ColumnsWhere(s, args), row)
      BY <2>4, <2>5, ColumnsMeet
    <2> QED
      BY <2>1, <2>6
  <1>6. CASE f = "SQLPrimaryKeys"
    <2>1. q.conds = PrimaryKeysWhere(s, args)
      BY <1>6 DEF Query
    <2>2. \A k \in {"cat", "name"} : k \in Components[f] /\ Names(s, args, k, row[k])
      BY <1>6 DEF row, Components, Component
    <2>3. SeesSchemas(s) => "schem" \in Components[f] /\ Names(s, args, "schem", row["schem"])
      BY <1>6 DEF row, Components, Component
    <2>4. \A c \in {"cat", "name"} : Choice(row, s, args, ~s.metadataId, c, "eq", "ieq")
      BY <1>2, <2>2 DEF Ops, Direct
    <2>5. SeesSchemas(s) => Choice(row, s, args, ~s.metadataId, "schem", "eq", "ieq")
      BY <1>2, <2>3 DEF Ops, Direct
    <2>6. Meets(PrimaryKeysWhere(s, args), row)
      BY <2>4, <2>5, PrimaryKeysMeet
    <2> QED
      BY <2>1, <2>6
  <1>7. CASE f = "SQLProcedureColumns"
    <2>1. q.conds = ProcedureColumnsWhere(s, args)
      BY <1>7 DEF Query
    <2>2. \A k \in {"cat", "schem", "name", "column"} : k \in Components[f] /\ Names(s, args, k, row[k])
      BY <1>7 DEF row, Components, Component
    <2>3. Choice(row, s, args, ~s.metadataId, "cat", "eq", "ieq")
      BY <1>2, <2>2 DEF Ops, Direct
    <2>4. \A c \in {"schem", "name", "column"} : Choice(row, s, args, ~s.metadataId, c, "like", "ilike")
      BY <1>2, <2>2 DEF Ops, Direct
    <2>5. Meets(ProcedureColumnsWhere(s, args), row)
      BY <2>3, <2>4, ProcedureColumnsMeet
    <2> QED
      BY <2>1, <2>5
  <1>8. CASE f = "SQLProcedures"
    <2>1. q.conds = ProceduresWhere(s, args)
      BY <1>8 DEF Query
    <2>2. \A k \in {"cat", "schem", "name"} : k \in Components[f] /\ Names(s, args, k, row[k])
      BY <1>8 DEF row, Components, Component
    <2>3. Choice(row, s, args, s.metadataId, "cat", "eq", "ieq")
      BY <1>2, <2>2 DEF Ops, Direct
    <2>4. \A c \in {"schem", "name"} : Choice(row, s, args, s.metadataId, c, "like", "ilike")
      BY <1>2, <2>2 DEF Ops, Direct
    <2>5. Meets(ProceduresWhere(s, args), row)
      BY <2>3, <2>4, ProceduresMeet
    <2> QED
      BY <2>1, <2>5
  <1> QED
    BY <1>4, <1>5, <1>6, <1>7, <1>8 DEF Plainly, Components, row

\* The columns of a row that pairs a foreign key with a primary key.
LEMMA KeyFields ==
    ASSUME NEW s, NEW key, NEW pk
    PROVE  LET row == Row2(s, key, pk)
           IN  /\ row["pkcat"] = Located(s, pk).cat /\ row["pkschem"] = Located(s, pk).schem
               /\ row["pkname"] = pk.name
  BY DEF Row2

\* Every pair of keys listed fits the arguments that count.
LEMMA OnlyThoseKeys ==
    ASSUME NEW s, NEW args, NEW types, NEW row, Satisfies(Query("SQLForeignKeys", s, args, types), row),
           NEW k \in KeyComponent, Given(args, k),
           k \in {"fkcat", "fkschem"} => Given(args, "fkname"),
           k \in {"pkcat", "pkschem"} => Given(args, "pkname")
    PROVE  Fits(row[k], args[k])
  <1>1. Query("SQLForeignKeys", s, args, types).conds = ForeignKeysWhere(s, args)
    BY DEF Query
  <1>2. Meets(ForeignKeysWhere(s, args), row)
    BY <1>1 DEF Satisfies, Meets
  <1>3. /\ Given(args, "fkname") => \A c \in {"fkcat", "fkschem", "fkname"} : Given(args, c) => Matches(row, c, "eq", args[c])
        /\ Given(args, "pkname") => \A c \in {"pkcat", "pkschem", "pkname"} : Given(args, c) => Matches(row, c, "eq", args[c])
    BY <1>2, ForeignKeysMeet
  <1>4. Matches(row, k, "eq", args[k])
    BY <1>3 DEF KeyComponent
  <1> QED
    BY <1>4 DEF Matches, Fits

\* Every foreign key that is named is listed with the key it refers to.
LEMMA AllThoseKeys ==
    ASSUME NEW s, NEW args, NEW types, NEW key \in ForeignKey,
           SeesSchemas(s), key.fk.column = key.ref.column,
           \A k \in KeyComponent : Row2(s, key, key.ref)[k] # Null /\ Names(s, args, k, Row2(s, key, key.ref)[k])
    PROVE  << key, key.ref >> \in Listed("SQLForeignKeys", s, args, types)
  <1> DEFINE row == Row2(s, key, key.ref)
             q   == Query("SQLForeignKeys", s, args, types)
  <1>1. key.ref \in Object
    BY CatalogAssumption
  <1>2. Joined(s, key, key.ref)
    <2>1. row["pkcat"] # Null /\ row["pkschem"] # Null
      BY DEF KeyComponent
    <2>2. Located(s, key.ref).cat # Null /\ Located(s, key.ref).schem # Null
      BY <2>1, KeyFields
    <2> QED
      BY <2>2 DEF Joined
  <1>3. \A k \in KeyComponent : Given(args, k) => Matches(row, k, "eq", args[k])
    BY DEF Matches, Names
  <1> HIDE DEF row
  <1>4. Meets(ForeignKeysWhere(s, args), row)
    <2>1. /\ \A k \in {"fkcat", "fkschem", "fkname"} : Given(args, k) => Matches(row, k, "eq", args[k])
          /\ \A k \in {"pkcat", "pkschem", "pkname"} : Given(args, k) => Matches(row, k, "eq", args[k])
      BY <1>3 DEF KeyComponent
    <2> QED
      BY <2>1, ForeignKeysMeet
  <1>5. Satisfies(q, row)
    <2>1. q.conds = ForeignKeysWhere(s, args)
      BY DEF Query
    <2> QED
      BY <1>4, <2>1 DEF Satisfies, Meets
  <1> HIDE DEF q
  <1>6. Listed("SQLForeignKeys", s, args, types) =
          {r \in ForeignKey \X Object : Joined(s, r[1], r[2]) /\ Satisfies(q, Row2(s, r[1], r[2]))}
    BY DEF Listed, q
  <1> QED
    BY <1>1, <1>2, <1>5, <1>6 DEF row

\* Catalog functions list what is asked for: nothing that does not fit every
\* argument that counts, and everything named exactly, in each of the three
\* ways the service lays out its scopes, for any tables, columns, keys and
\* procedures there are.
THEOREM ListedIsAsked == CatalogSpec => []ListsWhatIsAsked
  <1>1. NotCalled => ListsWhatIsAsked
    BY DEF NotCalled, Start, ListsWhatIsAsked, IsQuery, Components
  <1>2. ASSUME CatalogCall
        PROVE  ListsWhatIsAsked'
    <2>1. SUFFICES ASSUME IsQuery', call'.parses, Ordinary'
                   PROVE  OnlyWhatIsAsked' /\ AllThatIsAsked'
      BY Zenon DEF ListsWhatIsAsked
    <2>2. PICK f \in DOMAIN Components, s \in Session :
             \E args \in [Components[f] -> Argument \cup {"", "a", "%", Absent}], types \in TypeLists :
                /\ Ask(f, s, args, types)
                /\ f # "SQLTables" => types = {"%"}
                /\ f # "SQLForeignKeys" => args \in [Components[f] -> Argument \cup {"", Absent}]
      BY <1>2, <2>1, Calls
    <2>3. PICK args \in [Components[f] -> Argument \cup {"", "a", "%", Absent}], types \in TypeLists :
             /\ Ask(f, s, args, types)
             /\ f # "SQLTables" => types = {"%"}
             /\ f # "SQLForeignKeys" => args \in [Components[f] -> Argument \cup {"", Absent}]
      BY <2>2
    <2>4. /\ call'.op = f /\ call'.s = s /\ call'.args = args /\ call'.types = types
          /\ call'.listed = Listed(f, s, args, types)
      BY <2>1, <2>3, CallAnswered
    <2>5. f # "SQLTables" \/ TablesKind(s, args, AnyType(types)) = "tables"
      BY <2>1, <2>4 DEF Ordinary
    <2>6. CASE f = "SQLForeignKeys"
      <3>1. Components[f] = KeyComponent
        BY <2>6 DEF Components
      <3>2. OnlyWhatIsAsked'
        <4>1. SUFFICES ASSUME NEW x \in Listed(f, s, args, types), NEW k \in KeyComponent,
                              Counts(k)', Given(args, k)
                       PROVE  Fits(Row2(s, x[1], x[2])[k], args[k])
          BY <2>4, <2>6, <3>1 DEF OnlyWhatIsAsked, RowOf
        <4>2. Satisfies(Query(f, s, args, types), Row2(s, x[1], x[2]))
          BY <2>6 DEF Listed
        <4>3. /\ k \in {"fkcat", "fkschem"} => Given(args, "fkname")
              /\ k \in {"pkcat", "pkschem"} => Given(args, "pkname")
          BY <2>4, <4>1 DEF Counts
        <4> QED
          BY <2>6, <4>1, <4>2, <4>3, OnlyThoseKeys
      <3>3. AllThatIsAsked'
        <4>1. SUFFICES ASSUME NEW key \in ForeignKey, SeesSchemas(s), key.fk.column = key.ref.column,
                              \A k \in KeyComponent : /\ Row2(s, key, key.ref)[k] # Null
                                                      /\ Names(s, args, k, Row2(s, key, key.ref)[k])
                       PROVE  << key, key.ref >> \in Listed(f, s, args, types)
          BY <2>4, <2>6 DEF AllThatIsAsked
        <4> QED
          BY <2>6, <4>1, AllThoseKeys
      <3> QED
        BY <3>2, <3>3
    <2>7. CASE f # "SQLForeignKeys"
      <3>1. f \in Plainly /\ args \in [Components[f] -> Argument \cup {"", Absent}]
        BY <2>3, <2>7 DEF Plainly
      <3>2. Listed(f, s, args, types) = {o \in Object : Satisfies(Query(f, s, args, types), Row1(s, o))}
        BY <2>5, <2>7 DEF Listed
      <3>3. OnlyWhatIsAsked'
        <4>1. SUFFICES ASSUME NEW o \in Listed(f, s, args, types), NEW k \in Components[f], Given(args, k)
                       PROVE  Fits(Row1(s, o)[k], args[k])
          BY <2>4, <2>7 DEF OnlyWhatIsAsked, RowOf
        <4> QED
          BY <3>1, <3>2, <4>1, OnlyThat
      <3>4. AllThatIsAsked'
        <4>1. SUFFICES ASSUME NEW o \in Object,
                              \A k \in Components[f] :
                                 \/ Names(s, args, k, Row1(s, o)[k])
                                 \/ k = "schem" /\ ~SeesSchemas(s) /\ ~s.metadataId
                                    /\ f \in {"SQLColumns", "SQLPrimaryKeys"},
                              types # {"TABLE"},
                              f = "SQLTables" /\ s.twoPart => Row1(s, o).cat = s.cat1 /\ Row1(s, o).schem = s.cat2
                       PROVE  o \in Listed(f, s, args, types)
          BY <2>4, <2>7 DEF AllThatIsAsked
        <4>2. f = "SQLTables" /\ s.twoPart => Row1(s, o)["cat"] = s.cat1 /\ Row1(s, o)["schem"] = s.cat2
          BY <4>1
        <4> QED
          BY <3>1, <3>2, <4>1, <4>2, AllOfThat
      <3> QED
        BY <3>3, <3>4
    <2> QED
      BY <2>6, <2>7
  <1>3. ListsWhatIsAsked /\ UNCHANGED call => ListsWhatIsAsked'
    BY Zenon DEF ListsWhatIsAsked, IsQuery, Ordinary, OnlyWhatIsAsked, AllThatIsAsked, Counts, RowOf
  <1> QED
    BY <1>1, <1>2, <1>3, PTL DEF CatalogSpec

-----------------------------------------------------------------------------
(* The description of a column.                                           *)

\* A date, a time and a timestamp are the concise types of their subcodes.
LEMMA DateTimes ==
    /\ ConciseOf(1, Plain("DATETIME")) = DateTime("DATE")
    /\ ConciseOf(2, Plain("DATETIME")) = DateTime("TIME")
    /\ ConciseOf(3, Plain("DATETIME")) = DateTime("TIMESTAMP")
  <1>1. /\ \A p \in DateTimePart : DateTimeCode[p] = 1 <=> p = "DATE"
        /\ \A p \in DateTimePart : DateTimeCode[p] = 2 <=> p = "TIME"
        /\ \A p \in DateTimePart : DateTimeCode[p] = 3 <=> p = "TIMESTAMP"
    BY DEF DateTimePart, DateTimeCode
  <1>2. "DATE" \in DateTimePart /\ "TIME" \in DateTimePart /\ "TIMESTAMP" \in DateTimePart
    BY DEF DateTimePart
  <1>3. /\ (CHOOSE p \in DateTimePart : DateTimeCode[p] = 1) = "DATE"
        /\ (CHOOSE p \in DateTimePart : DateTimeCode[p] = 2) = "TIME"
        /\ (CHOOSE p \in DateTimePart : DateTimeCode[p] = 3) = "TIMESTAMP"
    BY <1>1, <1>2
  <1>4. Plain("DATETIME") # Plain("INTERVAL")
    BY DEF Plain
  <1>5. ASSUME NEW c \in 1 .. 3
        PROVE  ConciseOf(c, Plain("DATETIME")) = DateTime(CHOOSE p \in DateTimePart : DateTimeCode[p] = c)
    BY <1>4 DEF ConciseOf
  <1>6. ConciseOf(1, Plain("DATETIME")) = DateTime("DATE")
    <2>1. 1 \in 1 .. 3
      OBVIOUS
    <2>2. ConciseOf(1, Plain("DATETIME")) = DateTime(CHOOSE p \in DateTimePart : DateTimeCode[p] = 1)
      BY <1>5, <2>1, Zenon
    <2> QED
      BY <1>3, <2>2, Zenon
  <1>7. ConciseOf(2, Plain("DATETIME")) = DateTime("TIME")
    <2>1. 2 \in 1 .. 3
      OBVIOUS
    <2>2. ConciseOf(2, Plain("DATETIME")) = DateTime(CHOOSE p \in DateTimePart : DateTimeCode[p] = 2)
      BY <1>5, <2>1, Zenon
    <2> QED
      BY <1>3, <2>2, Zenon
  <1>8. ConciseOf(3, Plain("DATETIME")) = DateTime("TIMESTAMP")
    <2>1. 3 \in 1 .. 3
      OBVIOUS
    <2>2. ConciseOf(3, Plain("DATETIME")) = DateTime(CHOOSE p \in DateTimePart : DateTimeCode[p] = 3)
      BY <1>5, <2>1, Zenon
    <2> QED
      BY <1>3, <2>2, Zenon
  <1> QED
    BY <1>6, <1>7, <1>8

\* Of the verbose types that are announced one has a concise type.
LEMMA Verbose ==
    /\ IsVerbose(Plain("DATETIME"))
    /\ \A k \in {"BIGINT", "DOUBLE", "VARCHAR"} : ~IsVerbose(Plain(k)) /\ VerboseOf(Plain(k)) = Plain(k)
  BY DEF IsVerbose, Plain, VerboseKind, VerboseOf

\* A column is announced as it is described.
LEMMA AnnouncedAlike ==
    ASSUME NEW t \in DOMAIN ColumnsRow, NEW row \in {ColumnsRow[t], TypeInfoRow[t]}
    PROVE  /\ row.type = TypeInfoOf(t).type
           /\ row.type = IF IsVerbose(row.verbose) THEN ConciseOf(row.sub, row.verbose) ELSE row.verbose
  <1>1. CASE t = "int64"
    <2>1. TypeInfoOf(t).type = Plain("BIGINT")
      BY <1>1 DEF TypeInfoOf, TypeInfo, ChType, Info
    <2>2. row.type = Plain("BIGINT") /\ row.verbose = Plain("BIGINT")
      BY <1>1, Verbose DEF ColumnsRow, TypeInfoRow, Row
    <2> QED
      BY <2>1, <2>2, Verbose
  <1>2. CASE t = "double"
    <2>1. TypeInfoOf(t).type = Plain("DOUBLE")
      BY <1>2 DEF TypeInfoOf, TypeInfo, ChType, Info
    <2>2. row.type = Plain("DOUBLE") /\ row.verbose = Plain("DOUBLE")
      BY <1>2, Verbose DEF ColumnsRow, TypeInfoRow, Row
    <2> QED
      BY <2>1, <2>2, Verbose
  <1>3. CASE t = "string"
    <2>1. TypeInfoOf(t).type = Plain("VARCHAR")
      BY <1>3 DEF TypeInfoOf, TypeInfo, ChType, Info, Text
    <2>2. row.type = Plain("VARCHAR") /\ row.verbose = Plain("VARCHAR")
      BY <1>3, Verbose DEF ColumnsRow, TypeInfoRow, Row
    <2> QED
      BY <2>1, <2>2, Verbose
  <1>4. CASE t = "date"
    <2>1. TypeInfoOf(t).type = DateTime("DATE")
      BY <1>4 DEF TypeInfoOf, TypeInfo, ChType, Info
    <2>2. row.type = DateTime("DATE") /\ row.verbose = Plain("DATETIME") /\ row.sub = 1
      BY <1>4 DEF ColumnsRow, TypeInfoRow, Row
    <2> QED
      BY <2>1, <2>2, Verbose, DateTimes
  <1>5. CASE t = "time"
    <2>1. TypeInfoOf(t).type = DateTime("TIME")
      BY <1>5 DEF TypeInfoOf, TypeInfo, ChType, Info
    <2>2. row.type = DateTime("TIME") /\ row.verbose = Plain("DATETIME") /\ row.sub = 2
      BY <1>5 DEF ColumnsRow, TypeInfoRow, Row
    <2> QED
      BY <2>1, <2>2, Verbose, DateTimes
  <1>6. CASE t = "datetime"
    <2>1. TypeInfoOf(t).type = DateTime("TIMESTAMP")
      BY <1>6 DEF TypeInfoOf, TypeInfo, ChType, Info
    <2>2. row.type = DateTime("TIMESTAMP") /\ row.verbose = Plain("DATETIME") /\ row.sub = 3
      BY <1>6 DEF ColumnsRow, TypeInfoRow, Row
    <2> QED
      BY <2>1, <2>2, Verbose, DateTimes
  <1> QED
    BY <1>1, <1>2, <1>3, <1>4, <1>5, <1>6 DEF ColumnsRow

\* What a type of the service is to the driver has sizes.
LEMMA Sizes ==
    ASSUME NEW t \in ServiceType
    PROVE  TypeInfoOf(t).size \in Int /\ DisplaySize(t) \in Int
  <1>1. \A k \in DOMAIN TypeInfo : TypeInfo[k].size \in Int
    BY DEF TypeInfo, Info, Text, StringMaxSize
  <1>2. ChType[t] \in DOMAIN TypeInfo /\ WithoutParameters(t) \in DOMAIN TypeInfo
    BY DEF ServiceType, ChType, TypeInfo, WithoutParameters
  <1> QED
    BY <1>1, <1>2 DEF TypeInfoOf, DisplaySize, NoTotal

\* No buffer is longer than the connection allows.
LEMMA WithinLimit ==
    ASSUME NEW t \in ServiceType, NEW n, NEW m \in Int
    PROVE  /\ DescribeCol(t, n, m).size <= m
           /\ IsBuffer(TypeInfoOf(t)) => ColAttribute(t, n, m).length <= m
  <1>1. DescribeCol(t, n, m).size <= m
    BY Sizes DEF DescribeCol
  <1>2. ASSUME IsBuffer(TypeInfoOf(t))
        PROVE  ColAttribute(t, n, m).length <= m
    BY <1>2, Sizes DEF ColAttribute
  <1> QED
    BY <1>1, <1>2

\* A column is described only when it is asked for.
LEMMA DescribeCalls ==
    ASSUME CatalogCall, call'.op = "describe"
    PROVE  \E t \in ServiceType, n \in BOOLEAN, m \in StringMaxLength : Describe(t, n, m)
  <1>1. "describe" \notin DOMAIN Components
    BY DEF Components
  <1>2. ASSUME NEW f \in DOMAIN Components, NEW s, NEW args, NEW types, Ask(f, s, args, types)
        PROVE  FALSE
    BY <1>1, <1>2, CallAnswered
  <1>3. ASSUME NEW s, NEW info, AskInfo(s, info)
        PROVE  FALSE
    BY <1>3 DEF AskInfo
  <1>4. ASSUME NEW id, AskFunctions(id)
        PROVE  FALSE
    BY <1>4 DEF AskFunctions
  <1>5. "SQLTables" \in DOMAIN Components /\ "SQLForeignKeys" \in DOMAIN Components
    BY DEF Components
  <1> QED
    BY <1>2, <1>3, <1>4, <1>5, Zenon DEF CatalogCall

\* Columns are described alike.  For every limit on strings,
\* SQLDescribeCol and SQLColAttribute agree on a column, keep to the limit, and
\* say of it what SQLColumns and SQLGetTypeInfo announced.
THEOREM AlikeDescribed == CatalogSpec => []DescribedAlike
  <1>1. NotCalled => DescribedAlike
    BY DEF NotCalled, Start, DescribedAlike
  <1>2. ASSUME CatalogCall
        PROVE  DescribedAlike'
    <2>1. SUFFICES ASSUME call'.op = "describe"
                   PROVE  DescribedAlike'
      BY Zenon DEF DescribedAlike
    <2>2. PICK t \in ServiceType, n \in BOOLEAN, m \in StringMaxLength : Describe(t, n, m)
      BY <1>2, <2>1, DescribeCalls
    <2>3. /\ call'.t = t /\ call'.longest = m
          /\ call'.described = DescribeCol(t, n, m)
          /\ call'.attribute = ColAttribute(t, n, m)
      BY <2>2 DEF Describe
    <2>4. /\ DescribeCol(t, n, m).type = TypeInfoOf(t).type
          /\ ColAttribute(t, n, m).type = TypeInfoOf(t).type
          /\ DescribeCol(t, n, m).nullable = n
          /\ ColAttribute(t, n, m).nullable = n
      BY DEF DescribeCol, ColAttribute
    <2>5. m \in Int
      BY CatalogAssumption
    <2>6. /\ DescribeCol(t, n, m).size <= m
          /\ IsBuffer(TypeInfoOf(t)) => ColAttribute(t, n, m).length <= m
      BY <2>5, WithinLimit
    <2>7. t \in DOMAIN ColumnsRow =>
             \A row \in {ColumnsRow[t], TypeInfoRow[t]} :
                /\ row.type = DescribeCol(t, n, m).type
                /\ row.type = IF IsVerbose(row.verbose) THEN ConciseOf(row.sub, row.verbose) ELSE row.verbose
      BY <2>4, AnnouncedAlike
    <2> QED
      BY <2>3, <2>4, <2>6, <2>7 DEF DescribedAlike
  <1>3. DescribedAlike /\ UNCHANGED call => DescribedAlike'
    BY Zenon DEF DescribedAlike
  <1> QED
    BY <1>1, <1>2, <1>3, PTL DEF CatalogSpec

-----------------------------------------------------------------------------
(* Conversions between encodings.                                          *)

Char == DOMAIN Bytes
Sym  == (UNION {Range(Bytes[c]) : c \in Char}) \cup Char \cup {"?"}

-----------------------------------------------------------------------------
(* Sequences laid end to end.                                              *)

\* Three sequences in a row, however they are grouped.
LEMMA Regrouped ==
    ASSUME NEW S, NEW a \in Seq(S), NEW b \in Seq(S), NEW c \in Seq(S)
    PROVE  /\ (a \o b) \o c = a \o (b \o c)
           /\ a \o b \in Seq(S)
  BY ConcatAssociative, ConcatProperties

\* A set of numbers that is not empty has a least one.
LEMMA LeastNumber ==
    ASSUME NEW S \in SUBSET Nat, S # {}
    PROVE  \E n \in S : \A m \in S : n <= m
<1>1. PICK n \in S : \A m \in S : ~(<<m, n>> \in OpToRel(<, Nat))
  BY WFMin, NatLessThanWellFounded, Zenon
<1>2. ASSUME NEW m \in S PROVE n <= m
  <2>1. m < n => <<m, n>> \in OpToRel(<, Nat)
    <3>1. <<m, n>> \in Nat \X Nat /\ <<m, n>>[1] = m /\ <<m, n>>[2] = n
      OBVIOUS
    <3> QED BY <3>1, Zenon DEF OpToRel
  <2>2. ~(m < n)
    BY <1>1, <2>1, Zenon
  <2> QED BY <2>2
<1> QED BY <1>2

Laid(g, s, n) == g = [i \in 1..n |-> IF i = 1 THEN s[i] ELSE g[i-1] \o s[i]]

\* The function FlattenSeq is defined by is there.
LEMMA LaidOut ==
    ASSUME NEW s, NEW n \in Nat
    PROVE  \E g : Laid(g, s, n)
<1> DEFINE Bad == {k \in Nat : ~\E g : Laid(g, s, k)}
<1>1. Bad = {}
  <2> SUFFICES ASSUME Bad # {} PROVE FALSE
    OBVIOUS
  <2>0. Bad \in SUBSET Nat
    OBVIOUS
  <2>1. PICK k \in Bad : \A m \in Bad : k <= m
    <3> HIDE DEF Bad
    <3> QED BY <2>0, LeastNumber
  <2>2. k \in Nat /\ ~\E g : Laid(g, s, k)
    OBVIOUS
  <2>3. k # 0
    <3>1. Laid([i \in 1..0 |-> 0], s, 0)
      <4>1. 1..0 = {}
        OBVIOUS
      <4> QED BY <4>1 DEF Laid
    <3> QED BY <2>2, <3>1
  <2>4. k - 1 \in Nat /\ ~(k <= k - 1)
    BY <2>2, <2>3
  <2>5. PICK g : Laid(g, s, k - 1)
    <3>1. ~(k - 1 \in Bad)
      BY <2>1, <2>4
    <3> QED BY <2>4, <3>1
  <2> DEFINE h == [i \in 1..k |-> IF i = 1 THEN s[i]
                                  ELSE IF i = k THEN g[k-1] \o s[i] ELSE g[i]]
             e(i) == IF i = 1 THEN s[i] ELSE h[i-1] \o s[i]
  <2>6. ASSUME NEW i \in 1..k PROVE h[i] = e(i)
    <3>1. CASE i = 1
      BY <3>1
    <3>2. CASE i # 1 /\ i = k
      <4>1. i - 1 \in 1..k /\ i - 1 # k /\ i - 1 = k - 1
        BY <2>2, <3>2
      <4>2. h[i-1] = g[i-1]
        <5>1. CASE i - 1 = 1
          <6>1. g[1] = s[1]
            <7>1. 1 \in 1..(k - 1)
              BY <5>1, <3>2, <2>2
            <7> QED BY <7>1, <2>5 DEF Laid
          <6> QED BY <5>1, <4>1, <6>1
        <5>2. CASE i - 1 # 1
          BY <5>2, <4>1
        <5> QED BY <5>1, <5>2
      <4> QED BY <3>2, <4>1, <4>2
    <3>3. CASE i # 1 /\ i # k
      <4>1. i - 1 \in 1..k /\ i - 1 # k /\ i \in 1..(k - 1) /\ i - 1 \in 1..(k - 1)
        BY <2>2, <3>3
      <4>2. h[i-1] = g[i-1]
        <5>1. CASE i - 1 = 1
          <6>1. g[1] = s[1]
            <7>1. 1 \in 1..(k - 1)
              BY <5>1, <4>1
            <7> QED BY <7>1, <2>5 DEF Laid
          <6> QED BY <5>1, <4>1, <6>1
        <5>2. CASE i - 1 # 1
          BY <5>2, <4>1
        <5> QED BY <5>1, <5>2
      <4>3. g[i] = g[i-1] \o s[i]
        <5>1. g = [j \in 1..(k-1) |-> IF j = 1 THEN s[j] ELSE g[j-1] \o s[j]]
          BY <2>5 DEF Laid
        <5> QED BY <3>3, <4>1, <5>1
      <4> QED BY <3>3, <4>1, <4>2, <4>3
    <3> QED BY <3>1, <3>2, <3>3
  <2>7. h = [i \in 1..k |-> e(i)]
    <3>1. h = [i \in 1..k |-> h[i]]
      OBVIOUS
    <3> HIDE DEF h
    <3> QED BY <2>6, <3>1
  <2>8. Laid(h, s, k)
    <3> HIDE DEF h
    <3> QED BY <2>7 DEF Laid
  <2> QED BY <2>2, <2>8
<1> QED BY <1>1

\* What FlattenSeq is defined as.
LEMMA FlattenUnfolds ==
    ASSUME NEW s, Len(s) \in Nat \ {0}
    PROVE  \E g : Laid(g, s, Len(s)) /\ FlattenSeq(s) = g[Len(s)]
<1> DEFINE g == CHOOSE g : Laid(g, s, Len(s))
<1>1. Laid(g, s, Len(s))
  BY LaidOut
<1>2. FlattenSeq(s) = g[Len(s)]
  BY DEF FlattenSeq, Laid
<1> QED BY <1>1, <1>2

\* A function that lays a sequence longer by one agrees with one that lays
\* the sequence.
LEMMA LaidAlike ==
    ASSUME NEW n \in Nat, NEW m \in Nat, NEW s, NEW t, NEW g, NEW h, n <= m,
           \A i \in 1..n : s[i] = t[i], Laid(g, s, n), Laid(h, t, m)
    PROVE  \A i \in 1..n : g[i] = h[i]
<1> DEFINE Bad == {i \in 1..n : g[i] # h[i]}
<1>1. Bad = {}
  <2> SUFFICES ASSUME Bad # {} PROVE FALSE
    OBVIOUS
  <2>0. Bad \in SUBSET Nat
    OBVIOUS
  <2>1. PICK k \in Bad : \A j \in Bad : k <= j
    <3> HIDE DEF Bad
    <3> QED BY <2>0, LeastNumber
  <2>2. k \in 1..n /\ k \in 1..m /\ g[k] # h[k] /\ s[k] = t[k]
    OBVIOUS
  <2>3. g[k] = (IF k = 1 THEN s[k] ELSE g[k-1] \o s[k])
    BY <2>2 DEF Laid
  <2>4. h[k] = (IF k = 1 THEN t[k] ELSE h[k-1] \o t[k])
    BY <2>2 DEF Laid
  <2>5. k # 1
    BY <2>2, <2>3, <2>4
  <2>6. k - 1 \in 1..n /\ ~(k <= k - 1)
    BY <2>2, <2>5
  <2>7. g[k-1] = h[k-1]
    BY <2>1, <2>6
  <2> QED BY <2>2, <2>3, <2>4, <2>7
<1> QED BY <1>1

\* One more sequence is laid after those before it.
LEMMA FlattenAppend ==
    ASSUME NEW S, NEW s \in Seq(Seq(S)), NEW x \in Seq(S)
    PROVE  FlattenSeq(Append(s, x)) = FlattenSeq(s) \o x
<1> DEFINE t == Append(s, x)
           n == Len(s)
<1>1. n \in Nat /\ t \in Seq(Seq(S)) /\ Len(t) = n + 1 /\ t[n + 1] = x
      /\ \A i \in 1..n : t[i] = s[i]
  BY LenProperties, AppendProperties
<1> HIDE DEF t
<1>2. PICK h : Laid(h, t, Len(t)) /\ FlattenSeq(t) = h[Len(t)]
  BY <1>1, FlattenUnfolds
<1>3. h[n + 1] = (IF n + 1 = 1 THEN t[n + 1] ELSE h[(n + 1) - 1] \o t[n + 1])
  <2>1. n + 1 \in 1..Len(t)
    BY <1>1
  <2> QED BY <1>2, <2>1 DEF Laid
<1>4. CASE n = 0
  <2>1. s = << >> /\ FlattenSeq(s) = s
    BY <1>4, EmptySeq DEF FlattenSeq
  <2>2. << >> \o x = x
    BY ConcatEmptySeq
  <2> QED BY <1>1, <1>2, <1>3, <1>4, <2>1, <2>2 DEF t
<1>5. CASE n # 0
  <2>1. PICK g : Laid(g, s, n) /\ FlattenSeq(s) = g[n]
    BY <1>1, <1>5, FlattenUnfolds
  <2>2. g[n] = h[n]
    <3>1. \A i \in 1..n : g[i] = h[i]
      <4>1. n <= n + 1 /\ n + 1 \in Nat /\ Laid(h, t, n + 1)
        BY <1>1, <1>2
      <4>2. \A i \in 1..n : s[i] = t[i]
        BY <1>1
      <4>3. n \in Nat /\ Laid(g, s, n)
        BY <1>1, <2>1
      <4> HIDE DEF n
      <4>4. \A k \in Nat, m \in Nat : \A a, b, c, d : k <= m =>
               ((\A i \in 1..k : a[i] = b[i]) => (Laid(c, a, k) => (Laid(d, b, m) =>
                  \A i \in 1..k : c[i] = d[i])))
        BY LaidAlike, Zenon
      <4> QED BY <4>1, <4>2, <4>3, <4>4
    <3>2. n \in 1..n
      BY <1>1, <1>5
    <3> QED BY <3>1, <3>2
  <2>3. FlattenSeq(t) = h[n] \o x
    BY <1>1, <1>2, <1>3, <1>5
  <2> QED BY <2>1, <2>2, <2>3 DEF t
<1> QED BY <1>4, <1>5

\* Nothing is laid out of nothing, and what is laid are elements of S.
LEMMA FlattenType ==
    ASSUME NEW S, NEW s \in Seq(Seq(S))
    PROVE  /\ FlattenSeq(<< >>) = << >>
           /\ FlattenSeq(s) \in Seq(S)
<1>0. Len(s) \in Nat
  BY LenProperties
<1>1. FlattenSeq(<< >>) = << >>
  BY EmptySeq DEF FlattenSeq
<1> DEFINE Bad == {k \in Nat : k <= Len(s) /\ ~(FlattenSeq(SubSeq(s, 1, k)) \in Seq(S))}
<1>2. Bad = {}
  <2> SUFFICES ASSUME Bad # {} PROVE FALSE
    OBVIOUS
  <2>0. Bad \in SUBSET Nat
    OBVIOUS
  <2>1. PICK k \in Bad : \A m \in Bad : k <= m
    <3> HIDE DEF Bad
    <3> QED BY <2>0, LeastNumber
  <2>2. k \in Nat /\ k <= Len(s) /\ ~(FlattenSeq(SubSeq(s, 1, k)) \in Seq(S))
    OBVIOUS
  <2>3. CASE k = 0
    <3>1. SubSeq(s, 1, 0) = << >>
      BY SubSeqProperties, <1>0
    <3>2. << >> \in Seq(S)
      BY EmptySeq
    <3> QED BY <1>1, <2>2, <2>3, <3>1, <3>2
  <2>4. CASE k # 0
    <3> DEFINE b == SubSeq(s, 1, k - 1)
    <3>1. k - 1 \in Nat /\ k - 1 <= Len(s) /\ ~(k <= k - 1) /\ k \in 1..Len(s)
      BY <1>0, <2>2, <2>4
    <3>2. FlattenSeq(b) \in Seq(S)
      <4>1. ~(k - 1 \in Bad)
        BY <2>1, <3>1
      <4> QED BY <3>1, <4>1
    <3>3. b \in Seq(Seq(S)) /\ s[k] \in Seq(S)
      BY <3>1, ElementOfSeq, SubSeqProperties
    <3>4. SubSeq(s, 1, k) = Append(b, s[k])
      BY <1>0, <3>1
    <3>5. FlattenSeq(Append(b, s[k])) = FlattenSeq(b) \o s[k]
      BY <3>3, FlattenAppend
    <3>6. FlattenSeq(b) \o s[k] \in Seq(S)
      BY <3>2, <3>3, ConcatProperties
    <3> QED BY <2>2, <3>4, <3>5, <3>6
  <2> QED BY <2>3, <2>4
<1>3. SubSeq(s, 1, Len(s)) = s
  BY <1>0
<1>4. ~(Len(s) \in Bad)
  BY <1>2
<1>5. FlattenSeq(SubSeq(s, 1, Len(s))) \in Seq(S)
  BY <1>0, <1>4
<1> QED BY <1>1, <1>3, <1>5

-----------------------------------------------------------------------------
(* Encoded texts.                                                          *)

\* The symbols of a character, and the signature is not empty.
LEMMA SymbolsTyped ==
    ASSUME NEW form \in Form
    PROVE  /\ \A c \in Char : Symbols(c, form) \in Seq(Sym)
           /\ Signature(form) \in Seq(Sym)
           /\ Len(Signature(form)) \in Nat \ {0}
           /\ 2 * Len(Signature(form)) <= ExtraReserve
<1>1. ASSUME NEW c \in Char PROVE Symbols(c, form) \in Seq(Sym)
  <2>1. Bytes[c] \in Seq(Range(Bytes[c])) /\ Range(Bytes[c]) \subseteq Sym /\ c \in Sym
    <3>1. Bytes[c] \in Seq(Range(Bytes[c]))
      BY TextAssumption DEF Char
    <3>2. Range(Bytes[c]) \in {Range(Bytes[d]) : d \in Char}
      OBVIOUS
    <3>3. Range(Bytes[c]) \subseteq Sym
      BY <3>2, Zenon DEF Sym
    <3>4. c \in Sym
      BY Zenon DEF Sym
    <3> QED BY <3>1, <3>3, <3>4
  <2>2. Bytes[c] \in Seq(Sym)
    <3>1. Bytes[c] \in [1..Len(Bytes[c]) -> Range(Bytes[c])] /\ Len(Bytes[c]) \in Nat
      BY <2>1, LenProperties
    <3>2. Bytes[c] \in [1..Len(Bytes[c]) -> Sym]
      BY <2>1, <3>1
    <3> QED BY <3>1, <3>2, SeqDef
  <2>3. << c >> \in Seq(Sym)
    BY <2>1
  <2> QED BY <2>2, <2>3 DEF Symbols
<1>2. Bom \in Char /\ Bytes[Bom] # << >>
  BY TextAssumption DEF Char
<1>3. Signature(form) \in Seq(Sym)
  BY <1>1, <1>2 DEF Signature
<1>4. Bytes[Bom] \in Seq(Range(Bytes[Bom]))
  BY TextAssumption
<1>5. Len(Bytes[Bom]) \in Nat /\ Len(Bytes[Bom]) # 0
  BY <1>2, <1>4, EmptySeq, LenProperties
<1>6. Len(Signature(form)) = (IF form = "narrow" THEN Len(Bytes[Bom]) ELSE 1)
  BY DEF Signature, Symbols
<1>7. ExtraReserve \in Nat /\ ExtraReserve >= 2 * Len(Bytes[Bom])
  BY SizeAssumption
<1>8. Len(Signature(form)) \in Nat \ {0} /\ 2 * Len(Signature(form)) <= ExtraReserve
  BY <1>5, <1>6, <1>7
<1> QED BY <1>1, <1>3, <1>8

\* A text is encoded character by character.
LEMMA EncodedGrows ==
    ASSUME NEW form \in Form, NEW text \in Seq(Char)
    PROVE  /\ Encoded(<< >>, form) = << >>
           /\ Encoded(text, form) \in Seq(Sym)
           /\ \A c \in Char : Encoded(Append(text, c), form) = Encoded(text, form) \o Symbols(c, form)
<1> DEFINE pieces(t) == [i \in DOMAIN t |-> Symbols(t[i], form)]
<1>1. ASSUME NEW t \in Seq(Char)
      PROVE  pieces(t) \in Seq(Seq(Sym)) /\ Len(pieces(t)) = Len(t)
             /\ \A i \in 1..Len(t) : pieces(t)[i] = Symbols(t[i], form)
  <2>1. Len(t) \in Nat /\ DOMAIN t = 1..Len(t) /\ \A i \in 1..Len(t) : t[i] \in Char
    BY LenProperties, ElementOfSeq
  <2>2. pieces(t) \in [1..Len(t) -> Seq(Sym)]
    BY <2>1, SymbolsTyped
  <2> QED BY <2>1, <2>2, SeqDef
<1>2. \A t : Encoded(t, form) = FlattenSeq(pieces(t))
  BY DEF Encoded
<1>3. pieces(<< >>) = << >>
  <2>1. << >> \in Seq(Char) /\ Len(<< >>) = 0
    BY EmptySeq
  <2>2. pieces(<< >>) \in Seq(Seq(Sym)) /\ Len(pieces(<< >>)) = 0
    BY <1>1, <2>1
  <2> QED BY <2>2, EmptySeq
<1> HIDE DEF pieces
<1>4. Encoded(<< >>, form) = << >>
  BY <1>2, <1>3, FlattenType, EmptySeq
<1>5. Encoded(text, form) \in Seq(Sym)
  BY <1>1, <1>2, FlattenType
<1>6. ASSUME NEW c \in Char
      PROVE Encoded(Append(text, c), form) = Encoded(text, form) \o Symbols(c, form)
  <2> DEFINE t == Append(text, c)
             x == Symbols(c, form)
  <2>1. t \in Seq(Char) /\ Len(t) = Len(text) + 1 /\ Len(text) \in Nat /\ t[Len(text) + 1] = c
        /\ \A i \in 1..Len(text) : t[i] = text[i]
    BY AppendProperties, LenProperties
  <2>2. x \in Seq(Sym)
    BY SymbolsTyped
  <2> HIDE DEF t, x
  <2>3. pieces(t) = Append(pieces(text), x)
    <3>1. /\ pieces(t) \in Seq(Seq(Sym)) /\ Len(pieces(t)) = Len(text) + 1
          /\ \A i \in 1..(Len(text) + 1) : pieces(t)[i] = Symbols(t[i], form)
      BY <1>1, <2>1
    <3>2. /\ pieces(text) \in Seq(Seq(Sym)) /\ Len(pieces(text)) = Len(text)
          /\ \A i \in 1..Len(text) : pieces(text)[i] = Symbols(text[i], form)
      BY <1>1
    <3>3. /\ Append(pieces(text), x) \in Seq(Seq(Sym))
          /\ Len(Append(pieces(text), x)) = Len(text) + 1
          /\ Append(pieces(text), x)[Len(text) + 1] = x
          /\ \A i \in 1..Len(text) : Append(pieces(text), x)[i] = pieces(text)[i]
      BY <2>2, <3>2, AppendProperties
    <3>4. ASSUME NEW i \in 1..(Len(text) + 1) PROVE pieces(t)[i] = Append(pieces(text), x)[i]
      <4>1. CASE i = Len(text) + 1
        BY <2>1, <3>1, <3>3, <4>1 DEF x
      <4>2. CASE i # Len(text) + 1
        <5>1. i \in 1..Len(text)
          BY <2>1, <4>2
        <5> QED BY <2>1, <3>1, <3>2, <3>3, <5>1
      <4> QED BY <4>1, <4>2
    <3> QED BY <3>1, <3>3, <3>4, SeqEqual
  <2>4. FlattenSeq(Append(pieces(text), x)) = FlattenSeq(pieces(text)) \o x
    BY <1>1, <2>2, FlattenAppend
  <2>5. Encoded(t, form) = Encoded(text, form) \o x
    BY <1>2, <2>3, <2>4
  <2> QED BY <2>5 DEF t, x
<1> QED BY <1>4, <1>5, <1>6

\* The texts of two texts one after the other are encoded one after the other.
LEMMA EncodedJoins ==
    ASSUME NEW form \in Form, NEW a \in Seq(Char), NEW b \in Seq(Char)
    PROVE  Encoded(a \o b, form) = Encoded(a, form) \o Encoded(b, form)
<1> DEFINE up(k) == SubSeq(b, 1, k)
           Bad == {k \in Nat : /\ k <= Len(b)
                               /\ Encoded(a \o up(k), form) # Encoded(a, form) \o Encoded(up(k), form)}
<1>0. Len(b) \in Nat /\ Encoded(a, form) \in Seq(Sym) /\ Encoded(<< >>, form) = << >>
  BY LenProperties, EncodedGrows
<1>1. Bad = {}
  <2> SUFFICES ASSUME Bad # {} PROVE FALSE
    OBVIOUS
  <2>0. Bad \in SUBSET Nat
    OBVIOUS
  <2>1. PICK k \in Bad : \A m \in Bad : k <= m
    <3> HIDE DEF Bad
    <3> QED BY <2>0, LeastNumber
  <2>2. k \in Nat /\ k <= Len(b)
        /\ Encoded(a \o up(k), form) # Encoded(a, form) \o Encoded(up(k), form)
    OBVIOUS
  <2>3. CASE k = 0
    <3>1. up(k) = << >>
      BY <2>3, SubSeqEmpty
    <3>2. a \o << >> = a /\ Encoded(a, form) \o << >> = Encoded(a, form)
      BY <1>0, ConcatEmptySeq
    <3> QED BY <1>0, <2>2, <3>1, <3>2
  <2>4. CASE k # 0
    <3>1. k - 1 \in Nat /\ k - 1 <= Len(b) /\ ~(k <= k - 1) /\ k \in 1..Len(b)
      BY <1>0, <2>2, <2>4
    <3>2. Encoded(a \o up(k - 1), form) = Encoded(a, form) \o Encoded(up(k - 1), form)
      <4>1. ~(k - 1 \in Bad)
        BY <2>1, <3>1
      <4> QED BY <3>1, <4>1
    <3>3. up(k - 1) \in Seq(Char) /\ b[k] \in Char /\ up(k) = Append(up(k - 1), b[k])
      BY <1>0, <3>1
    <3> DEFINE u == up(k - 1)
               c == b[k]
               x == Symbols(c, form)
    <3>4. a \o Append(u, c) = Append(a \o u, c) /\ a \o u \in Seq(Char)
      <4>1. u \in Seq(Char) /\ c \in Char /\ << c >> \in Seq(Char)
        BY <3>3
      <4> HIDE DEF u, c
      <4>2. a \o u \in Seq(Char)
        BY <4>1, ConcatProperties
      <4>3. Append(u, c) = u \o << c >> /\ Append(a \o u, c) = (a \o u) \o << c >>
        BY <4>1, <4>2, AppendIsConcat
      <4>4. (a \o u) \o << c >> = a \o (u \o << c >>)
        <5> DEFINE v == << c >>
                   X == Char
        <5>1. v \in Seq(X) /\ u \in Seq(X) /\ a \in Seq(X)
          BY <4>1
        <5> HIDE DEF v, X, Bad, up
        <5>2. (a \o u) \o v = a \o (u \o v)
          BY <5>1, Regrouped
        <5> QED BY <5>2 DEF v
      <4> QED BY <4>2, <4>3, <4>4
    <3> HIDE DEF u, c
    <3>5. /\ Encoded(Append(a \o u, c), form) = Encoded(a \o u, form) \o x
          /\ Encoded(Append(u, c), form) = Encoded(u, form) \o x
          /\ Encoded(u, form) \in Seq(Sym) /\ x \in Seq(Sym)
      BY <3>3, <3>4, EncodedGrows, SymbolsTyped DEF u, c
    <3>6. (Encoded(a, form) \o Encoded(u, form)) \o x = Encoded(a, form) \o (Encoded(u, form) \o x)
      <4> DEFINE A == Encoded(a, form)
                 U == Encoded(u, form)
      <4>1. A \in Seq(Sym) /\ U \in Seq(Sym) /\ x \in Seq(Sym)
        BY <1>0, <3>5
      <4> HIDE DEF x, A, U, Bad, up
      <4>2. (A \o U) \o x = A \o (U \o x)
        BY <4>1, Regrouped
      <4> QED BY <4>2 DEF A, U
    <3> HIDE DEF x
    <3>7. Encoded(a \o up(k), form) = Encoded(a, form) \o Encoded(up(k), form)
      BY <3>2, <3>3, <3>4, <3>5, <3>6 DEF u, c
    <3> QED BY <2>2, <3>7
  <2> QED BY <2>3, <2>4
<1>2. up(Len(b)) = b
  BY SubSeqFull
<1>3. ~(Len(b) \in Bad)
  BY <1>1
<1>4. Encoded(a \o up(Len(b)), form) = Encoded(a, form) \o Encoded(up(Len(b)), form)
  BY <1>0, <1>3
<1> QED BY <1>2, <1>4

-----------------------------------------------------------------------------
(* Signatures taken off.                                                   *)

End(d, n) == SubSeq(d, Len(d) - n + 1, Len(d))

\* What WithoutSignature computes for one end of d ...
Rest(r, d, sig, n) == IF IsPrefix(sig, End(d, n)) THEN r[n - Len(sig)] ELSE End(d, n)

\* ... and for all up to k symbols.
Rests(r, d, sig, k) == r = [n \in 0..k |-> Rest(r, d, sig, n)]

\* The ends of a sequence.
LEMMA Ends ==
    ASSUME NEW d \in Seq(Sym), NEW n \in 0..Len(d)
    PROVE  /\ End(d, n) \in Seq(Sym)
           /\ Len(End(d, n)) = n
           /\ \A i \in 1..n : End(d, n)[i] = d[(Len(d) - n) + i]
<1>1. Len(d) \in Nat /\ n \in Nat /\ n <= Len(d) /\ Len(d) - n + 1 \in Int
  BY LenProperties
<1>2. \A i \in (Len(d) - n + 1)..Len(d) : d[i] \in Sym
  BY <1>1, ElementOfSeq
<1>3. /\ End(d, n) \in Seq(Sym)
      /\ Len(End(d, n)) = (IF Len(d) - n + 1 <= Len(d) THEN Len(d) - (Len(d) - n + 1) + 1 ELSE 0)
      /\ \A i \in 1..(Len(d) - (Len(d) - n + 1) + 1) : End(d, n)[i] = d[(Len(d) - n + 1) + i - 1]
  BY <1>1, <1>2, SubSeqProperties DEF End
<1>4. Len(d) - (Len(d) - n + 1) + 1 = n
  BY <1>1
<1>5. ASSUME NEW i \in 1..n PROVE End(d, n)[i] = d[(Len(d) - n) + i]
  <2>1. (Len(d) - n + 1) + i - 1 = (Len(d) - n) + i
    BY <1>1
  <2> QED BY <1>3, <1>4, <2>1
<1> QED BY <1>1, <1>3, <1>4, <1>5

\* The end of an end.
LEMMA EndOfEnd ==
    ASSUME NEW d \in Seq(Sym), NEW n \in 0..Len(d), NEW m \in 0..n
    PROVE  End(End(d, n), m) = End(d, m)
<1>1. Len(d) \in Nat /\ n \in Nat /\ m \in Nat /\ n <= Len(d) /\ m <= n /\ m \in 0..Len(d)
  BY LenProperties
<1> DEFINE e == End(d, n)
<1>2. e \in Seq(Sym) /\ Len(e) = n /\ \A i \in 1..n : e[i] = d[(Len(d) - n) + i]
  BY Ends
<1> HIDE DEF e
<1>3. End(e, m) \in Seq(Sym) /\ Len(End(e, m)) = m
      /\ \A i \in 1..m : End(e, m)[i] = e[(n - m) + i]
  BY <1>1, <1>2, Ends
<1>4. End(d, m) \in Seq(Sym) /\ Len(End(d, m)) = m
      /\ \A i \in 1..m : End(d, m)[i] = d[(Len(d) - m) + i]
  BY <1>1, Ends
<1>5. ASSUME NEW i \in 1..m PROVE End(e, m)[i] = End(d, m)[i]
  <2>1. (n - m) + i \in 1..n /\ (Len(d) - n) + ((n - m) + i) = (Len(d) - m) + i
    BY <1>1
  <2>2. e[(n - m) + i] = d[(Len(d) - m) + i]
    BY <1>2, <2>1
  <2> QED BY <1>3, <1>4, <2>2
<1>6. End(e, m) = End(d, m)
  BY <1>3, <1>4, <1>5, SeqEqual
<1> QED BY <1>6 DEF e

\* A sequence that begins with the signature is not shorter.
LEMMA PrefixFits ==
    ASSUME NEW sig \in Seq(Sym), NEW d \in Seq(Sym), NEW n \in 0..Len(d), IsPrefix(sig, End(d, n))
    PROVE  Len(sig) <= n
  BY Ends DEF IsPrefix

\* The function WithoutSignature is defined by is there.
LEMMA RestsExist ==
    ASSUME NEW sig \in Seq(Sym), Len(sig) # 0, NEW d \in Seq(Sym)
    PROVE  \E r : Rests(r, d, sig, Len(d))
<1> DEFINE Bad == {k \in Nat : k <= Len(d) /\ ~\E r : Rests(r, d, sig, k)}
<1>0. Len(d) \in Nat /\ Len(sig) \in Nat /\ Len(sig) # 0
  BY LenProperties
<1>1. Bad = {}
  <2> SUFFICES ASSUME Bad # {} PROVE FALSE
    OBVIOUS
  <2>0. Bad \in SUBSET Nat
    OBVIOUS
  <2>1. PICK k \in Bad : \A m \in Bad : k <= m
    <3> HIDE DEF Bad
    <3> QED BY <2>0, LeastNumber
  <2>2. k \in Nat /\ k <= Len(d) /\ ~\E r : Rests(r, d, sig, k)
    OBVIOUS
  <2>3. \E g : \A n \in 0..(k - 1) : g[n] = Rest(g, d, sig, n)
    <3>1. CASE k = 0
      BY <3>1
    <3>2. CASE k # 0
      <4>1. k - 1 \in Nat /\ k - 1 <= Len(d) /\ ~(k <= k - 1)
        BY <1>0, <2>2, <3>2
      <4>2. ~(k - 1 \in Bad)
        BY <2>1, <4>1
      <4>3. PICK g : Rests(g, d, sig, k - 1)
        BY <4>1, <4>2
      <4>4. g = [n \in 0..(k - 1) |-> Rest(g, d, sig, n)]
        BY <4>3 DEF Rests
      <4> QED BY <4>4
    <3> QED BY <3>1, <3>2
  <2>4. PICK g : \A n \in 0..(k - 1) : g[n] = Rest(g, d, sig, n)
    BY <2>3
  <2> DEFINE h == [n \in 0..k |-> IF n = k THEN Rest(g, d, sig, n) ELSE g[n]]
  <2>5. \A n \in 0..k : h[n] = IF n = k THEN Rest(g, d, sig, n) ELSE g[n]
    OBVIOUS
  <2>6. h = [n \in 0..k |-> h[n]]
    OBVIOUS
  <2> HIDE DEF h
  <2>7. ASSUME NEW n \in 0..k PROVE h[n] = Rest(h, d, sig, n)
    <3>1. h[n] = Rest(g, d, sig, n)
      <4>1. CASE n = k
        BY <2>5, <4>1
      <4>2. CASE n # k
        <5>1. n \in 0..(k - 1)
          BY <2>2, <4>2
        <5> QED BY <2>4, <2>5, <4>2, <5>1
      <4> QED BY <4>1, <4>2
    <3>2. CASE IsPrefix(sig, End(d, n))
      <4>1. n \in 0..Len(d)
        BY <1>0, <2>2
      <4>2. Len(sig) <= n
        BY <3>2, <4>1, PrefixFits
      <4>3. n - Len(sig) \in 0..k /\ n - Len(sig) # k
        BY <1>0, <2>2, <4>2
      <4>4. h[n - Len(sig)] = g[n - Len(sig)]
        BY <2>5, <4>3
      <4> QED BY <3>1, <3>2, <4>4 DEF Rest
    <3>3. CASE ~IsPrefix(sig, End(d, n))
      BY <3>1, <3>3 DEF Rest
    <3> QED BY <3>2, <3>3
  <2>8. Rests(h, d, sig, k)
    <3>1. [n \in 0..k |-> h[n]] = [n \in 0..k |-> Rest(h, d, sig, n)]
      BY <2>7
    <3> QED BY <2>6, <3>1 DEF Rests
  <2> QED BY <2>2, <2>8
<1>2. ~(Len(d) \in Bad)
  BY <1>1
<1> QED BY <1>0, <1>2

\* What a destination without its signature is defined as.
LEMMA WithoutSignatureIs ==
    ASSUME NEW form \in Form, NEW d \in Seq(Sym)
    PROVE  \E r : Rests(r, d, Signature(form), Len(d)) /\ WithoutSignature(d, form) = r[Len(d)]
<1> DEFINE r == CHOOSE r : Rests(r, d, Signature(form), Len(d))
<1>1. Rests(r, d, Signature(form), Len(d))
  <2>1. Signature(form) \in Seq(Sym) /\ Len(Signature(form)) # 0
    BY SymbolsTyped
  <2> QED BY <2>1, RestsExist
<1>2. WithoutSignature(d, form) = r[Len(d)]
  BY DEF WithoutSignature, Rests, Rest, End
<1> QED BY <1>1, <1>2

\* What is left of equal ends of two sequences is equal.
LEMMA RestsAlike ==
    ASSUME NEW sig \in Seq(Sym), Len(sig) # 0, NEW d \in Seq(Sym), NEW e \in Seq(Sym),
           NEW p, NEW q, Rests(p, d, sig, Len(d)), Rests(q, e, sig, Len(e)),
           NEW m \in 0..Len(d), m <= Len(e), End(d, m) = End(e, m)
    PROVE  p[m] = q[m]
<1> DEFINE Bad == {n \in Nat : n <= m /\ p[n] # q[n]}
<1>0. /\ Len(d) \in Nat /\ Len(e) \in Nat /\ Len(sig) \in Nat /\ Len(sig) # 0
      /\ m \in Nat /\ m \in 0..Len(e)
  BY LenProperties
<1>1. Bad = {}
  <2> SUFFICES ASSUME Bad # {} PROVE FALSE
    OBVIOUS
  <2>0. Bad \in SUBSET Nat
    OBVIOUS
  <2>1. PICK n \in Bad : \A i \in Bad : n <= i
    <3> HIDE DEF Bad
    <3> QED BY <2>0, LeastNumber
  <2>2. n \in Nat /\ n <= m /\ p[n] # q[n]
    OBVIOUS
  <2>3. n \in 0..Len(d) /\ n \in 0..Len(e) /\ n \in 0..m
    BY <1>0, <2>2
  <2>4. End(d, n) = End(e, n)
    <3>1. End(End(d, m), n) = End(d, n) /\ End(End(e, m), n) = End(e, n)
      BY <1>0, <2>3, EndOfEnd
    <3> QED BY <3>1
  <2>5. p[n] = Rest(p, d, sig, n) /\ q[n] = Rest(q, e, sig, n)
    BY <2>3 DEF Rests
  <2>6. CASE IsPrefix(sig, End(d, n))
    <3>1. Len(sig) <= n
      BY <2>3, <2>6, PrefixFits
    <3>2. n - Len(sig) \in Nat /\ n - Len(sig) <= m /\ ~(n <= n - Len(sig))
      BY <1>0, <2>2, <3>1
    <3>3. p[n - Len(sig)] = q[n - Len(sig)]
      BY <2>1, <3>2
    <3> QED BY <2>2, <2>4, <2>5, <2>6, <3>3 DEF Rest
  <2>7. CASE ~IsPrefix(sig, End(d, n))
    BY <2>2, <2>4, <2>5, <2>7 DEF Rest
  <2> QED BY <2>6, <2>7
<1>2. ~(m \in Bad)
  BY <1>1
<1> QED BY <1>0, <1>2

\* One signature is taken off, and the rest is searched again.
LEMMA WithoutSignatureUnfolds ==
    ASSUME NEW form \in Form, NEW d \in Seq(Sym)
    PROVE  /\ IsPrefix(Signature(form), d) =>
                 /\ Len(Signature(form)) <= Len(d)
                 /\ WithoutSignature(d, form) = WithoutSignature(End(d, Len(d) - Len(Signature(form))), form)
           /\ ~IsPrefix(Signature(form), d) => WithoutSignature(d, form) = d
<1> DEFINE sig == Signature(form)
<1>1. sig \in Seq(Sym) /\ Len(sig) \in Nat /\ Len(sig) # 0 /\ Len(d) \in Nat
  BY SymbolsTyped, LenProperties
<1>2. PICK p : Rests(p, d, sig, Len(d)) /\ WithoutSignature(d, form) = p[Len(d)]
  BY WithoutSignatureIs
<1> HIDE DEF sig
<1>3. End(d, Len(d)) = d
  <2>1. Len(d) - Len(d) + 1 = 1
    BY <1>1
  <2> QED BY <2>1, SubSeqFull DEF End
<1>4. p[Len(d)] = Rest(p, d, sig, Len(d))
  <2>1. Len(d) \in 0..Len(d)
    BY <1>1
  <2> QED BY <1>2, <2>1 DEF Rests
<1>5. CASE IsPrefix(sig, d)
  <2> DEFINE m == Len(d) - Len(sig)
             e == End(d, m)
  <2>1. Len(sig) <= Len(d)
    BY <1>5 DEF IsPrefix
  <2>2. m \in 0..Len(d) /\ m \in Nat
    BY <1>1, <2>1
  <2>3. e \in Seq(Sym) /\ Len(e) = m
    BY <2>2, Ends
  <2> HIDE DEF m
  <2>4. PICK q : Rests(q, e, sig, Len(e)) /\ WithoutSignature(e, form) = q[Len(e)]
    BY <2>3, WithoutSignatureIs DEF sig
  <2>5. End(e, m) = End(d, m)
    <3>1. m \in 0..m
      BY <2>2
    <3> QED BY <2>2, <3>1, EndOfEnd
  <2> HIDE DEF e
  <2>6. p[m] = q[m]
    <3>1. m <= Len(e) /\ End(d, m) = End(e, m)
      BY <2>2, <2>3, <2>5
    <3> QED BY <1>1, <1>2, <2>2, <2>3, <2>4, <3>1, RestsAlike
  <2>7. p[Len(d)] = p[m]
    BY <1>3, <1>4, <1>5 DEF Rest, m
  <2> QED BY <1>2, <1>5, <2>1, <2>3, <2>4, <2>6, <2>7 DEF sig, m, e
<1>6. CASE ~IsPrefix(sig, d)
  BY <1>2, <1>3, <1>4, <1>6 DEF Rest, sig
<1> QED BY <1>5, <1>6 DEF sig

\* The two parts of a sequence.
LEMMA TwoParts ==
    ASSUME NEW S, NEW a \in Seq(S), NEW b \in Seq(S)
    PROVE  /\ a \o b \in Seq(S) /\ Len(a \o b) = Len(a) + Len(b)
           /\ SubSeq(a \o b, 1, Len(a)) = a
           /\ SubSeq(a \o b, Len(a) + 1, Len(a \o b)) = b
<1>1. a \o b \in Seq(S) /\ Len(a \o b) = Len(a) + Len(b) /\ Len(a) \in Nat /\ Len(b) \in Nat
      /\ \A i \in 1..Len(a) + Len(b) : (a \o b)[i] = IF i <= Len(a) THEN a[i] ELSE b[i - Len(a)]
  BY ConcatProperties, LenProperties
<1> DEFINE c == a \o b
<1> HIDE DEF c
<1>2. c \in Seq(S) /\ Len(c) = Len(a) + Len(b)
      /\ \A i \in 1..Len(a) + Len(b) : c[i] = IF i <= Len(a) THEN a[i] ELSE b[i - Len(a)]
  BY <1>1 DEF c
<1>3. \A i \in 1..Len(c) : c[i] \in S
  BY <1>2, ElementOfSeq
<1>4. SubSeq(c, 1, Len(a)) = a
  <2>1. /\ SubSeq(c, 1, Len(a)) \in Seq(S) /\ Len(SubSeq(c, 1, Len(a))) = Len(a)
        /\ \A i \in 1..Len(a) : SubSeq(c, 1, Len(a))[i] = c[i]
    BY <1>1, <1>2, <1>3, SubSeqProperties
  <2>2. \A i \in 1..Len(a) : c[i] = a[i]
    BY <1>1, <1>2
  <2> QED BY <2>1, <2>2, SeqEqual
<1>5. SubSeq(c, Len(a) + 1, Len(c)) = b
  <2> DEFINE e == SubSeq(c, Len(a) + 1, Len(c))
  <2>1. /\ e \in Seq(S) /\ Len(e) = Len(b)
        /\ \A i \in 1..Len(b) : e[i] = c[Len(a) + i]
    BY <1>1, <1>2, <1>3, SubSeqProperties
  <2>2. \A i \in 1..Len(b) : c[Len(a) + i] = b[i]
    BY <1>1, <1>2
  <2> HIDE DEF e
  <2>3. e = b
    BY <2>1, <2>2, SeqEqual
  <2> QED BY <2>3 DEF e
<1> QED BY <1>2, <1>4, <1>5 DEF c

\* A signature before a text is taken off with those of the text.
LEMMA SignatureTakenOff ==
    ASSUME NEW form \in Form, NEW d \in Seq(Sym)
    PROVE  WithoutSignature(Signature(form) \o d, form) = WithoutSignature(d, form)
<1> DEFINE sig == Signature(form)
           e   == sig \o d
<1>1. sig \in Seq(Sym) /\ Len(sig) \in Nat /\ Len(d) \in Nat
  BY SymbolsTyped, LenProperties
<1>2. /\ e \in Seq(Sym) /\ Len(e) = Len(sig) + Len(d)
      /\ SubSeq(e, 1, Len(sig)) = sig /\ SubSeq(e, Len(sig) + 1, Len(e)) = d
  BY <1>1, TwoParts
<1>3. SubSeq(sig, 1, Len(sig)) = sig
  BY <1>1, SubSeqFull
<1> HIDE DEF sig, e
<1>4. IsPrefix(sig, e)
  BY <1>1, <1>2, <1>3 DEF IsPrefix
<1>5. End(e, Len(e) - Len(sig)) = d
  <2>1. Len(e) - (Len(e) - Len(sig)) + 1 = Len(sig) + 1
    BY <1>1, <1>2
  <2> QED BY <1>2, <2>1 DEF End
<1> QED BY <1>2, <1>4, <1>5, WithoutSignatureUnfolds DEF sig, e

\* What begins with the signature is the signature and the rest.
LEMMA PrefixSplits ==
    ASSUME NEW sig \in Seq(Sym), NEW d \in Seq(Sym), IsPrefix(sig, d)
    PROVE  /\ Len(sig) <= Len(d)
           /\ Len(d) - Len(sig) \in 0..Len(d)
           /\ d = sig \o End(d, Len(d) - Len(sig))
<1>1. Len(sig) \in Nat /\ Len(d) \in Nat /\ Len(sig) <= Len(d) /\ SubSeq(sig, 1, Len(sig)) = SubSeq(d, 1, Len(sig))
  BY LenProperties DEF IsPrefix
<1>2. SubSeq(sig, 1, Len(sig)) = sig
  BY SubSeqFull
<1>3. End(d, Len(d) - Len(sig)) = SubSeq(d, Len(sig) + 1, Len(d))
  <2>1. Len(d) - (Len(d) - Len(sig)) + 1 = Len(sig) + 1
    BY <1>1
  <2> QED BY <2>1 DEF End
<1>4. SubSeq(d, 1, Len(sig)) \o SubSeq(d, Len(sig) + 1, Len(d)) = SubSeq(d, 1, Len(d))
  <2>1. 1 \in 1..(Len(d) + 1) /\ Len(sig) \in (1 - 1)..Len(d) /\ Len(d) \in Len(sig)..Len(d)
    BY <1>1
  <2> QED BY <2>1, ConcatAdjacentSubSeq
<1>5. SubSeq(d, 1, Len(d)) = d
  BY SubSeqFull
<1>6. SubSeq(d, 1, Len(sig)) = sig
  BY <1>1, <1>2, Zenon
<1>7. d = sig \o End(d, Len(d) - Len(sig))
  BY <1>3, <1>4, <1>5, <1>6, Zenon
<1>8. Len(d) - Len(sig) \in 0..Len(d)
  BY <1>1
<1> QED BY <1>1, <1>7, <1>8, Zenon

\* One signature less.
LEMMA OneLess ==
    ASSUME NEW form \in Form, NEW d \in Seq(Sym), IsPrefix(Signature(form), d)
    PROVE  \E e \in Seq(Sym) : /\ Len(e) < Len(d)
                               /\ d = Signature(form) \o e
                               /\ WithoutSignature(d, form) = WithoutSignature(e, form)
<1> DEFINE sig == Signature(form)
           e   == End(d, Len(d) - Len(sig))
<1>1. sig \in Seq(Sym) /\ Len(sig) \in Nat /\ Len(sig) # 0 /\ Len(d) \in Nat
  BY SymbolsTyped, LenProperties
<1>2. Len(sig) <= Len(d) /\ Len(d) - Len(sig) \in 0..Len(d) /\ d = sig \o e
  BY <1>1, PrefixSplits
<1>3. e \in Seq(Sym) /\ Len(e) = Len(d) - Len(sig)
  BY <1>2, Ends
<1>4. WithoutSignature(d, form) = WithoutSignature(e, form)
  BY WithoutSignatureUnfolds
<1>5. Len(e) < Len(d)
  BY <1>1, <1>3
<1> HIDE DEF e
<1> QED BY <1>2, <1>3, <1>4, <1>5

\* Taking signatures off leaves symbols, and not more.
LEMMA WithoutSignatureTyped ==
    ASSUME NEW form \in Form, NEW s \in Seq(Sym)
    PROVE  /\ WithoutSignature(s, form) \in Seq(Sym)
           /\ Len(WithoutSignature(s, form)) <= Len(s)
<1> DEFINE P(d) == WithoutSignature(d, form) \in Seq(Sym) /\ Len(WithoutSignature(d, form)) <= Len(d)
           Bad  == {n \in Nat : \E d \in Seq(Sym) : Len(d) = n /\ ~P(d)}
<1> HIDE DEF P
<1>1. Bad = {}
  <2> SUFFICES ASSUME Bad # {} PROVE FALSE
    OBVIOUS
  <2>0. Bad \in SUBSET Nat
    OBVIOUS
  <2>1. PICK n \in Bad : \A m \in Bad : n <= m
    <3> HIDE DEF Bad
    <3> QED BY <2>0, LeastNumber
  <2>2. PICK d \in Seq(Sym) : Len(d) = n /\ ~P(d)
    OBVIOUS
  <2>3. CASE IsPrefix(Signature(form), d)
    <3>1. PICK e \in Seq(Sym) : Len(e) < Len(d) /\ WithoutSignature(d, form) = WithoutSignature(e, form)
      BY <2>3, OneLess
    <3>2. Len(e) \in Nat /\ Len(d) \in Nat /\ ~(Len(d) <= Len(e))
      BY <3>1, LenProperties
    <3>3. P(e)
      BY <2>1, <2>2, <3>2
    <3>4. Len(WithoutSignature(e, form)) \in Nat
      BY <3>3, LenProperties DEF P
    <3> QED BY <2>2, <3>1, <3>2, <3>3, <3>4 DEF P
  <2>4. CASE ~IsPrefix(Signature(form), d)
    <3>1. WithoutSignature(d, form) = d
      BY <2>4, WithoutSignatureUnfolds
    <3>2. Len(d) <= Len(d)
      BY LenProperties
    <3> QED BY <2>2, <3>1, <3>2 DEF P
  <2> QED BY <2>3, <2>4
<1>2. Len(s) \in Nat /\ ~(Len(s) \in Bad)
  BY <1>1, LenProperties
<1>3. P(s)
  BY <1>2
<1> QED BY <1>3 DEF P

\* Signatures taken off the beginning before the rest is there are taken off
\* the whole.
LEMMA TakenOffEarly ==
    ASSUME NEW form \in Form, NEW s \in Seq(Sym), NEW t \in Seq(Sym)
    PROVE  WithoutSignature(WithoutSignature(s, form) \o t, form) = WithoutSignature(s \o t, form)
<1> DEFINE P(d) == WithoutSignature(WithoutSignature(d, form) \o t, form) = WithoutSignature(d \o t, form)
           Bad  == {n \in Nat : \E d \in Seq(Sym) : Len(d) = n /\ ~P(d)}
<1> HIDE DEF P
<1>1. Bad = {}
  <2> SUFFICES ASSUME Bad # {} PROVE FALSE
    OBVIOUS
  <2>0. Bad \in SUBSET Nat
    OBVIOUS
  <2>1. PICK n \in Bad : \A m \in Bad : n <= m
    <3> HIDE DEF Bad
    <3> QED BY <2>0, LeastNumber
  <2>2. PICK d \in Seq(Sym) : Len(d) = n /\ ~P(d)
    OBVIOUS
  <2>3. CASE IsPrefix(Signature(form), d)
    <3>1. PICK e \in Seq(Sym) : /\ Len(e) < Len(d)
                                /\ d = Signature(form) \o e
                                /\ WithoutSignature(d, form) = WithoutSignature(e, form)
      BY <2>3, OneLess
    <3>2. Len(e) \in Nat /\ Len(d) \in Nat /\ ~(Len(d) <= Len(e))
      BY <3>1, LenProperties
    <3>3. P(e)
      BY <2>1, <2>2, <3>2
    <3>4. d \o t = Signature(form) \o (e \o t) /\ e \o t \in Seq(Sym)
      <4> DEFINE sig == Signature(form)
      <4>1. sig \in Seq(Sym)
        BY SymbolsTyped
      <4> HIDE DEF sig, Bad
      <4>2. (sig \o e) \o t = sig \o (e \o t) /\ e \o t \in Seq(Sym)
        BY <4>1, Regrouped
      <4> QED BY <3>1, <4>2 DEF sig
    <3>5. WithoutSignature(d \o t, form) = WithoutSignature(e \o t, form)
      BY <3>4, SignatureTakenOff
    <3> QED BY <2>2, <3>1, <3>3, <3>5 DEF P
  <2>4. CASE ~IsPrefix(Signature(form), d)
    BY <2>2, <2>4, WithoutSignatureUnfolds DEF P
  <2> QED BY <2>3, <2>4
<1>2. Len(s) \in Nat /\ ~(Len(s) \in Bad)
  BY <1>1, LenProperties
<1>3. P(s)
  BY <1>2
<1> QED BY <1>3 DEF P

\* Where there is no signature there never was one to find: the symbols stay,
\* whatever follows.
LEMMA Stays ==
    ASSUME NEW form \in Form, NEW s \in Seq(Sym), NEW t \in Seq(Sym),
           WithoutSignature(s, form) = s, Len(Signature(form)) <= Len(s)
    PROVE  WithoutSignature(s \o t, form) = s \o t
<1> DEFINE sig == Signature(form)
           e   == s \o t
<1>1. sig \in Seq(Sym) /\ Len(sig) \in Nat /\ Len(sig) # 0 /\ Len(s) \in Nat /\ Len(t) \in Nat
  BY SymbolsTyped, LenProperties
<1>2. ~IsPrefix(sig, s)
  <2> SUFFICES ASSUME IsPrefix(sig, s) PROVE FALSE
    OBVIOUS
  <2>1. PICK d \in Seq(Sym) : Len(d) < Len(s) /\ WithoutSignature(s, form) = WithoutSignature(d, form)
    BY OneLess
  <2>2. Len(d) \in Nat /\ Len(s) <= Len(d)
    BY <2>1, LenProperties, WithoutSignatureTyped
  <2> QED BY <1>1, <2>1, <2>2
<1>3. e \in Seq(Sym) /\ SubSeq(e, 1, Len(sig)) = SubSeq(s, 1, Len(sig))
  <2>1. 1 \in 1..Len(s) /\ Len(sig) \in 1..Len(s)
    BY <1>1
  <2> QED BY <1>1, <2>1, SubSeqOfConcat1, ConcatProperties
<1> HIDE DEF sig, e
<1>4. ~IsPrefix(sig, e)
  BY <1>2, <1>3 DEF IsPrefix, sig
<1> QED BY <1>3, <1>4, WithoutSignatureUnfolds DEF sig, e

\* What is shorter than the signature has none.
LEMMA ShortStays ==
    ASSUME NEW form \in Form, NEW s \in Seq(Sym), ~(Len(Signature(form)) <= Len(s))
    PROVE  WithoutSignature(s, form) = s
  BY WithoutSignatureUnfolds, SMTT(30) DEF IsPrefix

-----------------------------------------------------------------------------
(* Parts of a turn.                                                        *)

\* The first symbols of a sequence and the others.
LEMMA Split ==
    ASSUME NEW S, NEW d \in Seq(S), NEW n \in 0..Len(d)
    PROVE  /\ SubSeq(d, 1, n) \in Seq(S) /\ Len(SubSeq(d, 1, n)) = n
           /\ SubSeq(d, n + 1, Len(d)) \in Seq(S) /\ Len(SubSeq(d, n + 1, Len(d))) = Len(d) - n
           /\ SubSeq(d, 1, n) \o SubSeq(d, n + 1, Len(d)) = d
<1>1. Len(d) \in Nat /\ n \in Nat /\ n <= Len(d) /\ \A i \in 1..Len(d) : d[i] \in S
  BY LenProperties, ElementOfSeq
<1>2. SubSeq(d, 1, n) \in Seq(S) /\ Len(SubSeq(d, 1, n)) = n
  BY <1>1, SubSeqProperties
<1>3. SubSeq(d, n + 1, Len(d)) \in Seq(S) /\ Len(SubSeq(d, n + 1, Len(d))) = Len(d) - n
  BY <1>1, SubSeqProperties
<1>4. SubSeq(d, 1, n) \o SubSeq(d, n + 1, Len(d)) = SubSeq(d, 1, Len(d))
  <2>1. 1 \in 1..(Len(d) + 1) /\ n \in (1 - 1)..Len(d) /\ Len(d) \in n..Len(d)
    BY <1>1
  <2> QED BY <2>1, ConcatAdjacentSubSeq
<1>5. SubSeq(d, 1, Len(d)) = d
  BY SubSeqFull
<1> QED BY <1>2, <1>3, <1>4, <1>5

\* ICU delivers, holds back and leaves, in this order, what it held and what
\* there was to convert.
LEMMA DeliveredWhole ==
    ASSUME job.to \in Form, NEW src \in Seq(Char), NEW waiting \in Seq(Sym), NEW room \in Nat,
           NEW icu, icu = Delivered(src, waiting, room)
    PROVE  /\ icu.out \in Seq(Sym) /\ icu.waiting \in Seq(Sym) /\ icu.source \in Seq(Char)
           /\ Len(icu.out) <= room
           /\ icu.out \o (icu.waiting \o Encoded(icu.source, job.to))
                 = waiting \o Encoded(src, job.to)
<1> DEFINE held(n) == waiting \o Encoded(SubSeq(src, 1, n), job.to)
           enough  == {n \in 0..Len(src) : Len(held(n)) >= room}
           taken   == IF enough = {} THEN Len(src) ELSE Min(enough)
<1>1. Len(src) \in Nat
  BY LenProperties
<1>2. taken \in 0..Len(src)
  <2>1. CASE enough = {}
    BY <1>1, <2>1
  <2>2. CASE enough # {}
    <3>1. enough \in SUBSET Nat /\ enough \in SUBSET (0..Len(src))
      BY <1>1
    <3> HIDE DEF enough
    <3>2. \E n \in enough : \A m \in enough : n <= m
      BY <2>2, <3>1, LeastNumber
    <3>3. Min(enough) \in enough
      BY <3>2 DEF Min
    <3> QED BY <2>2, <3>1, <3>3
  <2> QED BY <2>1, <2>2
<1> DEFINE front == SubSeq(src, 1, taken)
           left  == SubSeq(src, taken + 1, Len(src))
           full  == waiting \o Encoded(front, job.to)
           fits  == MinOf(room, Len(full))
<1>3. icu = Parted(full, left, room)
  BY DEF Delivered
<1>4. icu.out = SubSeq(full, 1, fits) /\ icu.waiting = SubSeq(full, fits + 1, Len(full)) /\ icu.source = left
  <2> HIDE DEF taken, left, full
  <2>1. icu = [out     |-> SubSeq(full, 1, fits),
               waiting |-> SubSeq(full, fits + 1, Len(full)),
               source  |-> left]
    BY <1>3, Zenon DEF Parted
  <2> DEFINE o == SubSeq(full, 1, fits)
             w == SubSeq(full, fits + 1, Len(full))
  <2>2. icu = [out |-> o, waiting |-> w, source |-> left]
    BY <2>1
  <2> HIDE DEF o, w, fits, enough, held
  <2>3. icu.out = o
    BY <2>2
  <2>4. icu.waiting = w
    BY <2>2
  <2>5. icu.source = left
    BY <2>2
  <2> QED BY <2>3, <2>4, <2>5 DEF o, w
<1> HIDE DEF taken
<1>5. front \in Seq(Char) /\ left \in Seq(Char) /\ front \o left = src
  BY <1>2, Split
<1> HIDE DEF front, left
<1> DEFINE a == Encoded(front, job.to)
           b == Encoded(left, job.to)
<1>6. a \in Seq(Sym) /\ b \in Seq(Sym) /\ Encoded(src, job.to) = a \o b
  BY <1>5, EncodedGrows, EncodedJoins
<1>7. full \in Seq(Sym) /\ Len(full) \in Nat
  BY <1>6, ConcatProperties, LenProperties
<1> HIDE DEF a, b
<1>8. full \o b = waiting \o (a \o b)
  BY <1>6, Regrouped DEF a
<1> HIDE DEF full
<1>9. fits \in 0..Len(full) /\ fits <= room
  BY <1>7 DEF MinOf
<1> HIDE DEF fits
<1>10. /\ icu.out \in Seq(Sym) /\ Len(icu.out) = fits /\ icu.waiting \in Seq(Sym)
       /\ icu.out \o icu.waiting = full
  <2>1. /\ SubSeq(full, 1, fits) \in Seq(Sym) /\ Len(SubSeq(full, 1, fits)) = fits
        /\ SubSeq(full, fits + 1, Len(full)) \in Seq(Sym)
        /\ SubSeq(full, 1, fits) \o SubSeq(full, fits + 1, Len(full)) = full
    BY <1>7, <1>9, Split
  <2> QED BY <1>4, <2>1
<1>11. (icu.out \o icu.waiting) \o b = icu.out \o (icu.waiting \o b)
  <2> DEFINE o == icu.out
             w == icu.waiting
  <2>1. o \in Seq(Sym) /\ w \in Seq(Sym) /\ b \in Seq(Sym)
    BY <1>6, <1>10
  <2> HIDE DEF o, w
  <2>2. (o \o w) \o b = o \o (w \o b)
    BY <2>1, Regrouped
  <2> QED BY <2>2 DEF o, w
<1>12. icu.out \o (icu.waiting \o b) = waiting \o Encoded(src, job.to)
  BY <1>6, <1>8, <1>10, <1>11
<1> QED BY <1>4, <1>5, <1>9, <1>10, <1>12 DEF b

\* Output is put behind what is written.
LEMMA PutBehind ==
    ASSUME NEW d \in Seq(Sym), NEW at \in 0..Len(d), NEW out \in Seq(Sym), at + Len(out) <= Len(d)
    PROVE  /\ Put(d, at, out) \in Seq(Sym) /\ Len(Put(d, at, out)) = Len(d)
           /\ SubSeq(Put(d, at, out), 1, at + Len(out)) = SubSeq(d, 1, at) \o out
<1> DEFINE a == SubSeq(d, 1, at)
           n == at + Len(out)
           b == SubSeq(d, n + 1, Len(d))
<1>1. Len(d) \in Nat /\ at \in Nat /\ Len(out) \in Nat /\ n \in 0..Len(d)
  BY LenProperties
<1>2. a \in Seq(Sym) /\ Len(a) = at
  BY Split
<1>3. b \in Seq(Sym) /\ Len(b) = Len(d) - n
  BY <1>1, Split
<1>4. Put(d, at, out) = (a \o out) \o b
  BY DEF Put
<1> HIDE DEF a, b
<1>5. a \o out \in Seq(Sym) /\ Len(a \o out) = n
  BY <1>2, ConcatProperties
<1> DEFINE c == a \o out
<1> HIDE DEF c
<1>6. /\ c \o b \in Seq(Sym) /\ Len(c \o b) = Len(c) + Len(b)
      /\ SubSeq(c \o b, 1, Len(c)) = c
  BY <1>3, <1>5, TwoParts, ZenonT(30) DEF c
<1>7. Len(c) = n
  BY <1>5 DEF c
<1> QED BY <1>1, <1>3, <1>4, <1>6, <1>7 DEF a, c

\* A sequence resized keeps what fits.
LEMMA ResizedKeeps ==
    ASSUME NEW d \in Seq(Sym), NEW n \in Nat
    PROVE  /\ Resized(d, n) \in Seq(Sym) /\ Len(Resized(d, n)) = n
           /\ \A m \in 0..Len(d) : m <= n => SubSeq(Resized(d, n), 1, m) = SubSeq(d, 1, m)
<1>1. Len(d) \in Nat
  BY LenProperties
<1>2. CASE n <= Len(d)
  <2> DEFINE r == SubSeq(d, 1, n)
  <2>1. Resized(d, n) = r
    BY <1>2 DEF Resized
  <2>2. r \in Seq(Sym) /\ Len(r) = n
    <3>1. n \in 0..Len(d)
      BY <1>1, <1>2
    <3> QED BY <3>1, Split
  <2>3. ASSUME NEW m \in 0..Len(d), m <= n PROVE SubSeq(r, 1, m) = SubSeq(d, 1, m)
    <3>1. CASE m = 0
      BY <3>1, SubSeqEmpty
    <3>2. CASE m # 0
      <4>1. 1 \in 1..Len(d) /\ n \in 1..Len(d) /\ 1 \in 1..(n - 1 + 1) /\ m \in 1..(n - 1 + 1)
            /\ 1 + 1 - 1 = 1 /\ 1 + m - 1 = m
        BY <1>1, <1>2, <2>3, <3>2
      <4> QED BY <4>1, SubSeqOfSubSeq
    <3> QED BY <3>1, <3>2
  <2> HIDE DEF r
  <2> QED BY <2>1, <2>2, <2>3
<1>3. CASE ~(n <= Len(d))
  <2> DEFINE f == [i \in 1..(n - Len(d)) |-> "?"]
             k == n - Len(d)
             r == d \o f
  <2>1. k \in Nat /\ f \in [1..k -> Sym]
    BY <1>1, <1>3 DEF Sym
  <2>2. f \in Seq(Sym) /\ Len(f) = k
    <3> HIDE DEF f, k
    <3>1. f \in Seq(Sym)
      BY <2>1, SeqDef
    <3>2. DOMAIN f = 1..k /\ Len(f) \in Nat /\ DOMAIN f = 1..Len(f)
      BY <2>1, <3>1, LenProperties
    <3> QED BY <2>1, <3>1, <3>2
  <2> HIDE DEF f
  <2>3. r \in Seq(Sym) /\ Len(r) = Len(d) + k
    BY <2>2, ConcatProperties
  <2>4. Resized(d, n) = r
    BY <1>3 DEF Resized, f
  <2>5. ASSUME NEW m \in 0..Len(d) PROVE SubSeq(r, 1, m) = SubSeq(d, 1, m)
    <3>1. CASE m = 0
      BY <3>1, SubSeqEmpty
    <3>2. CASE m # 0
      <4>1. 1 \in 1..Len(d) /\ m \in 1..Len(d)
        BY <1>1, <3>2
      <4> QED BY <2>2, <4>1, SubSeqOfConcat1
    <3> QED BY <3>1, <3>2
  <2> HIDE DEF r
  <2> QED BY <1>1, <2>1, <2>3, <2>4, <2>5
<1> QED BY <1>2, <1>3

-----------------------------------------------------------------------------
(* The invariant.                                                          *)

Job == [ path : {"convertToPivot", "convertFromPivot", "convertEncoding", "ended"},
         from : Form, to : Form, text : Texts, trim : BOOLEAN ]

Written == SubSeq(dest, 1, written)

\* What is written, what ICU holds back and what is not consumed are the text,
\* with signatures before it; once the signature counts as trimmed, enough is
\* written to know that there is none.
Underway ==
    /\ job \in Job
    /\ source \in Seq(Char) /\ overflow \in Seq(Sym) /\ dest \in Seq(Sym)
    /\ end = Len(dest) /\ written \in 0..Len(dest)
    /\ WithoutSignature(Written \o (overflow \o Encoded(source, job.to)), job.to)
          = WithoutSignature(Encoded(job.text, job.to), job.to)
    /\ job.trim /\ trimmed =>
          Len(Signature(job.to)) <= written /\ WithoutSignature(Written, job.to) = Written

Converting == Running /\ job.path # "ended"

UnicodeInv ==
    /\ Converting => Underway
    /\ ~Converting => overflow = << >>
    /\ ConvertedWhole

\* What is written after the output of ICU is searched, or is not.
LEMMA TextKept ==
    ASSUME NEW form \in Form, NEW d \in Seq(Sym), NEW out \in Seq(Sym), NEW rest \in Seq(Sym)
    PROVE  /\ d \o out \in Seq(Sym)
           /\ WithoutSignature((d \o out) \o rest, form) = WithoutSignature(d \o (out \o rest), form)
           /\ WithoutSignature(WithoutSignature(d \o out, form) \o rest, form)
                 = WithoutSignature(d \o (out \o rest), form)
           /\ WithoutSignature(WithoutSignature(d \o out, form), form) = WithoutSignature(d \o out, form)
<1>1. (d \o out) \o rest = d \o (out \o rest) /\ d \o out \in Seq(Sym)
  BY Regrouped
<1> DEFINE s == d \o out
           w == WithoutSignature(s, form)
<1> HIDE DEF s
<1>2. s \in Seq(Sym)
  BY <1>1 DEF s
<1>3. WithoutSignature(w \o rest, form) = WithoutSignature(s \o rest, form)
  BY <1>2, TakenOffEarly
<1>4. WithoutSignature(w, form) = w
  <2>1. << >> \in Seq(Sym) /\ w \in Seq(Sym)
    BY <1>2, EmptySeq, WithoutSignatureTyped
  <2>2. WithoutSignature(w \o << >>, form) = WithoutSignature(s \o << >>, form)
    BY <1>2, <2>1, TakenOffEarly
  <2>3. s \o << >> = s /\ w \o << >> = w
    BY <1>2, <2>1, ConcatEmptySeq
  <2> QED BY <2>2, <2>3
<1> QED BY <1>1, <1>2, <1>3, <1>4 DEF s

\* The space a turn gives to ICU.
LEMMA RoomFits ==
    ASSUME end \in Nat, written \in 0..end
    PROVE  Room \in Nat /\ written + Room <= end
  BY SizeAssumption DEF Room, MinOf

\* What a turn leaves written, before the loop goes on or ends.
LEMMA TurnWrites ==
    ASSUME Underway, NEW icu, icu = Delivered(source, overflow, Room),
           NEW n, n = written + Len(icu.out),
           NEW short, short = Searched(Put(dest, written, icu.out), n),
           NEW at, at = (IF Searches(n) THEN Len(short) ELSE n)
    PROVE  /\ icu.source \in Seq(Char) /\ icu.waiting \in Seq(Sym)
           /\ short \in Seq(Sym) /\ at \in 0..Len(short)
           /\ WithoutSignature(SubSeq(short, 1, at) \o (icu.waiting \o Encoded(icu.source, job.to)), job.to)
                 = WithoutSignature(Encoded(job.text, job.to), job.to)
           /\ job.trim => WithoutSignature(SubSeq(short, 1, at), job.to) = SubSeq(short, 1, at)
           /\ job.trim /\ (trimmed \/ (Searches(n) /\ at >= Len(Signature(job.to)))) =>
                 Len(Signature(job.to)) <= at
<1> DEFINE K    == Len(Signature(job.to))
           out  == icu.out
           rest == icu.waiting \o Encoded(icu.source, job.to)
           full == Put(dest, written, out)
           D    == Written
           s    == D \o out
           W(x) == WithoutSignature(x, job.to)
<1>1. /\ job.to \in Form /\ source \in Seq(Char) /\ overflow \in Seq(Sym) /\ dest \in Seq(Sym)
      /\ end = Len(dest) /\ end \in Nat /\ written \in 0..end
  BY LenProperties DEF Underway, Job
<1>2. Room \in Nat /\ written + Room <= end
  BY <1>1, RoomFits
<1>3. /\ out \in Seq(Sym) /\ icu.waiting \in Seq(Sym) /\ icu.source \in Seq(Char)
      /\ Len(out) <= Room
      /\ out \o rest = overflow \o Encoded(source, job.to)
  BY <1>1, <1>2, DeliveredWhole
<1>4. rest \in Seq(Sym)
  BY <1>1, <1>3, EncodedGrows, ConcatProperties
<1>5. D \in Seq(Sym) /\ Len(D) = written
  BY <1>1, Split DEF Written
<1>6. K \in Nat /\ K # 0 /\ Len(out) \in Nat
  BY <1>1, <1>3, SymbolsTyped, LenProperties
<1> HIDE DEF K, W
<1>7. W(D \o (out \o rest)) = W(Encoded(job.text, job.to))
  BY <1>3 DEF Underway, W
<1> HIDE DEF out, rest
<1>8. full \in Seq(Sym) /\ Len(full) = end /\ SubSeq(full, 1, n) = s /\ n \in 0..end /\ written <= n
  <2>1. written + Len(out) <= Len(dest)
    BY <1>1, <1>2, <1>3, <1>6
  <2>2. /\ full \in Seq(Sym) /\ Len(full) = Len(dest)
        /\ SubSeq(full, 1, written + Len(out)) = SubSeq(dest, 1, written) \o out
    BY <1>1, <1>3, <2>1, PutBehind
  <2>3. n = written + Len(out)
    BY DEF out
  <2> QED BY <1>1, <1>6, <2>1, <2>2, <2>3 DEF Written
<1> HIDE DEF D
<1>9. /\ s \in Seq(Sym) /\ W(s \o rest) = W(D \o (out \o rest))
      /\ W(W(s) \o rest) = W(D \o (out \o rest)) /\ W(W(s)) = W(s)
  <2>1. /\ D \o out \in Seq(Sym)
        /\ WithoutSignature((D \o out) \o rest, job.to) = WithoutSignature(D \o (out \o rest), job.to)
        /\ WithoutSignature(WithoutSignature(D \o out, job.to) \o rest, job.to)
              = WithoutSignature(D \o (out \o rest), job.to)
        /\ WithoutSignature(WithoutSignature(D \o out, job.to), job.to) = WithoutSignature(D \o out, job.to)
    <3>1. job.to \in Form /\ D \in Seq(Sym) /\ out \in Seq(Sym) /\ rest \in Seq(Sym)
      BY <1>1, <1>3, <1>4, <1>5
    <3> QED BY <3>1, TextKept
  <2> QED BY <2>1 DEF W
<1>10. W(s) \in Seq(Sym)
  BY <1>1, <1>9, WithoutSignatureTyped DEF W
<1>11. Len(s) = n
  <2>1. Len(s) = Len(D) + Len(out)
    BY <1>3, <1>5, ConcatProperties
  <2> QED BY <1>5, <2>1 DEF out
<1> HIDE DEF s, full
<1> DEFINE d == SubSeq(short, 1, at)
<1>12. CASE Searches(n)
  <2>1. short = W(s) /\ at = Len(short)
    BY <1>8, <1>12 DEF Searched, W, full, out
  <2>2. short \in Seq(Sym) /\ at \in 0..Len(short) /\ d = short
    BY <1>10, <2>1, SubSeqFull, LenProperties
  <2>3. W(d \o rest) = W(D \o (out \o rest)) /\ W(d) = d
    BY <1>9, <2>1, <2>2
  <2>4. ~trimmed
    BY <1>12 DEF Searches, Seeks
  <2>5. (trimmed \/ (Searches(n) /\ at >= K)) => K <= at
    BY <1>6, <2>2, <2>4, LenProperties
  <2> HIDE DEF d
  <2> QED BY <1>3, <1>7, <2>2, <2>3, <2>5 DEF W, rest, K, d
<1>13. CASE ~Searches(n)
  <2>1. short = full /\ at = n
    BY <1>13 DEF Searched, full, out
  <2>2. short \in Seq(Sym) /\ at \in 0..Len(short) /\ d = s
    BY <1>8, <2>1
  <2>3. W(d \o rest) = W(D \o (out \o rest))
    BY <1>9, <2>2
  <2>4. ASSUME job.trim, trimmed PROVE K <= at /\ W(d) = d
    <3>1. K <= written /\ W(D) = D
      BY <2>4 DEF Underway, K, W, D
    <3>2. W(s) = s
      BY <1>1, <1>3, <1>5, <3>1, Stays DEF W, K, s
    <3>3. K <= at
      BY <1>1, <1>6, <1>8, <2>1, <3>1
    <3>4. W(d) = d
      <4> HIDE DEF d
      <4> QED BY <2>2, <3>2
    <3> QED BY <3>3, <3>4
  <2>5. ASSUME job.trim, ~trimmed PROVE W(d) = d
    <3>1. ~(n >= K)
      BY <1>13, <2>5 DEF Searches, Seeks, K
    <3>2. ~(K <= Len(s))
      BY <1>6, <1>8, <1>11, <3>1
    <3>3. W(s) = s
      BY <1>1, <1>9, <3>2, ShortStays DEF W, K
    <3> QED BY <2>2, <3>3
  <2> HIDE DEF d
  <2>6. job.trim => W(d) = d
    BY <2>4, <2>5
  <2>7. job.trim /\ (trimmed \/ (Searches(n) /\ at >= K)) => K <= at
    BY <1>13, <2>4
  <2> QED BY <1>3, <1>7, <2>2, <2>3, <2>6, <2>7 DEF W, rest, K, d
<1> QED BY <1>12, <1>13

-----------------------------------------------------------------------------
(* The steps.                                                              *)

\* The first part of a destination is what was put there.
LEMMA PutFirst ==
    ASSUME NEW size \in Nat, NEW out \in Seq(Sym), Len(out) <= size
    PROVE  LET d == Put(Resized(<< >>, size), 0, out)
           IN  d \in Seq(Sym) /\ Len(d) = size /\ SubSeq(d, 1, Len(out)) = out
<1> DEFINE e == Resized(<< >>, size)
           d == Put(e, 0, out)
<1>1. << >> \in Seq(Sym) /\ Len(out) \in Nat
  BY EmptySeq, LenProperties
<1>2. e \in Seq(Sym) /\ Len(e) = size
  BY <1>1, ResizedKeeps
<1> HIDE DEF e
<1>3. /\ d \in Seq(Sym) /\ Len(d) = Len(e)
      /\ SubSeq(d, 1, 0 + Len(out)) = SubSeq(e, 1, 0) \o out
  <2>1. 0 \in 0..Len(e) /\ 0 + Len(out) <= Len(e)
    BY <1>1, <1>2
  <2> QED BY <1>2, <2>1, PutBehind
<1>4. SubSeq(e, 1, 0) = << >> /\ << >> \o out = out /\ 0 + Len(out) = Len(out)
  BY <1>1, SubSeqEmpty, ConcatEmptySeq
<1> HIDE DEF d
<1>5. SubSeq(d, 1, Len(out)) = out
  BY <1>3, <1>4
<1>6. d \in Seq(Sym) /\ Len(d) = size
  BY <1>2, <1>3
<1> QED BY <1>5, <1>6 DEF d, e

\* At the start the signatures put before the text are written, or one of the
\* text is consumed.
LEMMA BeginStarts ==
    ASSUME UnicodeInv, NEW path \in {"convertToPivot", "convertFromPivot", "convertEncoding"},
           NEW from \in Form, NEW to \in Form, NEW text \in Texts, NEW trim \in BOOLEAN,
           Begin(path, from, to, text, trim)
    PROVE  UnicodeInv'
<1> DEFINE size == MinOf(Len(Encoded(text, from)) + ExtraReserve, MinIncrement)
           has  == text # << >> /\ text[1] = Bom
<1>1. PICK own \in OwnSignature(to), eats \in BOOLEAN :
        LET signature == IF has \/ eats THEN << >> ELSE Signature(to)
            out       == overflow \o (IF has \/ eats THEN << >> ELSE own \o signature)
        IN  /\ job' = [path |-> path, from |-> from, to |-> to, text |-> text, trim |-> trim]
            /\ source'   = IF has /\ eats THEN Tail(text) ELSE text
            /\ dest'     = Put(Resized(<< >>, size), 0, out)
            /\ written'  = Len(out)
            /\ overflow' = << >>
            /\ end'      = size
  BY DEF Begin
<1>2. trimmed' = FALSE
  BY DEF Begin
<1>3. overflow = << >>
  BY DEF Begin, UnicodeInv, Converting
<1> DEFINE sig == Signature(to)
           add == IF has \/ eats THEN << >> ELSE own \o sig
           out == overflow \o add
           left == IF has /\ eats THEN Tail(text) ELSE text
           W(x) == WithoutSignature(x, to)
<1>4. /\ job' = [path |-> path, from |-> from, to |-> to, text |-> text, trim |-> trim]
      /\ source' = left /\ dest' = Put(Resized(<< >>, size), 0, out)
      /\ written' = Len(out) /\ overflow' = << >> /\ end' = size
  BY <1>1
<1>5. /\ sig \in Seq(Sym) /\ Len(sig) \in Nat \ {0} /\ 2 * Len(sig) <= ExtraReserve
      /\ text \in Seq(Char) /\ ExtraReserve \in Nat /\ MinIncrement \in Nat /\ MinIncrement >= ExtraReserve
  BY SymbolsTyped, TextAssumption, SizeAssumption DEF Char
<1>6. size \in Nat /\ size >= ExtraReserve
  <2>1. Len(Encoded(text, from)) \in Nat
    BY <1>5, EncodedGrows, LenProperties
  <2> QED BY <1>5, <2>1 DEF MinOf
<1> HIDE DEF size
<1>7. own = << >> \/ own = sig
  BY DEF OwnSignature
<1>8. add \in Seq(Sym) /\ Len(add) \in Nat /\ Len(add) <= 2 * Len(sig)
  <2>1. << >> \in Seq(Sym) /\ Len(<< >>) = 0
    BY EmptySeq
  <2>2. own \in Seq(Sym) /\ Len(own) <= Len(sig) /\ Len(own) \in Nat
    <3> HIDE DEF sig
    <3>1. CASE own = << >>
      BY <1>5, <2>1, <3>1
    <3>2. CASE own = sig
      BY <1>5, <3>2
    <3> QED BY <1>7, <3>1, <3>2
  <2>3. own \o sig \in Seq(Sym) /\ Len(own \o sig) = Len(own) + Len(sig)
    BY <1>5, <2>2, ConcatProperties
  <2> QED BY <1>5, <2>1, <2>2, <2>3
<1> HIDE DEF add
<1>9. out = add
  BY <1>3, <1>8, ConcatEmptySeq
<1> HIDE DEF out
<1>10. /\ dest' \in Seq(Sym) /\ Len(dest') = size /\ SubSeq(dest', 1, Len(add)) = add
  BY <1>4, <1>5, <1>6, <1>8, <1>9, PutFirst
<1>11. left \in Seq(Char) /\ W(add \o Encoded(left, to)) = W(Encoded(text, to))
  <2> DEFINE E == Encoded(text, to)
  <2>0. E \in Seq(Sym)
    BY <1>5, EncodedGrows
  <2>1. CASE has /\ eats
    <3> DEFINE t == Tail(text)
               F == Encoded(t, to)
    <3>1. t \in Seq(Char) /\ text = << Bom >> \o t /\ << Bom >> \in Seq(Char) /\ Bom \in Char
      <4>1. t \in Seq(Char) /\ text[1] = Bom /\ Head(text) = text[1] /\ text = << Head(text) >> \o t
        BY <1>5, <2>1, HeadTailProperties
      <4>2. Bom \in Char
        BY TextAssumption DEF Char
      <4> QED BY <4>1, <4>2
    <3>2. Encoded(<< Bom >>, to) = sig
      <4>1. << >> \in Seq(Char) /\ Append(<< >>, Bom) = << Bom >>
        BY EmptySeq
      <4>2. Encoded(Append(<< >>, Bom), to) = Encoded(<< >>, to) \o Symbols(Bom, to)
            /\ Encoded(<< >>, to) = << >>
        BY <3>1, <4>1, EncodedGrows
      <4>3. << >> \o sig = sig
        BY <1>5, ConcatEmptySeq
      <4> QED BY <4>1, <4>2, <4>3 DEF Signature
    <3>3. E = sig \o F /\ F \in Seq(Sym)
      BY <3>1, <3>2, EncodedJoins, EncodedGrows
    <3> HIDE DEF E, F
    <3>4. W(E) = W(F)
      BY <3>3, SignatureTakenOff
    <3>5. add = << >> /\ left = t /\ << >> \o F = F
      BY <2>1, <3>3, ConcatEmptySeq DEF add
    <3> QED BY <3>1, <3>4, <3>5 DEF E, F
  <2>2. CASE ~(has /\ eats) /\ (has \/ eats)
    <3>1. add = << >> /\ left = text /\ << >> \o E = E
      BY <2>0, <2>2, ConcatEmptySeq DEF add
    <3> QED BY <1>5, <3>1
  <2>3. CASE ~has /\ ~eats
    <3>1. add = own \o sig /\ left = text
      BY <2>3 DEF add
    <3> HIDE DEF E, sig
    <3>2. W(sig \o E) = W(E)
      BY <2>0, SignatureTakenOff DEF sig
    <3>3. CASE own = << >>
      <4>1. own \o sig = sig
        BY <1>5, <3>3, ConcatEmptySeq
      <4> QED BY <1>5, <3>1, <3>2, <4>1 DEF E
    <3>4. CASE own = sig
      <4>1. (sig \o sig) \o E = sig \o (sig \o E) /\ sig \o E \in Seq(Sym)
        BY <1>5, <2>0, Regrouped, ConcatProperties
      <4>2. W(sig \o (sig \o E)) = W(sig \o E)
        BY <4>1, SignatureTakenOff DEF sig
      <4> QED BY <1>5, <3>1, <3>2, <3>4, <4>1, <4>2 DEF E
    <3> QED BY <1>7, <3>3, <3>4
  <2> QED BY <2>1, <2>2, <2>3
<1> HIDE DEF left
<1>12. job' \in Job /\ job'.to = to /\ job'.text = text /\ job'.path = path
  BY <1>4 DEF Job
<1>13. Written' = add
  BY <1>4, <1>9, <1>10 DEF Written
<1>14. WithoutSignature(Written \o (overflow \o Encoded(source, job.to)), job.to)'
          = WithoutSignature(Encoded(job.text, job.to), job.to)'
  <2>1. Encoded(left, to) \in Seq(Sym)
    BY <1>11, EncodedGrows
  <2>2. << >> \o Encoded(left, to) = Encoded(left, to)
    BY <2>1, ConcatEmptySeq
  <2> QED BY <1>4, <1>11, <1>12, <1>13, <2>2
<1>15. Underway'
  <2>1. << >> \in Seq(Sym)
    BY EmptySeq
  <2>2. written' \in 0..Len(dest')
    BY <1>4, <1>5, <1>6, <1>8, <1>9, <1>10
  <2> QED BY <1>2, <1>4, <1>10, <1>11, <1>12, <1>14, <2>1, <2>2 DEF Underway
<1>16. ConvertedWhole'
  <2>1. path # "ended"
    OBVIOUS
  <2> QED BY <1>12, <2>1 DEF ConvertedWhole, Going
<1> QED BY <1>4, <1>15, <1>16 DEF UnicodeInv

\* A turn goes on with the text whole, or ends with it whole.
LEMMA TurnKeeps ==
    ASSUME UnicodeInv, Converting, Turn
    PROVE  UnicodeInv'
<1>1. Underway
  BY DEF UnicodeInv
<1>2. PICK icu \in {Delivered(source, overflow, Room)} :
        LET n == written + Len(icu.out)
        IN  \E short \in {Searched(Put(dest, written, icu.out), n)} :
              Settled(icu, n, short, IF Searches(n) THEN Len(short) ELSE n)
  BY DEF Turn
<1> DEFINE n == written + Len(icu.out)
<1>3. PICK short \in {Searched(Put(dest, written, icu.out), n)} :
        Settled(icu, n, short, IF Searches(n) THEN Len(short) ELSE n)
  BY <1>2
<1> DEFINE at   == IF Searches(n) THEN Len(short) ELSE n
           d    == SubSeq(short, 1, at)
           E    == Encoded(icu.source, job.to)
           W(x) == WithoutSignature(x, job.to)
           tries == trimmed \/ (Searches(n) /\ at >= Len(Signature(job.to)))
<1>4. /\ icu.source \in Seq(Char) /\ icu.waiting \in Seq(Sym)
      /\ short \in Seq(Sym) /\ at \in 0..Len(short)
      /\ W(d \o (icu.waiting \o E)) = W(Encoded(job.text, job.to))
      /\ job.trim => W(d) = d
      /\ job.trim /\ tries => Len(Signature(job.to)) <= at
  <2>1. icu = Delivered(source, overflow, Room) /\ short = Searched(Put(dest, written, icu.out), n)
    OBVIOUS
  <2> QED BY <1>1, <2>1, TurnWrites
<1>5. Settled(icu, n, short, at)
  BY <1>3
<1> HIDE DEF n, at, W
<1>6. source' = icu.source /\ overflow' = icu.waiting /\ trimmed' = tries /\ written' = at
  BY <1>5 DEF Settled
<1>7. job \in Job /\ job.to \in Form /\ job.from \in Form
  BY <1>1 DEF Underway, Job
<1>8. Len(short) \in Nat /\ at \in Nat
  BY <1>4, LenProperties
<1>9. d \in Seq(Sym) /\ Len(d) = at
  BY <1>4, Split
<1> HIDE DEF tries
<1>10. CASE icu.waiting # << >> \/ icu.source # << >>
  <2> DEFINE pending == Len(Encoded(icu.source, job.from))
             size    == MaxOf(at + pending + ExtraReserve, Len(short) + MinIncrement)
  <2>1. dest' = Grown(short, at, pending) /\ end' = Len(dest') /\ UNCHANGED << job, result >>
    BY <1>5, <1>10 DEF Settled
  <2>2. pending \in Nat /\ ExtraReserve \in Nat /\ MinIncrement \in Nat
    BY <1>4, <1>7, EncodedGrows, LenProperties, SizeAssumption
  <2> HIDE DEF pending
  <2>3. size \in Nat /\ at <= size
    BY <1>8, <2>2 DEF MaxOf
  <2>4. dest' = Resized(short, size)
    BY <2>1 DEF Grown
  <2> HIDE DEF size
  <2>5. dest' \in Seq(Sym) /\ Len(dest') = size /\ SubSeq(dest', 1, at) = d
    BY <1>4, <2>3, <2>4, ResizedKeeps
  <2>6. Written' = d
    BY <1>6, <2>5 DEF Written
  <2> HIDE DEF d
  <2>7. Underway'
    <3>1. job' \in Job /\ source' \in Seq(Char) /\ overflow' \in Seq(Sym) /\ dest' \in Seq(Sym)
      BY <1>4, <1>6, <1>7, <2>1, <2>5
    <3>2. end' = Len(dest') /\ written' \in 0..Len(dest')
      BY <1>6, <1>8, <2>1, <2>3, <2>5
    <3>3. WithoutSignature(Written \o (overflow \o Encoded(source, job.to)), job.to)'
            = WithoutSignature(Encoded(job.text, job.to), job.to)'
      BY <1>4, <1>6, <2>1, <2>6 DEF W
    <3>4. job.trim /\ trimmed' =>
            Len(Signature(job.to)) <= at /\ WithoutSignature(d, job.to) = d
      BY <1>4, <1>6 DEF W
    <3>5. (job.trim /\ trimmed =>
             Len(Signature(job.to)) <= written /\ WithoutSignature(Written, job.to) = Written)'
      BY <1>6, <2>1, <2>6, <3>4
    <3> QED BY <3>1, <3>2, <3>3, <3>5 DEF Underway
  <2>8. Converting' /\ ConvertedWhole'
    BY <2>1 DEF Converting, Running, ConvertedWhole, Going
  <2> QED BY <2>7, <2>8 DEF UnicodeInv
<1>11. CASE icu.waiting = << >> /\ icu.source = << >>
  <2>1. dest' = d /\ result' = "ok" /\ job' = [job EXCEPT !.path = "ended"]
    BY <1>5, <1>11 DEF Settled
  <2>2. job'.path = "ended" /\ job'.to = job.to /\ job'.text = job.text /\ job'.trim = job.trim
    BY <1>7, <2>1 DEF Job
  <2>3. d \o (icu.waiting \o E) = d
    <3>1. E = << >>
      <4>1. << >> \in Seq(Char)
        BY EmptySeq
      <4> QED BY <1>7, <1>11, <4>1, EncodedGrows
    <3>2. << >> \o << >> = << >> /\ d \o << >> = d
      BY <1>9, ConcatEmptySeq, EmptySeq
    <3> QED BY <1>11, <3>1, <3>2
  <2> HIDE DEF d, E
  <2>4. W(d) = W(Encoded(job.text, job.to))
    BY <1>4, <2>3
  <2>5. /\ WithoutSignature(dest', job'.to) = WithoutSignature(Encoded(job'.text, job'.to), job'.to)
        /\ job'.trim => dest' = WithoutSignature(dest', job'.to)
    BY <1>4, <2>1, <2>2, <2>4 DEF W
  <2>6. ConvertedWhole'
    <3>1. result' # "error"
      BY <2>1
    <3> QED BY <2>5, <3>1 DEF ConvertedWhole
  <2>7. ~Converting' /\ overflow' = << >>
    BY <1>6, <1>11, <2>2 DEF Converting
  <2> QED BY <2>6, <2>7 DEF UnicodeInv
<1> QED BY <1>10, <1>11

\* With an error there is no result, and the converter holds nothing.
LEMMA FailEnds ==
    ASSUME UnicodeInv, Fail
    PROVE  UnicodeInv'
<1>1. job \in Job
  BY DEF UnicodeInv, Converting, Fail, Underway
<1>2. job'.path = "ended"
  BY <1>1 DEF Fail, Job
<1>3. overflow' = << >> /\ dest' = << >> /\ result' = "error"
  BY DEF Fail, Reset
<1> QED BY <1>2, <1>3 DEF UnicodeInv, Converting, ConvertedWhole

\* The caller takes what there is.
LEMMA TakeEnds ==
    ASSUME UnicodeInv, Take
    PROVE  UnicodeInv'
<1>1. overflow = << >>
  BY DEF UnicodeInv, Converting, Take, Going
<1>2. ~Running' /\ overflow' = << >>
  BY <1>1 DEF Take, Running
<1> QED BY <1>2 DEF UnicodeInv, Converting, ConvertedWhole, Going

\* A conversion delivers the text in its new form without the signatures
\* before it, or an error and nothing, whatever was converted before and
\* however little space the destination has at each turn (ConvertedWhole).
THEOREM ConversionsAreWhole == UnicodeSpec => []ConvertedWhole
<1>1. Idle => UnicodeInv
  BY DEF Idle, UnicodeInv, Converting, Running, ConvertedWhole, Going
<1>2. UnicodeInv /\ [UnicodeStep]_unicode => UnicodeInv'
  <2> SUFFICES ASSUME UnicodeInv, [UnicodeStep]_unicode PROVE UnicodeInv'
    OBVIOUS
  <2>1. CASE StartToPivot
    <3>1. "narrow" \in Form /\ "wide" \in Form
      BY DEF Form
    <3> QED BY <2>1, <3>1, BeginStarts DEF StartToPivot
  <2>2. CASE StartFromPivot
    <3>1. "narrow" \in Form /\ "wide" \in Form
      BY DEF Form
    <3> QED BY <2>2, <3>1, BeginStarts DEF StartFromPivot
  <2>3. CASE StartEncoding
    BY <2>3, BeginStarts DEF StartEncoding
  <2>4. CASE ConvertToPivot
    <3>1. Converting /\ Turn
      BY <2>4 DEF ConvertToPivot, Going, Converting
    <3> QED BY <3>1, TurnKeeps
  <2>5. CASE ConvertFromPivot
    <3>1. Converting /\ Turn
      BY <2>5 DEF ConvertFromPivot, Going, Converting
    <3> QED BY <3>1, TurnKeeps
  <2>6. CASE ConvertEncoding
    <3>1. Converting /\ Turn
      BY <2>6 DEF ConvertEncoding, Going, Converting
    <3> QED BY <3>1, TurnKeeps
  <2>7. CASE Take
    BY <2>7, TakeEnds
  <2>8. CASE Fail
    BY <2>8, FailEnds
  <2>9. CASE UNCHANGED unicode
    BY <2>9 DEF unicode, UnicodeInv, Converting, Running, Underway, Written, ConvertedWhole, Going
  <2> QED BY <2>1, <2>2, <2>3, <2>4, <2>5, <2>6, <2>7, <2>8, <2>9 DEF UnicodeStep, Loop
<1>3. UnicodeInv => ConvertedWhole
  BY DEF UnicodeInv
<1> QED BY <1>1, <1>2, <1>3, PTL DEF UnicodeSpec

-----------------------------------------------------------------------------
(* Division.                                                                *)

\* A quotient and a remainder.
LEMMA Divided ==
    ASSUME NEW n \in Int, NEW d \in Nat, d > 0
    PROVE  /\ n \div d \in Int /\ n % d \in Nat /\ n % d < d
           /\ n = d * (n \div d) + (n % d)
  BY SMT

\* A product with a number above zero is no smaller than the other factor.
LEMMA Product ==
    ASSUME NEW a \in Int, NEW b \in Int, NEW d \in Nat, d > 0
    PROVE  /\ d * a \in Int
           /\ a < b => d * a + d <= d * b
  <1>1. d * a \in Int /\ d * b \in Int /\ d * (b - a - 1) \in Int
    OBVIOUS
  <1>2. d * b = d * a + d + d * (b - a - 1)
    BY SMT
  <1>3. a < b => d * (b - a - 1) >= 0
    BY SMT
  <1> QED
    BY <1>1, <1>2, <1>3

\* There is only one quotient and remainder.
LEMMA DividedOnce ==
    ASSUME NEW n \in Int, NEW d \in Nat, d > 0, NEW q \in Int, NEW r \in Nat, r < d, n = d * q + r
    PROVE  n \div d = q /\ n % d = r
  <1> DEFINE p == n \div d
             s == n % d
  <1>1. p \in Int /\ s \in Nat /\ s < d /\ n = d * p + s
    BY Divided
  <1> HIDE DEF p, s
  <1>2. d * p \in Int /\ d * q \in Int
    BY <1>1
  <1>3. ~(p < q)
    <2>1. p < q => d * p + d <= d * q
      BY <1>1, Product
    <2> QED
      BY <1>1, <1>2, <2>1
  <1>4. ~(q < p)
    <2>1. q < p => d * q + d <= d * p
      BY <1>1, Product
    <2> QED
      BY <1>1, <1>2, <2>1
  <1>5. p = q
    BY <1>1, <1>3, <1>4
  <1>6. s = r
    BY <1>1, <1>2, <1>5
  <1> QED
    BY <1>5, <1>6 DEF p, s

\* Dividing by two numbers after one another.
LEMMA DividedTwice ==
    ASSUME NEW n \in Int, NEW d \in Nat, d > 0, NEW e \in Nat, e > 0
    PROVE  /\ d * e \in Nat /\ d * e > 0
           /\ n \div (d * e) = (n \div d) \div e
           /\ n % (d * e) = d * ((n \div d) % e) + (n % d)
  <1> DEFINE q == n \div d
             r == n % d
             p == q \div e
             s == q % e
  <1>1. q \in Int /\ r \in Nat /\ r < d /\ n = d * q + r
    BY Divided
  <1> HIDE DEF q, r
  <1>2. p \in Int /\ s \in Nat /\ s < e /\ q = e * p + s
    BY <1>1, Divided
  <1> HIDE DEF p, s
  <1>3. d * e \in Nat /\ d * e > 0
    BY SMT
  <1>4. d * s \in Nat
    BY <1>2, SMT
  <1>5. d * s + d <= d * e
    BY <1>2, Product
  <1>6. d * s + r \in Nat /\ d * s + r < d * e
    BY <1>1, <1>3, <1>4, <1>5
  <1>7. n = (d * e) * p + (d * s + r)
    <2>1. d * (e * p + s) = (d * e) * p + d * s
      BY <1>2, SMT
    <2>2. d * q = (d * e) * p + d * s
      BY <1>2, <2>1
    <2> QED
      BY <1>1, <1>2, <1>3, <1>4, <2>2, SMT
  <1>8. n \div (d * e) = p /\ n % (d * e) = d * s + r
    <2> DEFINE m == d * e
               t == d * s + r
    <2>1. m \in Nat /\ m > 0 /\ t \in Nat /\ t < m /\ n = m * p + t
      BY <1>3, <1>6, <1>7
    <2> HIDE DEF m, t
    <2>2. n \div m = p /\ n % m = t
      BY <1>2, <2>1, DividedOnce
    <2> QED
      BY <2>2 DEF m, t
  <1> QED
    BY <1>3, <1>8 DEF q, r, p, s

\* What was multiplied by a number divides by it and its multiples.
LEMMA DividedProduct ==
    ASSUME NEW n \in Int, NEW d \in Nat, d > 0, NEW e \in Nat, e > 0
    PROVE  /\ (n * d) \div d = n /\ (n * d) % d = 0
           /\ (n * d) \div (d * e) = n \div e
           /\ (n * d) % (d * e) = d * (n % e)
  <1> DEFINE m == n * d
  <1>1. m \in Int /\ m = d * n + 0
    BY SMT
  <1>2. m \div d = n /\ m % d = 0
    BY <1>1, DividedOnce
  <1> HIDE DEF m
  <1>3. /\ m \div (d * e) = n \div e
        /\ m % (d * e) = d * (n % e) + 0
    BY <1>1, <1>2, DividedTwice
  <1>4. d * (n % e) \in Int
    BY Divided
  <1> QED
    BY <1>2, <1>3, <1>4 DEF m

-----------------------------------------------------------------------------
(* Digits and powers.                                                       *)

\* The numbers of what digits begin with.
Counted(g, b, s, k) == g = [i \in 0 .. k |-> IF i = 0 THEN 0 ELSE b * g[i - 1] + s[i]]

\* The function NumberIn is defined by is there.
LEMMA CountedThere ==
    ASSUME NEW b \in Nat, NEW s, NEW k \in Nat
    PROVE  \E g : Counted(g, b, s, k)
  <1> DEFINE Bad == {n \in Nat : ~\E g : Counted(g, b, s, n)}
  <1>1. ASSUME Bad # {}
        PROVE  FALSE
    <2>1. PICK n \in Bad : \A m \in Bad : n <= m
      <3>1. Bad \in SUBSET Nat
        OBVIOUS
      <3> HIDE DEF Bad
      <3> QED
        BY <1>1, <3>1, LeastNumber
    <2>2. n \in Nat /\ ~\E g : Counted(g, b, s, n)
      OBVIOUS
    <2>3. n # 0
      <3>1. Counted([i \in 0 .. 0 |-> 0], b, s, 0)
        <4>1. [i \in 0 .. 0 |-> 0] =
                 [i \in 0 .. 0 |-> IF i = 0 THEN 0 ELSE b * ([j \in 0 .. 0 |-> 0])[i - 1] + s[i]]
          OBVIOUS
        <4> QED
          BY <4>1 DEF Counted
      <3> QED
        BY <2>2, <3>1
    <2>4. n - 1 \in Nat /\ ~(n <= n - 1)
      BY <2>2, <2>3
    <2>5. PICK g : Counted(g, b, s, n - 1)
      <3>1. n - 1 \notin Bad
        BY <2>1, <2>4
      <3> QED
        BY <2>4, <3>1
    <2> DEFINE h == [i \in 0 .. n |-> IF i = n THEN b * g[n - 1] + s[n] ELSE g[i]]
               e(i) == IF i = 0 THEN 0 ELSE b * h[i - 1] + s[i]
    <2>6. ASSUME NEW i \in 0 .. n
          PROVE  h[i] = e(i)
      <3>1. CASE i = n
        <4>1. h[i] = b * g[n - 1] + s[n]
          BY <3>1
        <4>2. h[n - 1] = g[n - 1]
          BY <2>2, <2>3
        <4> HIDE DEF h
        <4> QED
          BY <2>3, <3>1, <4>1, <4>2
      <3>2. CASE i # n
        <4>1. i \in 0 .. n - 1 /\ h[i] = g[i]
          BY <2>2, <3>2
        <4>2. g[i] = IF i = 0 THEN 0 ELSE b * g[i - 1] + s[i]
          BY <2>5, <4>1 DEF Counted
        <4>3. i # 0 => h[i - 1] = g[i - 1]
          BY <2>2, <4>1
        <4> HIDE DEF h
        <4> QED
          BY <4>1, <4>2, <4>3
      <3> QED
        BY <3>1, <3>2
    <2>7. h = [i \in 0 .. n |-> e(i)]
      <3>1. h = [i \in 0 .. n |-> h[i]]
        OBVIOUS
      <3> HIDE DEF h
      <3> QED
        BY <2>6, <3>1
    <2>8. Counted(h, b, s, n)
      <3> HIDE DEF h
      <3> QED
        BY <2>7 DEF Counted
    <2> QED
      BY <2>2, <2>8
  <1>2. Bad = {}
    BY <1>1
  <1> QED
    BY <1>2

\* What NumberIn is defined as.
LEMMA NumberUnfolds ==
    ASSUME NEW b \in Nat, NEW s, Len(s) \in Nat
    PROVE  \E g : Counted(g, b, s, Len(s)) /\ NumberIn(b, s) = g[Len(s)]
  <1> DEFINE g == CHOOSE g : Counted(g, b, s, Len(s))
  <1>1. Counted(g, b, s, Len(s))
    BY CountedThere
  <1>2. NumberIn(b, s) = g[Len(s)]
    BY DEF NumberIn, Counted
  <1> QED
    BY <1>1, <1>2

\* Sequences that begin alike are counted alike.
LEMMA CountedAlike ==
    ASSUME NEW b \in Nat, NEW n \in Nat, NEW m \in Nat, n <= m, NEW s, NEW t, NEW g, NEW h,
           Counted(g, b, s, n), Counted(h, b, t, m), \A i \in 1 .. n : s[i] = t[i]
    PROVE  \A i \in 0 .. n : g[i] = h[i]
  <1> DEFINE Bad == {i \in 0 .. n : g[i] # h[i]}
  <1>1. ASSUME Bad # {}
        PROVE  FALSE
    <2>1. PICK k \in Bad : \A j \in Bad : k <= j
      <3>1. Bad \in SUBSET Nat
        OBVIOUS
      <3> HIDE DEF Bad
      <3> QED
        BY <1>1, <3>1, LeastNumber
    <2>2. k \in 0 .. n /\ g[k] # h[k]
      OBVIOUS
    <2>3. g[k] = IF k = 0 THEN 0 ELSE b * g[k - 1] + s[k]
      BY <2>2 DEF Counted
    <2>4. h[k] = IF k = 0 THEN 0 ELSE b * h[k - 1] + t[k]
      <3>1. k \in 0 .. m
        BY <2>2
      <3> QED
        BY <3>1 DEF Counted
    <2>5. k # 0 => g[k - 1] = h[k - 1]
      <3>1. k # 0 => k - 1 \in 0 .. n /\ ~(k <= k - 1)
        BY <2>2
      <3> QED
        BY <2>1, <3>1
    <2>6. k # 0 => s[k] = t[k]
      BY <2>2
    <2> QED
      BY <2>2, <2>3, <2>4, <2>5, <2>6
  <1>2. Bad = {}
    BY <1>1
  <1> QED
    BY <1>2

\* A digit more.
LEMMA DigitMore ==
    ASSUME NEW b \in Nat, NEW s, NEW t, NEW n \in Nat, Len(s) = n, Len(t) = n + 1, \A i \in 1 .. n : s[i] = t[i]
    PROVE  NumberIn(b, t) = b * NumberIn(b, s) + t[n + 1]
  <1>1. PICK g : Counted(g, b, s, n) /\ NumberIn(b, s) = g[n]
    BY NumberUnfolds
  <1>2. PICK h : Counted(h, b, t, n + 1) /\ NumberIn(b, t) = h[n + 1]
    <2>1. Len(t) \in Nat
      OBVIOUS
    <2>2. \E h : Counted(h, b, t, Len(t)) /\ NumberIn(b, t) = h[Len(t)]
      BY <2>1, NumberUnfolds, Zenon
    <2> QED
      BY <2>2
  <1>3. g[n] = h[n]
    <2>1. n + 1 \in Nat /\ n <= n + 1 /\ n \in 0 .. n
      OBVIOUS
    <2> QED
      BY <1>1, <1>2, <2>1, CountedAlike
  <1>4. h[n + 1] = b * h[n] + t[n + 1]
    <2>1. n + 1 \in 0 .. n + 1 /\ n + 1 # 0 /\ (n + 1) - 1 = n
      OBVIOUS
    <2> QED
      BY <1>2, <2>1 DEF Counted
  <1> QED
    BY <1>1, <1>2, <1>3, <1>4

\* No digit.
LEMMA NoDigit ==
    ASSUME NEW b \in Nat, NEW s, Len(s) = 0
    PROVE  NumberIn(b, s) = 0
  <1>1. PICK g : Counted(g, b, s, 0) /\ NumberIn(b, s) = g[0]
    BY NumberUnfolds
  <1>2. g[0] = 0
    BY <1>1 DEF Counted
  <1> QED
    BY <1>1, <1>2

\* Powers.
LEMMA PowerSteps ==
    ASSUME NEW b \in Nat
    PROVE  /\ Power(b, 0) = 1
           /\ \A k \in Nat : Power(b, k + 1) = b * Power(b, k)
  <1> DEFINE one(k) == [i \in 1 .. k + 1 |-> IF i = 1 THEN 1 ELSE 0]
  <1>1. ASSUME NEW k \in Nat
        PROVE  Len(one(k)) = k + 1
    <2>1. k + 1 \in Nat
      OBVIOUS
    <2> QED
      BY <2>1
  <1>2. Power(b, 0) = 1
    <2> DEFINE z == << >>
    <2>1. ASSUME NEW n \in Nat, n = 0
          PROVE  NumberIn(b, one(n)) = b * NumberIn(b, z) + one(n)[n + 1]
      <3>1. Len(z) = n /\ Len(one(n)) = n + 1 /\ \A i \in 1 .. n : z[i] = one(n)[i]
        BY <1>1, <2>1
      <3> HIDE DEF one, z
      <3> QED
        BY <3>1, DigitMore
    <2>2. NumberIn(b, z) = 0
      <3>1. Len(z) = 0
        OBVIOUS
      <3> HIDE DEF z
      <3> QED
        BY <3>1, NoDigit
    <2>3. NumberIn(b, one(0)) = b * NumberIn(b, z) + one(0)[0 + 1]
      <3> HIDE DEF one, z
      <3> QED
        BY <2>1
    <2>4. one(0)[0 + 1] = 1
      OBVIOUS
    <2> HIDE DEF z
    <2> QED
      BY <2>2, <2>3, <2>4 DEF Power
  <1>3. ASSUME NEW k \in Nat
        PROVE  Power(b, k + 1) = b * Power(b, k) + 0
    <2>1. Len(one(k)) = k + 1 /\ Len(one(k + 1)) = (k + 1) + 1 /\ k + 1 \in Nat
      BY <1>1
    <2>2. \A i \in 1 .. k + 1 : one(k)[i] = one(k + 1)[i]
      OBVIOUS
    <2>3. one(k + 1)[(k + 1) + 1] = 0
      OBVIOUS
    <2> HIDE DEF one
    <2>4. NumberIn(b, one(k + 1)) = b * NumberIn(b, one(k)) + one(k + 1)[(k + 1) + 1]
      BY <2>1, <2>2, DigitMore
    <2> QED
      BY <2>3, <2>4 DEF Power, one
  <1>4. ASSUME NEW k \in Nat
        PROVE  Power(b, k) \in Int
    <2> DEFINE Bad == {n \in Nat : Power(b, n) \notin Int}
    <2>1. ASSUME Bad # {}
          PROVE  FALSE
      <3>1. PICK n \in Bad : \A m \in Bad : n <= m
        <4>1. Bad \in SUBSET Nat
          OBVIOUS
        <4> HIDE DEF Bad
        <4> QED
          BY <2>1, <4>1, LeastNumber
      <3>2. n # 0
        BY <1>2
      <3>3. n - 1 \in Nat /\ ~(n <= n - 1) /\ n = (n - 1) + 1
        BY <3>2
      <3>4. Power(b, n - 1) \in Int
        BY <3>1, <3>3
      <3>5. Power(b, (n - 1) + 1) = b * Power(b, n - 1) + 0
        BY <1>3, <3>3
      <3> QED
        BY <3>3, <3>4, <3>5
    <2> QED
      BY <2>1
  <1> QED
    BY <1>2, <1>3, <1>4

\* A power is above zero.
LEMMA PowerPositive ==
    ASSUME NEW b \in Nat, b > 0, NEW k \in Nat
    PROVE  Power(b, k) \in Nat /\ Power(b, k) > 0
  <1> DEFINE Bad == {n \in Nat : ~(Power(b, n) \in Nat /\ Power(b, n) > 0)}
  <1>1. ASSUME Bad # {}
        PROVE  FALSE
    <2>1. PICK n \in Bad : \A m \in Bad : n <= m
      <3>1. Bad \in SUBSET Nat
        OBVIOUS
      <3> HIDE DEF Bad
      <3> QED
        BY <1>1, <3>1, LeastNumber
    <2>2. n # 0
      BY PowerSteps
    <2>3. n - 1 \in Nat /\ ~(n <= n - 1) /\ n = (n - 1) + 1
      BY <2>2
    <2>4. Power(b, n - 1) \in Nat /\ Power(b, n - 1) > 0
      BY <2>1, <2>3
    <2>5. Power(b, (n - 1) + 1) = b * Power(b, n - 1)
      BY PowerSteps, <2>3
    <2> QED
      BY <2>3, <2>4, <2>5
  <1> QED
    BY <1>1

\* The power of a sum.
LEMMA PowerSum ==
    ASSUME NEW b \in Nat, b > 0, NEW j \in Nat, NEW k \in Nat
    PROVE  Power(b, j + k) = Power(b, j) * Power(b, k)
  <1> DEFINE Bad == {n \in Nat : Power(b, j + n) # Power(b, j) * Power(b, n)}
  <1>1. ASSUME Bad # {}
        PROVE  FALSE
    <2>1. PICK n \in Bad : \A m \in Bad : n <= m
      <3>1. Bad \in SUBSET Nat
        OBVIOUS
      <3> HIDE DEF Bad
      <3> QED
        BY <1>1, <3>1, LeastNumber
    <2>2. Power(b, j) \in Nat
      BY PowerPositive
    <2>3. n # 0
      <3>1. Power(b, j + 0) = Power(b, j) * Power(b, 0)
        BY <2>2, PowerSteps
      <3> QED
        BY <3>1
    <2>4. n - 1 \in Nat /\ ~(n <= n - 1) /\ n = (n - 1) + 1
      BY <2>3
    <2>5. Power(b, j + (n - 1)) = Power(b, j) * Power(b, n - 1)
      BY <2>1, <2>4
    <2>6. Power(b, (n - 1) + 1) = b * Power(b, n - 1) /\ Power(b, (j + (n - 1)) + 1) = b * Power(b, j + (n - 1))
      <3>1. j + (n - 1) \in Nat
        BY <2>4
      <3> QED
        BY <2>4, <3>1, PowerSteps
    <2>7. Power(b, n - 1) \in Nat
      BY <2>4, PowerPositive
    <2>8. Power(b, j) * (b * Power(b, n - 1)) = b * (Power(b, j) * Power(b, n - 1))
      BY <2>2, <2>7, SMT
    <2>9. j + n = (j + (n - 1)) + 1
      BY <2>4
    <2> QED
      BY <2>4, <2>5, <2>6, <2>8, <2>9
  <1> QED
    BY <1>1

\* The decimals a number begins with.
LEMMA FirstDecimals ==
    ASSUME NEW K \in Nat, NEW f \in Nat, f < TenTo(K), NEW k \in 0 .. K
    PROVE  NumberOf(SubSeq(Decimals(f, K), 1, k)) = f \div TenTo(K - k)
  <1> DEFINE s(n) == SubSeq(Decimals(f, K), 1, n)
             q(n) == f \div TenTo(K - n)
             Bad  == {n \in Nat : n <= K /\ NumberIn(10, s(n)) # q(n)}
  <1>1. ASSUME NEW n \in 0 .. K
        PROVE  Len(s(n)) = n /\ \A i \in 1 .. n : s(n)[i] = (f \div TenTo(K - i)) % 10
    BY DEF Decimals
  <1>2. NumberIn(10, s(0)) = q(0)
    <2>1. NumberIn(10, s(0)) = 0
      <3>1. Len(s(0)) = 0
        BY <1>1
      <3> HIDE DEF s
      <3> QED
        BY <3>1, NoDigit
    <2>2. q(0) = 0
      <3>1. TenTo(K) \in Nat /\ TenTo(K) > 0 /\ f = TenTo(K) * 0 + f
        BY PowerPositive DEF TenTo
      <3>2. f \div TenTo(K) = 0
        BY <3>1, DividedOnce
      <3> QED
        BY <3>2
    <2> QED
      BY <2>1, <2>2
  <1>3. ASSUME NEW n \in Nat, n < K, NumberIn(10, s(n)) = q(n)
        PROVE  NumberIn(10, s(n + 1)) = q(n + 1)
    <2>1. n \in 0 .. K /\ n + 1 \in 0 .. K
      BY <1>3
    <2>2. /\ Len(s(n)) = n /\ Len(s(n + 1)) = n + 1
          /\ \A i \in 1 .. n : s(n)[i] = s(n + 1)[i]
          /\ s(n + 1)[n + 1] = (f \div TenTo(K - (n + 1))) % 10
      <3>1. /\ Len(s(n)) = n /\ Len(s(n + 1)) = n + 1
            /\ \A i \in 1 .. n : s(n)[i] = (f \div TenTo(K - i)) % 10
            /\ \A i \in 1 .. n + 1 : s(n + 1)[i] = (f \div TenTo(K - i)) % 10
        BY <1>1, <2>1
      <3> HIDE DEF s
      <3> QED
        BY <3>1
    <2> HIDE DEF s
    <2>3. NumberIn(10, s(n + 1)) = 10 * NumberIn(10, s(n)) + s(n + 1)[n + 1]
      BY <2>2, DigitMore
    <2>4. /\ K - (n + 1) \in Nat /\ K - n = (K - (n + 1)) + 1
          /\ TenTo(K - n) = TenTo(K - (n + 1)) * 10
      <3>1. K - (n + 1) \in Nat /\ K - n = (K - (n + 1)) + 1
        BY <1>3
      <3>2. Power(10, (K - (n + 1)) + 1) = 10 * Power(10, K - (n + 1)) /\ Power(10, K - (n + 1)) \in Nat
        <4>1. Power(10, K - (n + 1)) \in Nat
          BY <3>1, PowerPositive
        <4>2. Power(10, (K - (n + 1)) + 1) = 10 * Power(10, K - (n + 1))
          <5>1. \A i \in Nat : Power(10, i + 1) = 10 * Power(10, i)
            BY PowerSteps
          <5> QED
            BY <3>1, <5>1
        <4> QED
          BY <4>1, <4>2
      <3> QED
        BY <3>1, <3>2 DEF TenTo
    <2> DEFINE t == TenTo(K - (n + 1))
    <2>5. t \in Nat /\ t > 0
      BY <2>4, PowerPositive DEF TenTo
    <2>6. TenTo(K - n) = t * 10
      BY <2>4
    <2> HIDE DEF t
    <2>7. f \div (t * 10) = (f \div t) \div 10
      BY <2>5, DividedTwice
    <2>8. f \div t \in Int
      BY <2>5, Divided
    <2>9. f \div t = 10 * ((f \div t) \div 10) + ((f \div t) % 10)
      BY <2>8, Divided
    <2>10. q(n + 1) = f \div t
      BY DEF t
    <2>11. q(n) = (f \div t) \div 10
      BY <2>6, <2>7
    <2>12. s(n + 1)[n + 1] = (f \div t) % 10
      BY <2>2 DEF t
    <2> HIDE DEF q
    <2> QED
      BY <1>3, <2>3, <2>9, <2>10, <2>11, <2>12
  <1>4. ASSUME Bad # {}
        PROVE  FALSE
    <2>1. PICK n \in Bad : \A m \in Bad : n <= m
      <3>1. Bad \in SUBSET Nat
        OBVIOUS
      <3> HIDE DEF Bad
      <3> QED
        BY <1>4, <3>1, LeastNumber
    <2> HIDE DEF s, q
    <2>2. n \in Nat /\ n <= K /\ NumberIn(10, s(n)) # q(n)
      BY <2>1
    <2>3. n # 0
      BY <1>2, <2>2
    <2>4. n - 1 \in Nat /\ ~(n <= n - 1) /\ n = (n - 1) + 1 /\ n - 1 < K
      BY <2>2, <2>3
    <2>5. NumberIn(10, s(n - 1)) = q(n - 1)
      BY <2>1, <2>4
    <2>6. NumberIn(10, s((n - 1) + 1)) = q((n - 1) + 1)
      BY <1>3, <2>4, <2>5
    <2> QED
      BY <2>2, <2>4, <2>6
  <1>5. k \in Nat /\ k <= K
    OBVIOUS
  <1> HIDE DEF s, q
  <1>6. NumberIn(10, s(k)) = q(k)
    BY <1>4, <1>5
  <1> QED
    BY <1>6 DEF s, q, NumberOf

-----------------------------------------------------------------------------
(* The calendar.                                                            *)

\* The year of the era a day is in, and the day of that year, from March.
YearOf(d) == (d - d \div 1460 + d \div 36524 - d \div 146096) \div 365
DayOf(d)  == d - (365 * YearOf(d) + YearOf(d) \div 4 - YearOf(d) \div 100)

\* Before them the year and its leap years; a leap year ends with February 29.
YearDays(y)   == 365 * y + y \div 4 - y \div 100
DayFrom(y, o) == YearDays(y) + o
InYear(y, o)  == y \in Nat /\ y < 400 /\ o \in Nat /\ (o < 365 \/ (o = 365 /\ IsLeap(y + 1)))

\* An era has 400 years, and no year more than 366 days.
LEMMA DayOfEra ==
    ASSUME NEW d \in Nat, d < 146097
    PROVE  /\ YearOf(d) \in Nat /\ YearOf(d) < 400 /\ DayOf(d) \in Nat /\ DayOf(d) < 366
  BY SMTT(60) DEF YearOf, DayOf

\* Only a year that ends in a leap year has a day 365.
LEMMA LastOfYear ==
    ASSUME NEW d \in Nat, d < 146097
    PROVE  DayOf(d) = 365 => IsLeap(YearOf(d) + 1)
  BY SMTT(100) DEF YearOf, DayOf, IsLeap

\* A day of a year of an era is one of its days.
LEMMA DayThere ==
    ASSUME NEW y, NEW o, InYear(y, o)
    PROVE  DayFrom(y, o) \in Nat /\ DayFrom(y, o) < 146097
  BY SMTT(100) DEF InYear, DayFrom, IsLeap, YearDays

\* ... and the year found for it is that year.
LEMMA DayBack ==
    ASSUME NEW y, NEW o, InYear(y, o)
    PROVE  YearOf(DayFrom(y, o)) = y
  BY SMTT(100) DEF InYear, DayFrom, IsLeap, YearOf, YearDays

\* A month and a day of a year from March.
MonthOf(o) == (5 * o + 2) \div 153
DaysTo(p)  == (153 * p + 2) \div 5

\* The month of a day of the year begins at or before it, and the next one after it.
LEMMA Months ==
    ASSUME NEW o \in Nat, o < 366
    PROVE  /\ MonthOf(o) \in Nat /\ MonthOf(o) < 12
           /\ DaysTo(MonthOf(o)) \in Nat /\ DaysTo(MonthOf(o)) <= o /\ o < DaysTo(MonthOf(o) + 1)
  BY SMTT(60) DEF MonthOf, DaysTo

\* The month found for a day of a month is that month.
LEMMA MonthThere ==
    ASSUME NEW p \in Nat, p < 12, NEW e \in Nat, DaysTo(p) + e < DaysTo(p + 1)
    PROVE  MonthOf(DaysTo(p) + e) = p
  BY SMTT(60) DEF MonthOf, DaysTo

\* The days before each month.
LEMMA DaysToMonth ==
    /\ DaysTo(0) = 0 /\ DaysTo(1) = 31 /\ DaysTo(2) = 61 /\ DaysTo(3) = 92 /\ DaysTo(4) = 122 /\ DaysTo(5) = 153
    /\ DaysTo(6) = 184 /\ DaysTo(7) = 214 /\ DaysTo(8) = 245 /\ DaysTo(9) = 275 /\ DaysTo(10) = 306
    /\ DaysTo(11) = 337 /\ DaysTo(12) = 367
  BY SMTT(60) DEF DaysTo

\* The days before March 1 of a year.
Before(y) == 365 * y + y \div 4 - y \div 100 + y \div 400

\* Eras, of 400 years or 146097 days, and what is left.
Era(y)      == y \div 400
YearIn(y)   == y % 400
DayEra(z)   == z \div 146097
DayIn(z)    == z % 146097

\* A year is one of an era; the days before it are those of the eras and of its years.
LEMMA Eras ==
    ASSUME NEW y \in Int
    PROVE  /\ Era(y) \in Int /\ YearIn(y) \in Nat /\ YearIn(y) < 400
           /\ y = 400 * Era(y) + YearIn(y)
           /\ Before(y) = 146097 * Era(y) + DayFrom(YearIn(y), 0)
           /\ Before(y) \in Int
           /\ IsLeap(YearIn(y) + 1) <=> IsLeap(y + 1)
  BY SMTT(60) DEF Before, DayFrom, YearDays, Era, YearIn, IsLeap

\* A day is one of an era.
LEMMA DayEras ==
    ASSUME NEW z \in Int
    PROVE  DayEra(z) \in Int /\ DayIn(z) \in Nat /\ DayIn(z) < 146097 /\ z = 146097 * DayEra(z) + DayIn(z)
  BY Divided DEF DayEra, DayIn

\* A day of a year is so many days after its first.
LEMMA DaysFrom ==
    ASSUME NEW y \in Nat, NEW o \in Int
    PROVE  DayFrom(y, 0) \in Int /\ DayFrom(y, o) = DayFrom(y, 0) + o
  BY DEF DayFrom, YearDays

\* A year has 365 days, or 366 if its February belongs to a leap year.
LEMMA YearLonger ==
    ASSUME NEW y \in Int
    PROVE  /\ IsLeap(y + 1) => Before(y + 1) = Before(y) + 366
           /\ ~IsLeap(y + 1) => Before(y + 1) = Before(y) + 365
  BY SMTT(60) DEF Before, IsLeap

\* Later years begin later.
LEMMA YearsGrow ==
    ASSUME NEW y \in Int, NEW x \in Int, x <= y
    PROVE  Before(x) <= Before(y)
  BY SMTT(60) DEF Before

\* A date from March: the month and the year that begins with it.
MonthFrom(m)   == IF m > 2 THEN m - 3 ELSE m + 9
YearFrom(y, m) == IF m <= 2 THEN y - 1 ELSE y

\* ... and back.
MonthTo(p)   == IF p < 10 THEN p + 3 ELSE p - 9
YearTo(w, p) == IF p < 10 THEN w ELSE w + 1

\* A month counted from March is counted back to the same month.
LEMMA MonthsFrom ==
    ASSUME NEW y \in Int, NEW m \in Nat, m > 0, m < 13
    PROVE  /\ MonthFrom(m) \in Nat /\ MonthFrom(m) < 12 /\ YearFrom(y, m) \in Int
           /\ MonthTo(MonthFrom(m)) = m /\ YearTo(YearFrom(y, m), MonthFrom(m)) = y
  BY DEF MonthFrom, YearFrom, MonthTo, YearTo

\* ... and the other way round.
LEMMA MonthsTo ==
    ASSUME NEW w \in Int, NEW p \in Nat, p < 12
    PROVE  /\ MonthTo(p) \in Nat /\ MonthTo(p) > 0 /\ MonthTo(p) < 13 /\ YearTo(w, p) \in Int
           /\ MonthFrom(MonthTo(p)) = p /\ YearFrom(YearTo(w, p), MonthTo(p)) = w
  BY DEF MonthFrom, YearFrom, MonthTo, YearTo

\* The lengths of the months, from March.
LEMMA MonthLengths ==
    ASSUME NEW y \in Int, NEW m \in Nat, m > 0, m < 13
    PROVE  /\ MonthLength(y, m) \in Nat
           /\ MonthFrom(m) # 11 => MonthLength(y, m) = DaysTo(MonthFrom(m) + 1) - DaysTo(MonthFrom(m))
           /\ MonthFrom(m) = 11 /\ IsLeap(YearFrom(y, m) + 1) => MonthLength(y, m) = 29
           /\ MonthFrom(m) = 11 /\ ~IsLeap(YearFrom(y, m) + 1) => MonthLength(y, m) = 28
  <1>1. m \in {1, 2, 3, 4, 5, 6, 7, 8, 9, 10, 11, 12}
    OBVIOUS
  <1> QED
    BY <1>1, DaysToMonth, SMTT(60) DEF MonthFrom, MonthLength, YearFrom

\* The days before a month are a number.
LEMMA DaysToTyped ==
    ASSUME NEW p \in Nat
    PROVE  DaysTo(p) \in Nat
  BY DEF DaysTo

\* from_days in these terms.
LEMMA FromDaysIs ==
    ASSUME NEW n \in Int
    PROVE  LET z == n + 719468
               d == DayIn(z)
               p == MonthOf(DayOf(d))
           IN  FromDays(n) = << YearTo(400 * DayEra(z) + YearOf(d), p), MonthTo(p), DayOf(d) - DaysTo(p) + 1 >>
  <1> DEFINE z == n + 719468
             d == DayIn(z)
             p == MonthOf(DayOf(d))
             m == MonthTo(p)
  <1>1. FromDays(n) = << YearOf(d) + DayEra(z) * 400 + (IF m <= 2 THEN 1 ELSE 0), m, DayOf(d) - DaysTo(p) + 1 >>
    BY DEF FromDays, YearOf, DayOf, MonthOf, DaysTo, MonthTo, DayEra, DayIn
  <1>2. DayEra(z) \in Int /\ d \in Nat /\ d < 146097
    BY DayEras
  <1> HIDE DEF z, d
  <1>3. YearOf(d) \in Nat /\ DayOf(d) \in Nat /\ DayOf(d) < 366
    BY <1>2, DayOfEra
  <1>4. p \in Nat /\ p < 12
    BY <1>3, Months
  <1> HIDE DEF p
  <1>5. YearOf(d) + DayEra(z) * 400 + (IF m <= 2 THEN 1 ELSE 0) = YearTo(400 * DayEra(z) + YearOf(d), p)
    BY <1>2, <1>3, <1>4 DEF MonthTo, YearTo
  <1> QED
    BY <1>1, <1>5 DEF z, d, p

\* to_days in these terms.
LEMMA ToDaysIs ==
    ASSUME NEW y \in Int, NEW m \in Nat, m > 0, m < 13, NEW d \in Int
    PROVE  ToDays(<< y, m, d >>) = Before(YearFrom(y, m)) + DaysTo(MonthFrom(m)) + d - 719469
  <1> DEFINE w == YearFrom(y, m)
             q == DaysTo(MonthFrom(m))
  <1>1. w \in Int /\ q \in Nat
    BY MonthsFrom, DaysToTyped
  <1>2. ToDays(<< y, m, d >>) = Era(w) * 146097 + YearDays(YearIn(w)) + (q + d - 1) - 719468
    BY DEF ToDays, YearFrom, MonthFrom, DaysTo, Era, YearIn, YearDays
  <1> HIDE DEF w, q
  <1>3. DayFrom(YearIn(w), 0) = YearDays(YearIn(w)) /\ YearDays(YearIn(w)) \in Int
    <2>1. YearIn(w) \in Nat
      BY <1>1, Eras
    <2> QED
      BY <2>1 DEF DayFrom, YearDays
  <1>4. Before(w) = 146097 * Era(w) + YearDays(YearIn(w)) /\ Era(w) \in Int
    BY <1>1, <1>3, Eras
  <1>5. ToDays(<< y, m, d >>) = Before(w) + q + d - 719469
    BY <1>1, <1>2, <1>3, <1>4, SMTT(60)
  <1> QED
    BY <1>5 DEF w, q

\* Every day has a date, and the day of the date is that day.
LEMMA DateOfDay ==
    ASSUME NEW n \in Int
    PROVE  /\ \E y, m, d \in Int : FromDays(n) = << y, m, d >>
           /\ IsDate(FromDays(n)) /\ ToDays(FromDays(n)) = n
  <1> DEFINE z == n + 719468
             e == DayEra(z)
             d == DayIn(z)
             v == YearOf(d)
             o == DayOf(d)
             p == MonthOf(o)
             w == 400 * e + v
             y == YearTo(w, p)
             m == MonthTo(p)
             a == o - DaysTo(p) + 1
  <1>1. FromDays(n) = << y, m, a >>
    BY FromDaysIs
  <1>2. e \in Int /\ d \in Nat /\ d < 146097 /\ n + 719468 = 146097 * e + d
    BY DayEras
  <1> HIDE DEF z, e, d
  <1>3. /\ v \in Nat /\ v < 400 /\ o \in Nat /\ o < 366
        /\ o = 365 => IsLeap(v + 1)
    BY <1>2, DayOfEra, LastOfYear
  <1>4. d = DayFrom(v, 0) + o /\ DayFrom(v, 0) \in Int
    BY <1>2, <1>3 DEF DayOf, DayFrom, YearDays
  <1> HIDE DEF v, o
  <1>5. /\ p \in Nat /\ p < 12 /\ DaysTo(p) \in Nat /\ DaysTo(p) <= o
        /\ o < DaysTo(p + 1) /\ DaysTo(p + 1) \in Nat
    BY <1>3, Months, DaysToTyped
  <1>6. w \in Int /\ Era(w) = e /\ YearIn(w) = v
    <2>1. w \in Int /\ w = 400 * e + v
      BY <1>2, <1>3
    <2> HIDE DEF w
    <2> QED
      BY <1>2, <1>3, <2>1, SMTT(60) DEF Era, YearIn
  <1> HIDE DEF p, w
  <1>7. /\ Before(w) = 146097 * e + DayFrom(v, 0) /\ Before(w) \in Int
        /\ o = 365 => IsLeap(w + 1)
    BY <1>3, <1>6, Eras
  <1>8. /\ y \in Int /\ m \in Nat /\ m > 0 /\ m < 13
        /\ MonthFrom(m) = p /\ YearFrom(y, m) = w
    BY <1>5, <1>6, MonthsTo
  <1>9. a = o - DaysTo(p) + 1 /\ a \in Int
    BY <1>3, <1>5
  <1> HIDE DEF y, m, a
  <1>10. a >= 1 /\ a <= MonthLength(y, m) /\ MonthLength(y, m) \in Nat
    <2>1. /\ MonthLength(y, m) \in Nat
          /\ p # 11 => MonthLength(y, m) = DaysTo(p + 1) - DaysTo(p)
          /\ p = 11 /\ IsLeap(w + 1) => MonthLength(y, m) = 29
          /\ p = 11 /\ ~IsLeap(w + 1) => MonthLength(y, m) = 28
      BY <1>8, MonthLengths
    <2>2. DaysTo(11) = 337
      BY DaysToMonth
    <2> QED
      BY <1>3, <1>5, <1>7, <1>9, <2>1, <2>2
  <1>11. ToDays(<< y, m, a >>) = n
    <2>1. ToDays(<< y, m, a >>) = Before(w) + DaysTo(p) + a - 719469
      BY <1>8, <1>9, ToDaysIs
    <2> QED
      BY <1>2, <1>3, <1>4, <1>5, <1>7, <1>9, <2>1
  <1>12. IsDate(<< y, m, a >>)
    BY <1>8, <1>9, <1>10 DEF IsDate
  <1> QED
    BY <1>1, <1>8, <1>9, <1>11, <1>12

\* Every date has a day, and the date of that day is the date.
LEMMA DayOfDate ==
    ASSUME NEW y \in Int, NEW m \in Int, NEW d \in Int, IsDate(<< y, m, d >>)
    PROVE  ToDays(<< y, m, d >>) \in Int /\ FromDays(ToDays(<< y, m, d >>)) = << y, m, d >>
  <1> DEFINE w == YearFrom(y, m)
             p == MonthFrom(m)
             o == DaysTo(p) + (d - 1)
             v == YearIn(w)
             x == DayFrom(v, o)
             n == ToDays(<< y, m, d >>)
  <1>1. m \in Nat /\ m > 0 /\ m < 13 /\ d >= 1 /\ d <= MonthLength(y, m)
    <2>1. m \in 1 .. 12 /\ d \in 1 .. MonthLength(y, m)
      BY DEF IsDate
    <2> QED
      BY <2>1
  <1>2. /\ w \in Int /\ p \in Nat /\ p < 12 /\ DaysTo(p) \in Nat /\ DaysTo(p + 1) \in Nat /\ d - 1 \in Nat
        /\ MonthTo(p) = m /\ YearTo(w, p) = y
    <2>1. /\ w \in Int /\ p \in Nat /\ p < 12 /\ MonthTo(p) = m /\ YearTo(w, p) = y
      BY <1>1, MonthsFrom
    <2> HIDE DEF w, p
    <2>2. p + 1 \in Nat /\ d - 1 \in Nat
      BY <1>1, <2>1
    <2> QED
      BY <2>1, <2>2, DaysToTyped
  <1>3. /\ MonthLength(y, m) \in Nat
        /\ p # 11 => MonthLength(y, m) = DaysTo(p + 1) - DaysTo(p)
        /\ p = 11 /\ IsLeap(w + 1) => MonthLength(y, m) = 29
        /\ p = 11 /\ ~IsLeap(w + 1) => MonthLength(y, m) = 28
    BY <1>1, MonthLengths
  <1>4. n = Before(w) + DaysTo(p) + d - 719469
    BY <1>1, ToDaysIs
  <1> HIDE DEF w, p, n
  <1>5. o \in Nat /\ o < DaysTo(p + 1) /\ (o < 365 \/ (o = 365 /\ IsLeap(w + 1)))
    <2>1. CASE p # 11
      <3>1. DaysTo(p + 1) <= 337
        <4>1. p \in {0, 1, 2, 3, 4, 5, 6, 7, 8, 9, 10}
          BY <1>2, <2>1
        <4> QED
          BY <4>1, DaysToMonth
      <3> QED
        BY <1>1, <1>2, <1>3, <2>1, <3>1
    <2>2. CASE p = 11
      <3>1. DaysTo(11) = 337 /\ DaysTo(12) = 367 /\ DaysTo(p + 1) = DaysTo(12)
        BY <2>2, DaysToMonth
      <3> QED
        BY <1>1, <1>2, <1>3, <2>2, <3>1
    <2> QED
      BY <2>1, <2>2
  <1>6. o = DaysTo(p) + (d - 1) /\ MonthOf(o) = p
    BY <1>2, <1>5, MonthThere
  <1> HIDE DEF o
  <1>7. /\ v \in Nat /\ v < 400 /\ Era(w) \in Int /\ w = 400 * Era(w) + v
        /\ Before(w) = 146097 * Era(w) + DayFrom(v, 0) /\ Before(w) \in Int
        /\ IsLeap(v + 1) <=> IsLeap(w + 1)
    BY <1>2, Eras
  <1> HIDE DEF v
  <1>8. InYear(v, o)
    BY <1>5, <1>7 DEF InYear
  <1>9. x \in Nat /\ x < 146097 /\ YearOf(x) = v
    BY <1>8, DayThere, DayBack
  <1>10. x = DayFrom(v, 0) + o /\ DayFrom(v, 0) \in Int
    BY <1>5, <1>7, DaysFrom
  <1> HIDE DEF x
  <1>11. DayOf(x) = o
    <2>1. DayOf(x) = x - DayFrom(v, 0)
      BY <1>7, <1>9 DEF DayOf, DayFrom, YearDays
    <2> QED
      BY <1>5, <1>10, <2>1
  <1>12. n \in Int /\ n + 719468 = 146097 * Era(w) + x
    BY <1>1, <1>2, <1>4, <1>6, <1>7, <1>10
  <1>13. DayEra(n + 719468) = Era(w) /\ DayIn(n + 719468) = x
    <2> DEFINE z == n + 719468
    <2>1. z \in Int /\ z = 146097 * Era(w) + x
      BY <1>12
    <2> HIDE DEF z
    <2>2. DayEra(z) = Era(w) /\ DayIn(z) = x
      BY <1>7, <1>9, <2>1, SMTT(60) DEF DayEra, DayIn
    <2> QED
      BY <2>2 DEF z
  <1>14. FromDays(n) = << YearTo(400 * Era(w) + v, p), MonthTo(p), o - DaysTo(p) + 1 >>
    <2> DEFINE f == DayIn(n + 719468)
               r == MonthOf(DayOf(f))
    <2>1. FromDays(n) = << YearTo(400 * DayEra(n + 719468) + YearOf(f), r), MonthTo(r), DayOf(f) - DaysTo(r) + 1 >>
      BY <1>12, FromDaysIs
    <2>2. f = x
      BY <1>13
    <2> HIDE DEF f
    <2>3. DayOf(f) = o /\ r = p /\ YearOf(f) = v
      BY <1>6, <1>9, <1>11, <2>2
    <2> HIDE DEF r
    <2> QED
      BY <1>13, <2>1, <2>3
  <1>15. o - DaysTo(p) + 1 = d
    BY <1>2, <1>6
  <1> QED
    BY <1>2, <1>7, <1>12, <1>14, <1>15 DEF n

\* The first day of a year.
LEMMA FirstOfYear ==
    ASSUME NEW y \in Int
    PROVE  ToDays(<< y, 1, 1 >>) = Before(y - 1) - 719162
  <1>1. YearFrom(y, 1) = y - 1 /\ MonthFrom(1) = 10 /\ DaysTo(10) = 306
    BY DaysToMonth DEF YearFrom, MonthFrom
  <1>2. ToDays(<< y, 1, 1 >>) = Before(YearFrom(y, 1)) + DaysTo(MonthFrom(1)) + 1 - 719469
    BY ToDaysIs, SMT
  <1>3. Before(y - 1) \in Int
    <2>1. y - 1 \in Int
      OBVIOUS
    <2> QED
      BY <2>1, Eras
  <1> QED
    BY <1>1, <1>2, <1>3, SMT

\* The leap years counted for a year after 1970, and for one before.
After1970(y)  == {x \in 1970 .. y - 1 : IsLeap(x)}
Before1970(y) == {x \in y .. 1969 : IsLeap(x)}

\* The leap years counted are finitely many.
LEMMA LeapYears ==
    ASSUME NEW y \in Int
    PROVE  /\ IsFiniteSet(After1970(y)) /\ IsFiniteSet(Before1970(y))
           /\ Cardinality(After1970(y)) \in Nat /\ Cardinality(Before1970(y)) \in Nat
  <1>1. IsFiniteSet(1970 .. y - 1) /\ IsFiniteSet(y .. 1969)
    <2>1. y - 1 \in Int /\ 1970 \in Int /\ 1969 \in Int
      OBVIOUS
    <2> QED
      BY <2>1, FS_Interval, SMT
  <1>2. After1970(y) \in SUBSET (1970 .. y - 1) /\ Before1970(y) \in SUBSET (y .. 1969)
    BY DEF After1970, Before1970
  <1>3. IsFiniteSet(After1970(y)) /\ IsFiniteSet(Before1970(y))
    <2>1. \A S : \A T \in SUBSET S : IsFiniteSet(S) => IsFiniteSet(T)
      BY FS_Subset
    <2> QED
      BY <1>1, <1>2, <2>1
  <1> QED
    BY <1>3, FS_CardinalityType, Zenon

\* The next year starts 365 days later, or 366 after a leap year.
LEMMA YearStartGrows ==
    ASSUME NEW y \in Int
    PROVE  /\ YearStart(y) \in Int
           /\ IsLeap(y) => YearStart(y + 1) = YearStart(y) + 366
           /\ ~IsLeap(y) => YearStart(y + 1) = YearStart(y) + 365
  <1>1. /\ YearStart(y) = 365 * (y - 1970) + Cardinality(After1970(y)) - Cardinality(Before1970(y))
        /\ YearStart(y + 1) = 365 * ((y + 1) - 1970) + Cardinality(After1970(y + 1)) - Cardinality(Before1970(y + 1))
    BY DEF YearStart, After1970, Before1970
  <1>2. y + 1 \in Int
    OBVIOUS
  <1>3. /\ IsFiniteSet(After1970(y)) /\ Cardinality(After1970(y)) \in Nat
        /\ IsFiniteSet(Before1970(y + 1)) /\ Cardinality(Before1970(y + 1)) \in Nat
        /\ Cardinality(Before1970(y)) \in Nat
    BY <1>2, LeapYears
  <1>4. CASE y < 1970
    <2>1. After1970(y) = {} /\ After1970(y + 1) = {}
      BY <1>4 DEF After1970
    <2>2. y \notin Before1970(y + 1)
      BY DEF Before1970
    <2>3. IsLeap(y) => Before1970(y) = Before1970(y + 1) \cup {y}
      BY <1>4 DEF Before1970
    <2>4. ~IsLeap(y) => Before1970(y) = Before1970(y + 1)
      BY <1>4 DEF Before1970
    <2>5. Cardinality(Before1970(y + 1) \cup {y}) = Cardinality(Before1970(y + 1)) + 1
      BY <1>3, <2>2, FS_AddElement
    <2>6. Cardinality(After1970(y + 1)) = Cardinality(After1970(y))
      BY <2>1
    <2>7. IsLeap(y) => Cardinality(Before1970(y)) = Cardinality(Before1970(y + 1)) + 1
      BY <2>3, <2>5
    <2>8. ~IsLeap(y) => Cardinality(Before1970(y)) = Cardinality(Before1970(y + 1))
      BY <2>4
    <2> QED
      BY <1>1, <1>3, <2>6, <2>7, <2>8, SMT
  <1>5. CASE y >= 1970
    <2>1. Before1970(y) = {} /\ Before1970(y + 1) = {}
      BY <1>5 DEF Before1970
    <2>2. y \notin After1970(y)
      BY DEF After1970
    <2>3. IsLeap(y) => After1970(y + 1) = After1970(y) \cup {y}
      BY <1>5 DEF After1970
    <2>4. ~IsLeap(y) => After1970(y + 1) = After1970(y)
      BY <1>5 DEF After1970
    <2>5. Cardinality(After1970(y) \cup {y}) = Cardinality(After1970(y)) + 1
      BY <1>3, <2>2, FS_AddElement
    <2>6. Cardinality(Before1970(y + 1)) = Cardinality(Before1970(y))
      BY <2>1
    <2>7. IsLeap(y) => Cardinality(After1970(y + 1)) = Cardinality(After1970(y)) + 1
      BY <2>3, <2>5
    <2>8. ~IsLeap(y) => Cardinality(After1970(y + 1)) = Cardinality(After1970(y))
      BY <2>4
    <2> QED
      BY <1>1, <1>3, <2>6, <2>7, <2>8, SMT
  <1> QED
    BY <1>4, <1>5

\* The years counted one by one are those counted at once.
LEMMA YearStartIs ==
    ASSUME NEW y \in Int
    PROVE  YearStart(y) = Before(y - 1) - 719162
  <1> DEFINE Right(x) == YearStart(x) = Before(x - 1) - 719162
             Late     == {n \in Nat : ~Right(1970 + n)}
             Early    == {n \in Nat : ~Right(1970 - n)}
  <1>1. Right(1970)
    <2>1. After1970(1970) = {} /\ Before1970(1970) = {}
      BY DEF After1970, Before1970
    <2>2. YearStart(1970) = 365 * (1970 - 1970) + Cardinality(After1970(1970)) - Cardinality(Before1970(1970))
      BY DEF YearStart, After1970, Before1970
    <2>3. Cardinality({}) = 0
      BY FS_EmptySet
    <2>4. YearStart(1970) = 0
      BY <2>1, <2>2, <2>3, SMT
    <2>5. Before(1970 - 1) = 719162
      BY SMT DEF Before
    <2> QED
      BY <2>4, <2>5, SMT
  <1>2. ASSUME NEW x \in Int
        PROVE  Right(x) <=> Right(x + 1)
    <2>1. x - 1 \in Int /\ (x - 1) + 1 = x /\ (x + 1) - 1 = x
      OBVIOUS
    <2>2. /\ IsLeap(x) => Before(x) = Before(x - 1) + 366
          /\ ~IsLeap(x) => Before(x) = Before(x - 1) + 365
          /\ Before(x) \in Int /\ Before(x - 1) \in Int
      BY <2>1, YearLonger, Eras
    <2>3. /\ YearStart(x) \in Int
          /\ IsLeap(x) => YearStart(x + 1) = YearStart(x) + 366
          /\ ~IsLeap(x) => YearStart(x + 1) = YearStart(x) + 365
      BY YearStartGrows
    <2> QED
      BY <2>1, <2>2, <2>3, SMT
  <1> HIDE DEF Right
  <1>3. ASSUME Late # {}
        PROVE  FALSE
    <2>1. PICK n \in Late : \A m \in Late : n <= m
      <3>1. Late \in SUBSET Nat
        OBVIOUS
      <3> HIDE DEF Late
      <3> QED
        BY <1>3, <3>1, LeastNumber
    <2>2. n \in Nat /\ ~Right(1970 + n)
      OBVIOUS
    <2>3. n # 0
      <3>1. n = 0 => 1970 + n = 1970
        BY SMT
      <3> QED
        BY <1>1, <2>2, <3>1
    <2>4. n - 1 \in Nat /\ ~(n <= n - 1) /\ 1970 + n = (1970 + (n - 1)) + 1 /\ 1970 + (n - 1) \in Int
      BY <2>2, <2>3, SMT
    <2>5. Right(1970 + (n - 1))
      BY <2>1, <2>4
    <2>6. Right((1970 + (n - 1)) + 1)
      BY <1>2, <2>4, <2>5
    <2> QED
      BY <2>2, <2>4, <2>6
  <1>4. ASSUME Early # {}
        PROVE  FALSE
    <2>1. PICK n \in Early : \A m \in Early : n <= m
      <3>1. Early \in SUBSET Nat
        OBVIOUS
      <3> HIDE DEF Early
      <3> QED
        BY <1>4, <3>1, LeastNumber
    <2>2. n \in Nat /\ ~Right(1970 - n)
      OBVIOUS
    <2>3. n # 0
      <3>1. n = 0 => 1970 - n = 1970
        BY SMT
      <3> QED
        BY <1>1, <2>2, <3>1
    <2>4. n - 1 \in Nat /\ ~(n <= n - 1) /\ 1970 - (n - 1) = (1970 - n) + 1 /\ 1970 - n \in Int
      BY <2>2, <2>3, SMT
    <2>5. Right(1970 - (n - 1))
      BY <2>1, <2>4
    <2>6. Right((1970 - n) + 1)
      BY <2>4, <2>5
    <2>7. Right(1970 - n)
      BY <1>2, <2>4, <2>6
    <2> QED
      BY <2>2, <2>7
  <1>5. ASSUME NEW n \in Nat
        PROVE  Right(1970 + n) /\ Right(1970 - n)
    <2>1. n \notin Late /\ n \notin Early
      <3> HIDE DEF Late, Early
      <3> QED
        BY <1>3, <1>4
    <2> QED
      BY <2>1
  <1> HIDE DEF Late, Early
  <1>6. CASE y >= 1970
    <2>1. y - 1970 \in Nat /\ 1970 + (y - 1970) = y
      BY <1>6, SMT
    <2>2. Right(1970 + (y - 1970))
      BY <1>5, <2>1
    <2> QED
      BY <2>1, <2>2 DEF Right
  <1>7. CASE y < 1970
    <2> DEFINE k == 1970 - y
    <2>1. k \in Nat /\ 1970 - k = y
      BY <1>7, SMT
    <2> HIDE DEF k
    <2>2. Right(1970 - k)
      BY <1>5, <2>1
    <2> QED
      BY <2>1, <2>2 DEF Right
  <1> QED
    BY <1>6, <1>7

\* The day of a date, counted from the start of its year.
LEMMA DayCounted ==
    ASSUME NEW y \in Int, NEW m \in Nat, m > 0, m < 13, NEW d \in Int
    PROVE  ToDays(<< y, m, d >>) = YearStart(y) + DaysBefore(y, m) + d - 1
  <1>1. /\ y - 1 \in Int /\ (y - 1) + 1 = y
        /\ Before(y - 1) \in Int /\ Before(y) \in Int
        /\ IsLeap(y) => Before(y) = Before(y - 1) + 366
        /\ ~IsLeap(y) => Before(y) = Before(y - 1) + 365
    <2>1. y - 1 \in Int /\ (y - 1) + 1 = y
      OBVIOUS
    <2> QED
      BY <2>1, Eras, YearLonger
  <1>2. YearStart(y) = Before(y - 1) - 719162
    BY YearStartIs
  <1>3. ToDays(<< y, m, d >>) = Before(YearFrom(y, m)) + DaysTo(MonthFrom(m)) + d - 719469
    BY ToDaysIs
  <1>4. m \in {1, 2, 3, 4, 5, 6, 7, 8, 9, 10, 11, 12}
    OBVIOUS
  <1>5. m <= 2 => YearFrom(y, m) = y - 1 /\ DaysTo(MonthFrom(m)) = DaysBefore(y, m) + 306
    BY <1>4, DaysToMonth, SMTT(60) DEF YearFrom, MonthFrom, DaysBefore
  <1>6. m > 2 => /\ YearFrom(y, m) = y
                 /\ IsLeap(y) => DaysTo(MonthFrom(m)) = DaysBefore(y, m) - 60
                 /\ ~IsLeap(y) => DaysTo(MonthFrom(m)) = DaysBefore(y, m) - 59
    BY <1>4, DaysToMonth, SMTT(60) DEF YearFrom, MonthFrom, DaysBefore
  <1>7. DaysBefore(y, m) \in Int
    BY <1>4, SMTT(60) DEF DaysBefore
  <1> QED
    BY <1>1, <1>2, <1>3, <1>5, <1>6, <1>7, SMTT(60)

\* The next day is the one after it.
LEMMA NextIsNext ==
    ASSUME NEW y \in Int, NEW m \in Int, NEW d \in Int, IsDate(<< y, m, d >>)
    PROVE  \E x, k, e \in Int :
              /\ NextDay(<< y, m, d >>) = << x, k, e >> /\ IsDate(<< x, k, e >>)
              /\ ToDays(<< x, k, e >>) = ToDays(<< y, m, d >>) + 1
  <1>1. /\ m \in Nat /\ m > 0 /\ m < 13 /\ d \in Nat /\ d >= 1 /\ d <= MonthLength(y, m)
        /\ m \in {1, 2, 3, 4, 5, 6, 7, 8, 9, 10, 11, 12}
    <2>1. m \in 1 .. 12 /\ d \in 1 .. MonthLength(y, m)
      BY DEF IsDate
    <2> QED
      BY <2>1
  <1>2. ToDays(<< y, m, d >>) = YearStart(y) + DaysBefore(y, m) + d - 1 /\ YearStart(y) \in Int
    BY <1>1, DayCounted, YearStartGrows
  <1>3. DaysBefore(y, m) \in Int /\ MonthLength(y, m) \in Nat
    BY <1>1, SMTT(60) DEF DaysBefore, MonthLength
  <1>4. CASE d < MonthLength(y, m)
    <2>1. NextDay(<< y, m, d >>) = << y, m, d + 1 >>
      BY <1>4 DEF NextDay
    <2>2. IsDate(<< y, m, d + 1 >>)
      BY <1>1, <1>3, <1>4 DEF IsDate
    <2>3. ToDays(<< y, m, d + 1 >>) = YearStart(y) + DaysBefore(y, m) + (d + 1) - 1
      <3>1. d + 1 \in Int
        OBVIOUS
      <3> QED
        BY <1>1, <3>1, DayCounted
    <2>4. ToDays(<< y, m, d + 1 >>) = ToDays(<< y, m, d >>) + 1 /\ d + 1 \in Int
      BY <1>2, <1>3, <2>3
    <2> WITNESS y \in Int, m \in Int, d + 1 \in Int
    <2> QED
      BY <2>1, <2>2, <2>4
  <1>5. CASE d = MonthLength(y, m) /\ m < 12
    <2>1. NextDay(<< y, m, d >>) = << y, m + 1, 1 >>
      BY <1>5 DEF NextDay
    <2>2. IsDate(<< y, m + 1, 1 >>)
      BY <1>1, <1>5, SMTT(60) DEF IsDate, MonthLength
    <2>3. ToDays(<< y, m + 1, 1 >>) = YearStart(y) + DaysBefore(y, m + 1) + 1 - 1
      <3>1. m + 1 \in Nat /\ m + 1 > 0 /\ m + 1 < 13 /\ 1 \in Int
        BY <1>1, <1>5
      <3> QED
        BY <3>1, DayCounted
    <2>4. DaysBefore(y, m + 1) = DaysBefore(y, m) + MonthLength(y, m)
      BY <1>1, <1>5, SMTT(60) DEF DaysBefore, MonthLength
    <2>5. ToDays(<< y, m + 1, 1 >>) = ToDays(<< y, m, d >>) + 1
      BY <1>2, <1>3, <1>5, <2>3, <2>4
    <2> WITNESS y \in Int, m + 1 \in Int, 1 \in Int
    <2> QED
      BY <2>1, <2>2, <2>5
  <1>6. CASE d = MonthLength(y, m) /\ m = 12
    <2>1. NextDay(<< y, m, d >>) = << y + 1, 1, 1 >>
      BY <1>6 DEF NextDay
    <2>2. IsDate(<< y + 1, 1, 1 >>)
      BY SMTT(60) DEF IsDate, MonthLength
    <2>3. ToDays(<< y + 1, 1, 1 >>) = YearStart(y + 1) + DaysBefore(y + 1, 1) + 1 - 1
      <3>1. y + 1 \in Int /\ 1 \in Nat /\ 1 > 0 /\ 1 < 13 /\ 1 \in Int
        OBVIOUS
      <3> QED
        BY <3>1, DayCounted
    <2>4. /\ DaysBefore(y + 1, 1) = 0 /\ MonthLength(y, m) = 31
          /\ IsLeap(y) => DaysBefore(y, m) = 335
          /\ ~IsLeap(y) => DaysBefore(y, m) = 334
      BY <1>6, SMTT(60) DEF DaysBefore, MonthLength
    <2>5. /\ IsLeap(y) => YearStart(y + 1) = YearStart(y) + 366
          /\ ~IsLeap(y) => YearStart(y + 1) = YearStart(y) + 365
      BY YearStartGrows
    <2>6. ToDays(<< y + 1, 1, 1 >>) = ToDays(<< y, m, d >>) + 1
      BY <1>2, <1>3, <1>6, <2>3, <2>4, <2>5
    <2> WITNESS y + 1 \in Int, 1 \in Int, 1 \in Int
    <2> QED
      BY <2>1, <2>2, <2>6
  <1>7. d < MonthLength(y, m) \/ (d = MonthLength(y, m) /\ m < 12) \/ (d = MonthLength(y, m) /\ m = 12)
    BY <1>1, <1>3
  <1> QED
    BY <1>4, <1>5, <1>6, <1>7, Zenon

\* What follows a day is the next day of the calendar.
LEMMA DateOfNext ==
    ASSUME NEW n \in Int
    PROVE  FromDays(n + 1) = NextDay(FromDays(n))
  <1>1. PICK y \in Int, m \in Int, d \in Int :
          FromDays(n) = << y, m, d >> /\ IsDate(<< y, m, d >>) /\ ToDays(<< y, m, d >>) = n
    <2>1. PICK y \in Int, m \in Int, d \in Int : FromDays(n) = << y, m, d >>
      BY DateOfDay
    <2>2. IsDate(FromDays(n)) /\ ToDays(FromDays(n)) = n
      BY DateOfDay
    <2> QED
      BY <2>1, <2>2
  <1>2. PICK x \in Int, k \in Int, e \in Int :
          /\ NextDay(<< y, m, d >>) = << x, k, e >> /\ IsDate(<< x, k, e >>)
          /\ ToDays(<< x, k, e >>) = ToDays(<< y, m, d >>) + 1
    BY <1>1, NextIsNext
  <1>3. FromDays(ToDays(<< x, k, e >>)) = << x, k, e >>
    BY <1>2, DayOfDate
  <1> QED
    BY <1>1, <1>2, <1>3

\* The date of a day, as the calendar counts it.
LEMMA DateIsDay ==
    ASSUME NEW n \in Int
    PROVE  IsDay(FromDays(n), n)
  <1>1. PICK y \in Int, m \in Int, d \in Int :
          FromDays(n) = << y, m, d >> /\ IsDate(<< y, m, d >>) /\ ToDays(<< y, m, d >>) = n
    <2>1. PICK y \in Int, m \in Int, d \in Int : FromDays(n) = << y, m, d >>
      BY DateOfDay
    <2>2. IsDate(FromDays(n)) /\ ToDays(FromDays(n)) = n
      BY DateOfDay
    <2> QED
      BY <2>1, <2>2
  <1>2. m \in Nat /\ m > 0 /\ m < 13
    BY <1>1 DEF IsDate
  <1>3. n = YearStart(y) + DaysBefore(y, m) + d - 1
    BY <1>1, <1>2, DayCounted
  <1> QED
    BY <1>1, <1>3 DEF IsDay

-----------------------------------------------------------------------------
(* Kinds of conversion, and texts in buffers.                               *)

\* A conversion is of the kind its name says.
LEMMA Converted ==
    ASSUME ConversionCall
    PROVE  /\ call'.op = "write" => WriteText
           /\ call'.op = "parameter" => ReadParameter
           /\ call'.op = "year" => ComputeYear
           /\ call'.op = "date" => ReadDate
           /\ call'.op = "time" => ReadTime
           /\ call'.op = "datetime" => ReadDateTime
           /\ call'.op = "timestamp" => WriteTimestamp
  <1>1. ReadInteger => call'.op = "integer"
    BY DEF ReadInteger
  <1>2. WriteInteger => call'.op = "sent"
    BY DEF WriteInteger
  <1>3. ReadDouble => call'.op = "double"
    BY DEF ReadDouble
  <1>4. ReadNumeric => call'.op = "numeric"
    BY DEF ReadNumeric
  <1>5. ReadDate => call'.op = "date"
    BY DEF ReadDate
  <1>6. ReadTime => call'.op = "time"
    BY DEF ReadTime
  <1>7. ReadDateTime => call'.op = "datetime"
    BY DEF ReadDateTime
  <1>8. WriteTimestamp => call'.op = "timestamp"
    BY DEF WriteTimestamp
  <1>9. ComputeYear => call'.op = "year"
    BY DEF ComputeYear
  <1>10. WriteText => call'.op = "write"
    BY DEF WriteText
  <1>11. ReadParameter => call'.op = "parameter"
    BY DEF ReadParameter
  <1> QED
    BY <1>1, <1>2, <1>3, <1>4, <1>5, <1>6, <1>7, <1>8, <1>9, <1>10, <1>11 DEF ConversionCall

\* Where the null goes: behind the text or in the last place.
LEMMA NullPlaced ==
    ASSUME NEW n \in Nat, NEW room \in Nat
    PROVE  /\ FilledEnd(n, room) \in Nat /\ FilledEnd(n, room) <= room /\ FilledEnd(n, room) <= n + 1
           /\ room > 0 => FilledEnd(n, room) > 0
           /\ n < room => FilledEnd(n, room) = n + 1
           /\ n >= room => FilledEnd(n, room) = room
  BY DEF FilledEnd

\* How many symbols a buffer has room for.
RoomIn(size, width, inBytes) == IF inBytes THEN size \div width ELSE size

\* The room is a number.
LEMMA RoomIsNumber ==
    ASSUME NEW size \in Nat, NEW width \in {1, 2}, NEW inBytes
    PROVE  RoomIn(size, width, inBytes) \in Nat
  <1>1. size \div 1 \in Nat /\ size \div 2 \in Nat
    BY SMT
  <1> QED
    BY <1>1 DEF RoomIn

\* The buffer, place by place, when there is one.
LEMMA FilledThere ==
    ASSUME NEW n \in 0 .. Longest, NEW size, NEW width, NEW inBytes, RoomIn(size, width, inBytes) \in Nat,
           ~(inBytes /\ size % width # 0)
    PROVE  /\ DOMAIN FillOutputString(n, TRUE, size, width, inBytes).memory = 1 .. Longest + 2
           /\ \A i \in 1 .. Longest + 2 :
                 /\ i > RoomIn(size, width, inBytes) =>
                       FillOutputString(n, TRUE, size, width, inBytes).memory[i] = "old"
                 /\ i = FilledEnd(n, RoomIn(size, width, inBytes)) =>
                       FillOutputString(n, TRUE, size, width, inBytes).memory[i] = "null"
                 /\ i < FilledEnd(n, RoomIn(size, width, inBytes)) =>
                       FillOutputString(n, TRUE, size, width, inBytes).memory[i] = "text"
  <1> DEFINE room == IF inBytes THEN size \div width ELSE size
             last  == FilledEnd(n, room)
             out  == [ memory |-> [i \in 1 .. Longest + 2 |->
                                     CASE i = last -> "null"
                                       [] i # last /\ TRUE /\ i <= SmallerOf(n, room) -> "text"
                                       [] OTHER -> "old"],
                       length |-> IF inBytes THEN n * width ELSE n,
                       result |-> IF n + 1 > room THEN "01004" ELSE "success" ]
  <1>1. n \in Nat /\ Longest \in Nat
    BY ConversionAssumption
  <1>2. room = RoomIn(size, width, inBytes)
    BY DEF RoomIn
  <1>3. FillOutputString(n, TRUE, size, width, inBytes) = out
    BY DEF FillOutputString
  <1> HIDE DEF room
  <1>4. ASSUME NEW i \in 1 .. Longest + 2
        PROVE  /\ i > room => out.memory[i] = "old"
               /\ i = last => out.memory[i] = "null"
               /\ i < last => out.memory[i] = "text"
    <2> HIDE DEF last
    <2> QED
      BY <1>1, <1>2, NullPlaced DEF SmallerOf, last
  <1>5. DOMAIN out.memory = 1 .. Longest + 2
    OBVIOUS
  <1> HIDE DEF out
  <1> QED
    BY <1>2, <1>3, <1>4, <1>5, Zenon

\* The length, and whether all of the text is there.
LEMMA Reported ==
    ASSUME NEW n, NEW given, NEW size, NEW width, NEW inBytes, ~(given /\ inBytes /\ size % width # 0)
    PROVE  /\ FillOutputString(n, given, size, width, inBytes).length = IF inBytes THEN n * width ELSE n
           /\ FillOutputString(n, given, size, width, inBytes).result =
                 IF n + 1 > RoomIn(size, width, inBytes) THEN "01004" ELSE "success"
  BY DEF FillOutputString, RoomIn

\* What a call with room for the whole text reports and has written.
LEMMA ReportedAgain ==
    ASSUME NEW n, NEW size, NEW width, NEW inBytes, ~(inBytes /\ size % width # 0)
    PROVE  FillOutputString(n, TRUE, size, width, inBytes).result =
              IF n + 1 > RoomIn(size, width, inBytes) THEN "01004" ELSE "success"
  BY DEF FillOutputString, RoomIn

\* Without a buffer nothing is written.
LEMMA NotFilled ==
    ASSUME NEW n, NEW size, NEW width, NEW inBytes
    PROVE  \A i \in DOMAIN FillOutputString(n, FALSE, size, width, inBytes).memory :
              FillOutputString(n, FALSE, size, width, inBytes).memory[i] = "old"
  <1> DEFINE room == IF inBytes THEN size \div width ELSE size
  <1>1. Longest \in Nat
    BY ConversionAssumption
  <1>2. FillOutputString(n, FALSE, size, width, inBytes).memory =
           [i \in 1 .. Longest + 2 |-> CASE i = 0 -> "null"
                                         [] i # 0 /\ FALSE /\ i <= SmallerOf(n, room) -> "text"
                                         [] OTHER -> "old"]
    BY DEF FillOutputString
  <1>3. ASSUME NEW i \in 1 .. Longest + 2
        PROVE  FillOutputString(n, FALSE, size, width, inBytes).memory[i] = "old"
    <2>1. i # 0
      BY <1>1
    <2>2. FillOutputString(n, FALSE, size, width, inBytes).memory[i] =
             CASE i = 0 -> "null" [] i # 0 /\ FALSE /\ i <= SmallerOf(n, room) -> "text" [] OTHER -> "old"
      BY <1>2, Zenon
    <2> QED
      BY <2>1, <2>2, Zenon
  <1> HIDE DEF room
  <1> QED
    BY <1>2, <1>3

\* A text that was written and fits is there with its null.
LEMMA WrittenWhole ==
    ASSUME NEW n \in 0 .. Longest, NEW size, NEW width, NEW inBytes, RoomIn(size, width, inBytes) \in Nat,
           ~(inBytes /\ size % width # 0), n < RoomIn(size, width, inBytes)
    PROVE  Whole(FillOutputString(n, TRUE, size, width, inBytes).memory, n)
  <1> DEFINE memory == FillOutputString(n, TRUE, size, width, inBytes).memory
  <1>1. n \in Nat /\ Longest \in Nat /\ n <= Longest
    BY ConversionAssumption
  <1>2. FilledEnd(n, RoomIn(size, width, inBytes)) = n + 1
    BY <1>1, NullPlaced
  <1>3. \A i \in 1 .. Longest + 2 : (i = n + 1 => memory[i] = "null") /\ (i < n + 1 => memory[i] = "text")
    <2>1. \A i \in 1 .. Longest + 2 :
                 /\ i > RoomIn(size, width, inBytes) => memory[i] = "old"
                 /\ i = FilledEnd(n, RoomIn(size, width, inBytes)) => memory[i] = "null"
                 /\ i < FilledEnd(n, RoomIn(size, width, inBytes)) => memory[i] = "text"
      BY FilledThere, Zenon
    <2> HIDE DEF memory
    <2> QED
      BY <1>2, <2>1
  <1>4. n + 1 \in 1 .. Longest + 2 /\ \A i \in 1 .. n : i \in 1 .. Longest + 2 /\ i < n + 1
    BY <1>1
  <1> HIDE DEF memory
  <1>5. Whole(memory, n)
    BY <1>3, <1>4, Zenon DEF Whole
  <1> QED
    BY <1>5 DEF memory

\* Texts in buffers.  For texts and buffers of any length nothing is written
\* behind a buffer (if it has a size at all), a null ends what is written, success means all of it, and
\* the length reported, with room for a null, is what a second call needs; a
\* parameter given by its length or its null is read so.
THEOREM BuffersHoldTexts == ConversionSpec => []TextsInBuffers
  <1>1. NotCalled => TextsInBuffers
    BY DEF NotCalled, Start, TextsInBuffers
  <1>2. ASSUME ConversionCall
        PROVE  TextsInBuffers'
    <2>1. ASSUME call'.op = "write", call'.out # Error
          PROVE  LET room   == IF call'.inBytes THEN call'.size \div call'.width ELSE call'.size
                     memory == call'.out.memory
                 IN  /\ \A i \in DOMAIN memory : ~call'.given \/ (i > room /\ call'.size > 0) => memory[i] = "old"
                     /\ call'.given /\ room > 0 => \E k \in 0 .. SmallerOf(room, Longest + 2) - 1 : Whole(memory, k)
                     /\ call'.given /\ call'.out.result = "success" => Whole(memory, call'.n)
                     /\ call'.again.result = "success" /\ Whole(call'.again.memory, call'.n)
      <3>1. PICK n, given, inBytes, size, width :
               LET out == FillOutputString(n, given, size, width, inBytes)
               IN  /\ n \in 0 .. Longest /\ given \in BOOLEAN /\ inBytes \in BOOLEAN /\ size \in Buffer
                   /\ width \in {1, 2}
                   /\ call' = [op |-> "write", n |-> n, given |-> given, size |-> size, width |-> width,
                      inBytes |-> inBytes, out |-> out,
                      again |-> IF out = Error THEN Error
                                ELSE FillOutputString(n, TRUE, out.length + (IF inBytes THEN width ELSE 1), width, inBytes) ]
        BY <1>2, <2>1, Converted, ZenonT(30) DEF WriteText
      <3> DEFINE out    == FillOutputString(n, given, size, width, inBytes)
                 room   == RoomIn(size, width, inBytes)
                 last    == FilledEnd(n, room)
                 more   == out.length + (IF inBytes THEN width ELSE 1)
                 again  == FillOutputString(n, TRUE, more, width, inBytes)
                 memory == out.memory
      <3>2. /\ call'.n = n /\ call'.given = given /\ call'.size = size /\ call'.width = width
            /\ call'.inBytes = inBytes /\ call'.out = out /\ call'.again = IF out = Error THEN Error ELSE again
        BY <3>1
      <3>3. n \in Nat /\ Longest \in Nat /\ size \in Nat /\ n <= Longest
        BY <3>1, ConversionAssumption
      <3>b. given \in BOOLEAN
        BY <3>1
      <3>c. n \in 0 .. Longest
        BY <3>1
      <3>d. width \in {1, 2}
        BY <3>1
      <3>4. ~(given /\ inBytes /\ size % width # 0)
        BY <2>1, <3>2 DEF FillOutputString
      <3>5. room \in Nat
        BY <3>3, <3>d, RoomIsNumber
      <3>6. out.length = (IF inBytes THEN n * width ELSE n) /\ out.result = IF n + 1 > room THEN "01004" ELSE "success"
        BY <3>4, Reported
      <3>7. \A i \in DOMAIN memory : ~given \/ i > room => memory[i] = "old"
        <4>1. CASE given = TRUE
          <5>1. ~(inBytes /\ size % width # 0)
            BY <3>4, <4>1
          <5>2. memory = FillOutputString(n, TRUE, size, width, inBytes).memory
            BY <4>1
          <5>3. /\ DOMAIN FillOutputString(n, TRUE, size, width, inBytes).memory = 1 .. Longest + 2
                /\ \A i \in 1 .. Longest + 2 :
                      i > room => FillOutputString(n, TRUE, size, width, inBytes).memory[i] = "old"
            BY <3>5, <3>c, <5>1, FilledThere, ZenonT(30)
          <5> HIDE DEF memory, room
          <5> QED
            BY <5>2, <5>3, <4>1
        <4>2. CASE given = FALSE
          <5>1. memory = FillOutputString(n, FALSE, size, width, inBytes).memory
            BY <4>2
          <5>2. \A i \in DOMAIN FillOutputString(n, FALSE, size, width, inBytes).memory :
                   FillOutputString(n, FALSE, size, width, inBytes).memory[i] = "old"
            BY NotFilled, Zenon
          <5> HIDE DEF memory, room
          <5> QED
            BY <5>1, <5>2
        <4> QED
          BY <3>b, <4>1, <4>2
      <3>8. ASSUME given = TRUE
            PROVE  /\ room > 0 => \E k \in 0 .. SmallerOf(room, Longest + 2) - 1 : Whole(memory, k)
                   /\ out.result = "success" => Whole(memory, n)
        <4>1. ~(inBytes /\ size % width # 0)
          BY <3>4, <3>8
        <4>2. memory = FillOutputString(n, TRUE, size, width, inBytes).memory
          BY <3>8
        <4>3. \A i \in 1 .. Longest + 2 : (i = last => memory[i] = "null") /\ (i < last => memory[i] = "text")
          <5>1. \A i \in 1 .. Longest + 2 :
                   /\ i = last => FillOutputString(n, TRUE, size, width, inBytes).memory[i] = "null"
                   /\ i < last => FillOutputString(n, TRUE, size, width, inBytes).memory[i] = "text"
            BY <3>5, <3>c, <4>1, FilledThere, Zenon
          <5> HIDE DEF memory, last
          <5> QED
            BY <4>2, <5>1
        <4>4. room > 0 => last \in Nat /\ last > 0 /\ last <= room /\ last <= n + 1
          BY <3>3, <3>5, NullPlaced, ZenonT(30)
        <4>5. ASSUME room > 0
              PROVE  \E k \in 0 .. SmallerOf(room, Longest + 2) - 1 : Whole(memory, k)
          <5> HIDE DEF last, room, memory
          <5>1. last - 1 \in 0 .. SmallerOf(room, Longest + 2) - 1
            BY <3>3, <3>5, <4>4, <4>5 DEF SmallerOf
          <5>2. Whole(memory, last - 1)
            BY <3>3, <3>5, <4>3, <4>4, <4>5 DEF Whole
          <5> QED
            BY <5>1, <5>2
        <4>6. ASSUME out.result = "success"
              PROVE  Whole(memory, n)
          <5>1. n < room
            <6> HIDE DEF room, out
            <6> QED
              BY <3>3, <3>5, <3>6, <4>6
          <5> QED
            BY <3>5, <3>c, <4>1, <4>2, <5>1, WrittenWhole
        <4> QED
          BY <4>5, <4>6
      <3>a. again.result = "success" /\ Whole(again.memory, n)
        <4>1. more = IF inBytes THEN n * width + width ELSE n + 1
          <5> HIDE DEF out
          <5> QED
            BY <3>6
        <4>2. RoomIn(more, width, inBytes) = n + 1 /\ (inBytes => more % width = 0)
          <5>1. CASE width = 1
            <6>1. (n + 1) \div 1 = n + 1 /\ (n + 1) % 1 = 0
              BY <3>3
            <6> QED
              BY <3>3, <4>1, <5>1, <6>1 DEF RoomIn
          <5>2. CASE width = 2
            <6>1. (2 * (n + 1)) \div 2 = n + 1 /\ (2 * (n + 1)) % 2 = 0
              BY <3>3
            <6>2. n * width + width = 2 * (n + 1)
              BY <3>3, <5>2
            <6> QED
              BY <3>3, <4>1, <5>2, <6>1, <6>2 DEF RoomIn
          <5> QED
            BY <3>d, <5>1, <5>2
        <4> HIDE DEF more
        <4>3. ~(TRUE /\ inBytes /\ more % width # 0)
          BY <4>2
        <4>4. again.result = IF n + 1 > n + 1 THEN "01004" ELSE "success"
          <5>1. again.result = IF n + 1 > RoomIn(more, width, inBytes) THEN "01004" ELSE "success"
            BY <4>3, ReportedAgain, Zenon
          <5> HIDE DEF again
          <5> QED
            BY <4>2, <5>1
        <4>5. Whole(again.memory, n)
          <5>1. n + 1 \in Nat /\ n < n + 1
            BY <3>3
          <5> QED
            BY <3>c, <4>2, <4>3, <5>1, WrittenWhole
        <4> QED
          <5> HIDE DEF again
          <5> QED
            BY <3>3, <4>4, <4>5
      <3>9. call'.again = again
        BY <2>1, <3>2
      <3>10. room = IF call'.inBytes THEN call'.size \div call'.width ELSE call'.size
        BY <3>2 DEF RoomIn
      <3> HIDE DEF room, out, again, last, more
      <3> QED
        BY <3>b, <3>2, <3>7, <3>8, <3>a, <3>9, <3>10
    <2>2. ASSUME call'.op = "parameter"
          PROVE  /\ call'.indicator = << SQL_NTS >> => call'.out = call'.n
                 /\ call'.indicator # << >> /\ call'.indicator = call'.length /\ call'.length # << 0 >> =>
                        call'.out = call'.length[1] \div call'.width
      <3>1. PICK n \in 0 .. Longest, width \in {1, 2}, named \in 0 .. Longest :
               \E indicator \in { << >>, << 0 >>, << SQL_NTS >>, << SQL_NULL_DATA >>, << SQL_DATA_AT_EXEC >>,
                                  << SQL_DEFAULT_PARAM >>, << named * width >> },
                  length \in { << >>, << named * width >> } :
                 call' = [ op |-> "parameter", n |-> n, width |-> width, indicator |-> indicator, length |-> length,
                           out |-> FromBuffer(n, indicator, length, width) ]
        BY <1>2, <2>2, Converted, Zenon DEF ReadParameter
      <3>2. PICK indicator \in { << >>, << 0 >>, << SQL_NTS >>, << SQL_NULL_DATA >>, << SQL_DATA_AT_EXEC >>,
                                << SQL_DEFAULT_PARAM >>, << named * width >> },
                 length \in { << >>, << named * width >> } :
                 call' = [ op |-> "parameter", n |-> n, width |-> width, indicator |-> indicator, length |-> length,
                           out |-> FromBuffer(n, indicator, length, width) ]
        BY <3>1, Zenon
      <3>3. indicator = << SQL_NTS >> => FromBuffer(n, indicator, length, width) = n
        <4> SUFFICES ASSUME indicator = << SQL_NTS >>
                     PROVE  FromBuffer(n, indicator, length, width) = n
          OBVIOUS
        <4>1. indicator # << >> /\ indicator[1] = -3
          BY DEF SQL_NTS
        <4> QED
          BY <4>1 DEF FromBuffer, SQL_NTS, SQL_NULL_DATA, SQL_DEFAULT_PARAM, SQL_DATA_AT_EXEC
      <3>4. indicator # << >> /\ indicator = length /\ length # << 0 >> =>
               FromBuffer(n, indicator, length, width) = length[1] \div width
        <4> SUFFICES ASSUME indicator # << >>, indicator = length, length # << 0 >>
                     PROVE  FromBuffer(n, indicator, length, width) = length[1] \div width
          OBVIOUS
        <4>1. length = << named * width >> /\ length[1] = named * width /\ named * width # 0
          BY <3>2
        <4>2. named * width \in Nat
          BY ConversionAssumption
        <4>3. length[1] > 0 /\ indicator[1] = length[1] /\ length # << >>
          BY <4>1, <4>2
        <4> QED
          BY <4>3 DEF FromBuffer, SQL_NTS, SQL_NULL_DATA, SQL_DEFAULT_PARAM, SQL_DATA_AT_EXEC
      <3> QED
        BY <3>2, <3>3, <3>4
    <2> QED
      BY <2>1, <2>2 DEF TextsInBuffers
  <1>3. TextsInBuffers /\ UNCHANGED call => TextsInBuffers'
    BY DEF TextsInBuffers
  <1> QED
    BY <1>1, <1>2, <1>3, PTL DEF ConversionSpec

-----------------------------------------------------------------------------
(* Dates and times.                                                         *)

\* What is left of a quotient and a remainder when the number is divided on.
LEMMA RestDivided ==
    ASSUME NEW n \in Int, NEW d \in Nat, d > 0, NEW e \in Nat, e > 0
    PROVE  /\ n % (d * e) \in Nat
           /\ (n % (d * e)) \div d = (n \div d) % e /\ (n % (d * e)) % d = n % d
  <1> DEFINE r == n % (d * e)
             q == (n \div d) % e
             s == n % d
  <1>1. n \div d \in Int /\ s \in Nat /\ s < d
    BY Divided
  <1>2. q \in Nat
    BY <1>1, Divided
  <1>3. r = d * q + s
    BY DividedTwice
  <1> HIDE DEF r, q, s
  <1>4. r \in Nat
    BY <1>1, <1>2, <1>3
  <1>5. r \div d = q /\ r % d = s
    BY <1>1, <1>2, <1>3, <1>4, DividedOnce
  <1> QED
    BY <1>4, <1>5 DEF r, q, s

\* The units of time.
LEMMA Units ==
    /\ Seconds \in Nat /\ Seconds > 0 /\ Minutes \in Nat /\ Minutes > 0 /\ Hours \in Nat /\ Hours > 0
    /\ MsDigits \in Nat /\ MsDigits > 0 /\ TickDigits \in Nat /\ MsDigits < TickDigits
    /\ MsPerSecond \in Nat /\ MsPerSecond > 0 /\ TicksPerMs \in Nat /\ TicksPerMs > 0
    /\ TicksPerSecond \in Nat /\ TicksPerSecond > 0 /\ SecondsPerDay \in Nat /\ SecondsPerDay > 0
    /\ TicksPerSecond = TicksPerMs * MsPerSecond
  <1>1. /\ Seconds \in Nat /\ Seconds > 0 /\ Minutes \in Nat /\ Minutes > 0 /\ Hours \in Nat /\ Hours > 0
        /\ MsDigits \in Nat /\ MsDigits > 0 /\ TickDigits \in Nat /\ MsDigits < TickDigits
    BY CalendarAssumption
  <1>2. TickDigits - MsDigits \in Nat /\ (TickDigits - MsDigits) + MsDigits = TickDigits
    BY <1>1
  <1>3. /\ MsPerSecond \in Nat /\ MsPerSecond > 0 /\ TicksPerMs \in Nat /\ TicksPerMs > 0
        /\ TicksPerSecond \in Nat /\ TicksPerSecond > 0
    <2>1. \A k \in Nat : Power(10, k) \in Nat /\ Power(10, k) > 0
      BY PowerPositive
    <2> QED
      BY <1>1, <1>2, <2>1 DEF MsPerSecond, TicksPerMs, TicksPerSecond, TenTo
  <1>4. TicksPerSecond = TicksPerMs * MsPerSecond
    <2>1. Power(10, (TickDigits - MsDigits) + MsDigits) = Power(10, TickDigits - MsDigits) * Power(10, MsDigits)
      BY <1>1, <1>2, PowerSum
    <2> QED
      BY <1>2, <2>1 DEF MsPerSecond, TicksPerMs, TicksPerSecond, TenTo
  <1>5. SecondsPerDay \in Nat /\ SecondsPerDay > 0
    <2>1. Hours * Minutes \in Nat /\ Hours * Minutes > 0
      BY <1>1, SMT
    <2>2. (Hours * Minutes) * Seconds \in Nat /\ (Hours * Minutes) * Seconds > 0
      BY <1>1, <2>1, SMT
    <2> QED
      BY <2>2 DEF SecondsPerDay
  <1> QED
    BY <1>1, <1>3, <1>4, <1>5

\* A count within its width is a number.
LEMMA InWidthTyped ==
    ASSUME NEW n \in Int
    PROVE  InWidth(n, TickBits) \in Int
  <1>1. TickBits \in Nat /\ TickBits - 1 \in Nat
    BY CalendarAssumption
  <1>2. Power(2, TickBits) \in Nat /\ Power(2, TickBits) > 0 /\ Power(2, TickBits - 1) \in Nat
    <2>1. \A k \in Nat : Power(2, k) \in Nat /\ Power(2, k) > 0
      BY PowerPositive
    <2> QED
      BY <1>1, <2>1
  <1>3. n + Power(2, TickBits - 1) \in Int
    BY <1>2
  <1>4. (n + Power(2, TickBits - 1)) % Power(2, TickBits) \in Nat
    BY <1>2, <1>3, Divided
  <1> QED
    BY <1>2, <1>4 DEF InWidth

\* The time of day of a second of the day, and back.
ClockAt(s) == << s \div (Seconds * Minutes), (s \div Seconds) % Minutes, s % Seconds >>

\* The second of the day of a time of day is that second.
LEMMA ClockBack ==
    ASSUME NEW s \in Nat
    PROVE  SecondOf(ClockAt(s)) = s
  <1> DEFINE a == s \div (Seconds * Minutes)
             q == s \div Seconds
             b == q % Minutes
             c == s % Seconds
  <1>1. Seconds \in Nat /\ Seconds > 0 /\ Minutes \in Nat /\ Minutes > 0
    BY Units
  <1>2. q \in Int /\ c \in Nat /\ s = Seconds * q + c
    BY <1>1, Divided
  <1>3. a = q \div Minutes
    BY <1>1, DividedTwice
  <1> HIDE DEF q, a
  <1>4. a \in Int /\ b \in Nat /\ q = Minutes * a + b
    BY <1>1, <1>2, <1>3, Divided
  <1> HIDE DEF b, c
  <1>5. (a * Minutes + b) * Seconds + c = s
    BY <1>1, <1>2, <1>4, SMT
  <1>6. ClockAt(s) = << a, b, c >>
    BY DEF ClockAt, a, b, c, q
  <1> QED
    BY <1>5, <1>6 DEF SecondOf

\* A time of day consists of numbers.
LEMMA ClockTyped ==
    ASSUME NEW s \in Nat
    PROVE  ClockAt(s)[1] \in Int /\ ClockAt(s)[2] \in Int /\ ClockAt(s)[3] \in Nat
  <1>1. /\ Seconds \in Nat /\ Seconds > 0 /\ Minutes \in Nat /\ Minutes > 0
        /\ Seconds * Minutes \in Nat /\ Seconds * Minutes > 0
    BY Units, SMT
  <1>2. s \div (Seconds * Minutes) \in Int
    BY <1>1, Divided
  <1>3. s \div Seconds \in Int /\ s % Seconds \in Nat
    BY <1>1, Divided
  <1>4. (s \div Seconds) % Minutes \in Nat
    BY <1>1, <1>3, Divided
  <1> QED
    BY <1>2, <1>3, <1>4 DEF ClockAt

\* The first three of four, and of three.
LEMMA FirstThree ==
    ASSUME NEW a, NEW b, NEW c, NEW d
    PROVE  SubSeq(<< a, b, c, d >>, 1, 3) = << a, b, c >> /\ SubSeq(<< a, b, c >>, 1, 3) = << a, b, c >>
  <1> DEFINE s == << a, b, c, d >>
             t == << a, b, c >>
  <1>1. Len(s) = 4 /\ s[1] = a /\ s[2] = b /\ s[3] = c
    OBVIOUS
  <1>2. Len(t) = 3 /\ t[1] = a /\ t[2] = b /\ t[3] = c
    OBVIOUS
  <1>3. s \in Seq({a, b, c, d}) /\ t \in Seq({a, b, c, d})
    OBVIOUS
  <1> HIDE DEF s, t
  <1>4. SubSeq(s, 1, 3) = t
    BY <1>1, <1>2, <1>3
  <1>5. SubSeq(t, 1, 3) = t
    BY <1>2, <1>3
  <1> QED
    BY <1>4, <1>5 DEF s, t

\* The time of day of a count, and what is left of it.
LEMMA ClockShown ==
    ASSUME NEW n \in Nat, NEW per \in Nat, per > 0
    PROVE  SubSeq(HhMmSs(n, per), 1, 3) = ClockAt(n \div per) /\ HhMmSs(n, per)[4] = n % per
  <1> DEFINE s == n \div per
  <1>1. Magnitude(n) = n
    BY DEF Magnitude
  <1>2. HhMmSs(n, per) = << s \div (Seconds * Minutes), (s \div Seconds) % Minutes, s % Seconds, n % per >>
    BY <1>1 DEF HhMmSs
  <1> HIDE DEF s
  <1>3. SubSeq(HhMmSs(n, per), 1, 3) = << s \div (Seconds * Minutes), (s \div Seconds) % Minutes, s % Seconds >>
    BY <1>2, FirstThree
  <1> QED
    BY <1>2, <1>3 DEF ClockAt, s

\* The text of a date and time that is counted in ticks.
TextAt(ticks) ==
    LET day  == ticks \div (SecondsPerDay * TicksPerSecond)
        time == HhMmSs(ticks % (SecondsPerDay * TicksPerSecond), TicksPerSecond)
    IN  TimestampText(FromDays(day), time, SubSeq(Decimals(time[4], TickDigits), 1, MsDigits))

\* A number of milliseconds is shown as its ticks.
LEMMA TextIs ==
    ASSUME NEW ms
    PROVE  DateTimeString(ms) = TextAt(InWidth(ms * TicksPerMs, TickBits))
  BY Zenon DEF DateTimeString, TextAt

\* ... its date, its second of the day, and the milliseconds of it.
DateAt(ticks)   == FromDays(ticks \div (TicksPerSecond * SecondsPerDay))
SecondAt(ticks) == (ticks \div TicksPerSecond) % SecondsPerDay
MsAt(ticks)     == (ticks % TicksPerSecond) \div TicksPerMs

\* A text of a date and time says its parts.
LEMMA TextSays ==
    ASSUME NEW ticks \in Int
    PROVE  /\ ToTimestamp(TextAt(ticks)) = [ date |-> Normal(DateAt(ticks)), time |-> ClockAt(SecondAt(ticks)),
                                             fraction |-> MsAt(ticks) * TicksPerMs ]
           /\ ToDate(TextAt(ticks)) = [date |-> Normal(DateAt(ticks))]
           /\ SecondAt(ticks) \in Nat /\ SecondAt(ticks) < SecondsPerDay
           /\ ticks \div (TicksPerSecond * SecondsPerDay) \in Int
  <1> DEFINE r    == ticks % (SecondsPerDay * TicksPerSecond)
             time == HhMmSs(r, TicksPerSecond)
             D    == SubSeq(Decimals(time[4], TickDigits), 1, MsDigits)
             f    == ticks % TicksPerSecond
  <1>1. SecondsPerDay * TicksPerSecond = TicksPerSecond * SecondsPerDay
    BY Units, SMT
  <1>2. ticks \div (TicksPerSecond * SecondsPerDay) \in Int
    <2> DEFINE d == TicksPerSecond * SecondsPerDay
    <2>1. d \in Nat /\ d > 0
      BY Units, SMT
    <2> HIDE DEF d
    <2>2. ticks \div d \in Int
      BY <2>1, Divided
    <2> QED
      BY <2>2 DEF d
  <1>3. r \in Nat /\ r \div TicksPerSecond = SecondAt(ticks) /\ r % TicksPerSecond = f
    <2>1. ticks % (TicksPerSecond * SecondsPerDay) = r
      BY <1>1
    <2>2. /\ TicksPerSecond \in Nat /\ TicksPerSecond > 0 /\ SecondsPerDay \in Nat /\ SecondsPerDay > 0
      BY Units
    <2>3. /\ ticks % (TicksPerSecond * SecondsPerDay) \in Nat
          /\ (ticks % (TicksPerSecond * SecondsPerDay)) \div TicksPerSecond = (ticks \div TicksPerSecond) % SecondsPerDay
          /\ (ticks % (TicksPerSecond * SecondsPerDay)) % TicksPerSecond = ticks % TicksPerSecond
      BY <2>2, RestDivided, Zenon
    <2> HIDE DEF r
    <2> QED
      BY <2>1, <2>3 DEF SecondAt
  <1>4. SecondAt(ticks) \in Nat /\ SecondAt(ticks) < SecondsPerDay
    <2>1. ticks \div TicksPerSecond \in Int
      BY Units, Divided
    <2> QED
      BY <2>1, Units, Divided DEF SecondAt
  <1>5. f \in Nat /\ f < TenTo(TickDigits)
    BY Units, Divided DEF TicksPerSecond
  <1> HIDE DEF r
  <1>6. SubSeq(time, 1, 3) = ClockAt(SecondAt(ticks)) /\ time[4] = f
    BY <1>3, Units, ClockShown
  <1> HIDE DEF time, f
  <1>7. Len(D) = MsDigits
    BY <1>6, Units DEF Decimals
  <1>8. NumberOf(D) = f \div TenTo(TickDigits - MsDigits)
    <2>1. MsDigits \in 0 .. TickDigits /\ TickDigits \in Nat
      BY Units
    <2> QED
      BY <1>5, <1>6, <2>1, FirstDecimals
  <1> HIDE DEF D
  <1>9. D # << >>
    <2>1. Len(<< >>) = 0
      OBVIOUS
    <2> QED
      BY <1>7, <2>1, Units
  <1>10. TextAt(ticks) = TimestampText(DateAt(ticks), time, D)
    BY <1>1 DEF TextAt, DateAt, time, D, r
  <1> DEFINE c    == DateAt(ticks)
             text == TextAt(ticks)
  <1>11. /\ text.size = DateText(c).size + 9 + (1 + MsDigits)
         /\ text.date = c /\ text.time = ClockAt(SecondAt(ticks)) /\ text.decimals = D
    BY <1>6, <1>7, <1>9, <1>10 DEF TimestampText
  <1>12. DateText(c).size \in {10, 11}
    BY DEF DateText
  <1> HIDE DEF text, c
  <1>13. Dated(text) /\ text.size # 10
    BY <1>11, <1>12, Units DEF Dated
  <1>14. Fraction(D) = MsAt(ticks) * TicksPerMs
    BY <1>7, <1>8 DEF Fraction, MsAt, TicksPerMs, f
  <1>15. ToTimestamp(text) = [date |-> Normal(c), time |-> ClockAt(SecondAt(ticks)), fraction |-> MsAt(ticks) * TicksPerMs]
    BY <1>11, <1>13, <1>14 DEF ToTimestamp
  <1>16. ToDate(text) = [date |-> Normal(c)]
    BY <1>11, <1>13 DEF ToDate
  <1> QED
    BY <1>2, <1>4, <1>15, <1>16 DEF text, c

\* The ticks of a number of milliseconds.
LEMMA TicksOf ==
    ASSUME NEW ms \in Int
    PROVE  /\ ms * TicksPerMs \in Int
           /\ (ms * TicksPerMs) \div (TicksPerSecond * SecondsPerDay) = ms \div MsPerDay
           /\ SecondAt(ms * TicksPerMs) = (ms % MsPerDay) \div MsPerSecond
           /\ SecondAt(ms * TicksPerMs) = (ms \div MsPerSecond) % SecondsPerDay
           /\ MsAt(ms * TicksPerMs) = ms % MsPerSecond
           /\ ms \div MsPerDay \in Int /\ ms \div MsPerDay = (ms \div MsPerSecond) \div SecondsPerDay
  <1> DEFINE t == ms * TicksPerMs
             p == MsPerSecond * SecondsPerDay
  <1>1. t \in Int /\ p \in Nat /\ p > 0 /\ MsPerDay = p
    <2>1. t \in Int
      BY Units
    <2>2. p \in Nat /\ p > 0 /\ SecondsPerDay * MsPerSecond = p
      BY Units, SMT
    <2> QED
      BY <2>1, <2>2 DEF MsPerDay
  <1>2. TicksPerSecond * SecondsPerDay = TicksPerMs * p
    BY Units, SMT
  <1>3. t \div (TicksPerMs * p) = ms \div p
    <2> HIDE DEF p
    <2> QED
      BY <1>1, Units, DividedProduct
  <1>4. t \div TicksPerSecond = ms \div MsPerSecond /\ t % TicksPerSecond = TicksPerMs * (ms % MsPerSecond)
    <2>1. /\ TicksPerMs \in Nat /\ TicksPerMs > 0 /\ MsPerSecond \in Nat /\ MsPerSecond > 0
          /\ TicksPerSecond = TicksPerMs * MsPerSecond
      BY Units
    <2>2. /\ (ms * TicksPerMs) \div (TicksPerMs * MsPerSecond) = ms \div MsPerSecond
          /\ (ms * TicksPerMs) % (TicksPerMs * MsPerSecond) = TicksPerMs * (ms % MsPerSecond)
      BY <2>1, DividedProduct, Zenon
    <2> QED
      BY <2>1, <2>2
  <1>5. ms % MsPerSecond \in Nat /\ ms \div p \in Int
    <2> HIDE DEF p
    <2> QED
      BY <1>1, Units, Divided
  <1>6. SecondAt(t) = (ms \div MsPerSecond) % SecondsPerDay
    BY <1>4 DEF SecondAt
  <1>7. (ms % p) \div MsPerSecond = (ms \div MsPerSecond) % SecondsPerDay
    <2>1. /\ MsPerSecond \in Nat /\ MsPerSecond > 0 /\ SecondsPerDay \in Nat /\ SecondsPerDay > 0
      BY Units
    <2> QED
      BY <2>1, RestDivided, Zenon
  <1>8. MsAt(t) = ms % MsPerSecond
    <2> DEFINE u == ms % MsPerSecond
    <2>1. u \in Int /\ t % TicksPerSecond = u * TicksPerMs
      BY <1>4, <1>5, Units, SMT
    <2> HIDE DEF u
    <2>2. (u * TicksPerMs) \div TicksPerMs = u
      BY <2>1, Units, DividedProduct
    <2>3. MsAt(t) = u
      BY <2>1, <2>2 DEF MsAt
    <2> QED
      BY <2>3 DEF u
  <1>9. ms \div p = (ms \div MsPerSecond) \div SecondsPerDay
    BY Units, DividedTwice
  <1> HIDE DEF p, t
  <1>10. t \div (TicksPerSecond * SecondsPerDay) = ms \div MsPerDay
    BY <1>1, <1>2, <1>3
  <1> QED
    BY <1>1, <1>5, <1>6, <1>7, <1>8, <1>9, <1>10 DEF t

\* The dates that can be read are read as they are.
LEMMA Legible ==
    ASSUME NEW n \in LegibleDays
    PROVE  /\ n \in Int /\ Normal(FromDays(n)) = FromDays(n) /\ DateText(FromDays(n)).size = 10
  <1>1. /\ YearStart(1) \in Int /\ YearStart(10000) \in Int
        /\ n \in Int /\ YearStart(1) <= n /\ n < YearStart(10000)
    <2>1. YearStart(1) \in Int /\ YearStart(10000) \in Int
      BY YearStartGrows, SMT
    <2> QED
      BY <2>1 DEF LegibleDays
  <1>2. PICK y \in Int, m \in Int, d \in Int : FromDays(n) = << y, m, d >>
    BY <1>1, DateOfDay
  <1>3. IsDay(<< y, m, d >>, n)
    BY <1>1, <1>2, DateIsDay
  <1>4. /\ m \in {1, 2, 3, 4, 5, 6, 7, 8, 9, 10, 11, 12} /\ d \in 1 .. MonthLength(y, m)
        /\ n = YearStart(y) + DaysBefore(y, m) + d - 1
    BY <1>3 DEF IsDay, IsDate
  <1>5. /\ DaysBefore(y, m) \in Nat
        /\ IsLeap(y) => DaysBefore(y, m) + MonthLength(y, m) <= 366
        /\ ~IsLeap(y) => DaysBefore(y, m) + MonthLength(y, m) <= 365
        /\ MonthLength(y, m) \in Nat
    BY <1>4, SMTT(60) DEF DaysBefore, MonthLength
  <1>6. /\ YearStart(y) \in Int
        /\ IsLeap(y) => YearStart(y + 1) = YearStart(y) + 366
        /\ ~IsLeap(y) => YearStart(y + 1) = YearStart(y) + 365
    BY YearStartGrows
  <1>7. YearStart(y) <= n /\ n < YearStart(y + 1)
    BY <1>1, <1>4, <1>5, <1>6
  <1>8. ASSUME NEW i \in Int, NEW j \in Int, i <= j
        PROVE  YearStart(i) <= YearStart(j)
    <2>1. i - 1 \in Int /\ j - 1 \in Int /\ i - 1 <= j - 1
      BY <1>8
    <2>2. Before(i - 1) <= Before(j - 1) /\ Before(i - 1) \in Int /\ Before(j - 1) \in Int
      BY <2>1, YearsGrow, Eras
    <2>3. YearStart(i) = Before(i - 1) - 719162 /\ YearStart(j) = Before(j - 1) - 719162
      BY YearStartIs
    <2> QED
      BY <2>2, <2>3, SMT
  <1>9. y > 0
    <2>1. y + 1 <= 1 => YearStart(y + 1) <= YearStart(1)
      BY <1>8
    <2>2. YearStart(y + 1) \in Int
      BY <1>6
    <2> QED
      BY <1>1, <1>7, <2>1, <2>2
  <1>10. y < 10000
    <2>1. 10000 <= y => YearStart(10000) <= YearStart(y)
      BY <1>8, SMT
    <2> QED
      BY <1>1, <1>6, <1>7, <2>1, SMT
  <1>11. Normal(<< y, m, d >>) = << y, m, d >>
    BY <1>4, <1>5, <1>9 DEF Normal, YearRead
  <1>12. DateText(<< y, m, d >>).size = 10
    BY <1>9, <1>10, SMT DEF DateText
  <1> QED
    BY <1>1, <1>2, <1>11, <1>12

\* What TimesReadBack says of each call.
YearRight ==
    call.op = "year" =>
       /\ call.first = YearStart(call.year) /\ call.days[1] = << call.year, 1, 1 >>
       /\ \A i \in DOMAIN call.days \ {1} : call.days[i] = NextDay(call.days[i - 1])

DateRight ==
    call.op = "date" /\ call.days \in LegibleDays =>
       /\ IsDay(call.date.date, call.days) /\ call.back = call.date
       /\ call.timestamp = [date |-> call.date.date, time |-> Midnight, fraction |-> 0]

TimeRight ==
    call.op = "time" => SecondOf(call.time.time) = call.ms \div MsPerSecond /\ call.back = call.time

DateTimeRight ==
    call.op = "datetime" /\ Shown(call.ms) =>
       /\ IsTimestamp(call.timestamp, call.ms)
       /\ call.date = [date |-> call.timestamp.date]

TimestampRight ==
    call.op = "timestamp" /\ call.given.fraction = 0 /\ IsDate(call.given.date) /\ Shown(call.sent) =>
       /\ IsTimestamp(call.back, call.sent)
       /\ call.zone = 0 => call.back = call.given

\* Every day of a year, in order.
LEMMA YearComputed ==
    ASSUME NEW y \in Year,
           call' = [ op |-> "year", year |-> y, first |-> ToDays(<< y, 1, 1 >>),
                     days |-> [i \in 1 .. ToDays(<< y + 1, 1, 1 >>) - ToDays(<< y, 1, 1 >>) |->
                                 FromDays(ToDays(<< y, 1, 1 >>) + i - 1)] ]
    PROVE  YearRight'
  <1> DEFINE F == ToDays(<< y, 1, 1 >>)
             N == ToDays(<< y + 1, 1, 1 >>) - F
             D == [i \in 1 .. N |-> FromDays(F + i - 1)]
  <1>1. y \in Int /\ y + 1 \in Int
    BY ConversionAssumption
  <1>2. F = YearStart(y) /\ F \in Int
    BY <1>1, FirstOfYear, YearStartIs, YearStartGrows
  <1>3. N \in Nat /\ N > 0
    <2>1. ToDays(<< y + 1, 1, 1 >>) = YearStart(y + 1)
      BY <1>1, FirstOfYear, YearStartIs
    <2>2. YearStart(y + 1) = YearStart(y) + 365 \/ YearStart(y + 1) = YearStart(y) + 366
      BY <1>1, YearStartGrows
    <2> HIDE DEF F
    <2> QED
      BY <1>2, <2>1, <2>2
  <1>4. FromDays(F) = << y, 1, 1 >>
    <2>1. IsDate(<< y, 1, 1 >>)
      BY SMTT(60) DEF IsDate, MonthLength
    <2> QED
      BY <1>1, <2>1, DayOfDate
  <1>5. call'.op = "year" /\ call'.year = y /\ call'.first = F /\ call'.days = D
    OBVIOUS
  <1> HIDE DEF F, N
  <1>6. D[1] = << y, 1, 1 >>
    <2>1. D[1] = FromDays(F + 1 - 1)
      BY <1>3
    <2>2. F + 1 - 1 = F
      BY <1>2
    <2> QED
      BY <1>4, <2>1, <2>2
  <1>7. ASSUME NEW i \in DOMAIN D \ {1}
        PROVE  D[i] = NextDay(D[i - 1])
    <2>1. i \in 1 .. N /\ i - 1 \in 1 .. N /\ i \in Int
      BY <1>3
    <2>2. D[i] = FromDays(F + i - 1) /\ D[i - 1] = FromDays(F + (i - 1) - 1)
      BY <2>1
    <2> DEFINE n == F + (i - 1) - 1
    <2>3. n \in Int /\ n + 1 = F + i - 1
      <3>1. i \in Int /\ F \in Int
        BY <1>2, <2>1
      <3> HIDE DEF D
      <3> QED
        BY <3>1
    <2> HIDE DEF n, D
    <2>4. FromDays(n + 1) = NextDay(FromDays(n))
      BY <2>3, DateOfNext
    <2> QED
      BY <2>2, <2>3, <2>4 DEF n
  <1> HIDE DEF D
  <1> QED
    BY <1>2, <1>5, <1>6, <1>7 DEF YearRight

\* A date that can be read.
LEMMA DateReads ==
    ASSUME NEW n \in LegibleDays
    PROVE  /\ IsDay(FromDays(n), n)
           /\ ToDate(DateText(FromDays(n))) = [date |-> FromDays(n)]
           /\ ToTimestamp(DateText(FromDays(n))) = [date |-> FromDays(n), time |-> Midnight, fraction |-> 0]
  <1> DEFINE c == FromDays(n)
  <1>1. n \in Int /\ Normal(c) = c /\ DateText(c).size = 10
    BY Legible
  <1>2. IsDay(c, n)
    BY <1>1, DateIsDay
  <1> HIDE DEF c
  <1>3. DateText(c).date = c
    BY DEF DateText
  <1>4. Dated(DateText(c))
    BY <1>1 DEF Dated
  <1>5. ToDate(DateText(c)) = [date |-> c]
    BY <1>1, <1>3, <1>4 DEF ToDate
  <1>6. ToTimestamp(DateText(c)) = [date |-> c, time |-> Midnight, fraction |-> 0]
    BY <1>1, <1>3, <1>4 DEF ToTimestamp
  <1> QED
    BY <1>2, <1>5, <1>6 DEF c

\* A call for a date.
LEMMA DateIsRead ==
    ASSUME ReadDate
    PROVE  DateRight'
  <1>1. PICK n \in Day :
          call' = [ op |-> "date", days |-> n, date |-> ToDate(DateString(n)), timestamp |-> ToTimestamp(DateString(n)),
                    back |-> IF ToDate(DateString(n)) = Error THEN Error ELSE ToDate(FromDate(ToDate(DateString(n)))) ]
    BY DEF ReadDate
  <1>2. n \in Int
    BY ConversionAssumption
  <1>3. DateString(n) = DateText(FromDays(n))
    <2>1. ToDays(<< 1970, 1, 1 >>) = Before(1970 - 1) - 719162
      BY FirstOfYear, SMT
    <2>2. Before(1970 - 1) = 719162
      BY SMT DEF Before
    <2>3. ToDays(<< 1970, 1, 1 >>) + n = n
      BY <1>2, <2>1, <2>2, SMT
    <2> QED
      BY <2>3 DEF DateString
  <1>4. SUFFICES ASSUME n \in LegibleDays
                 PROVE  DateRight'
    BY <1>1, SMT DEF DateRight
  <1> DEFINE c == FromDays(n)
             text == DateString(n)
  <1>5. /\ IsDay(c, n) /\ ToDate(text) = [date |-> c]
        /\ ToTimestamp(text) = [date |-> c, time |-> Midnight, fraction |-> 0]
    BY <1>3, <1>4, DateReads
  <1>6. FromDate([date |-> c]) = text
    BY <1>3 DEF FromDate
  <1> HIDE DEF c, text
  <1>7. /\ call'.days = n /\ call'.date = [date |-> c]
        /\ call'.timestamp = [date |-> c, time |-> Midnight, fraction |-> 0]
        /\ call'.back = IF [date |-> c] = Error THEN Error ELSE [date |-> c]
    <2>1. /\ call'.days = n /\ call'.date = ToDate(text) /\ call'.timestamp = ToTimestamp(text)
          /\ call'.back = IF ToDate(text) = Error THEN Error ELSE ToDate(FromDate(ToDate(text)))
      BY <1>1 DEF text
    <2> QED
      BY <1>5, <1>6, <2>1
  <1>8. call'.back = call'.date
    BY <1>7
  <1>9. call'.date.date = c
    BY <1>7
  <1> QED
    BY <1>5, <1>7, <1>8, <1>9 DEF DateRight

\* A call for a time.
LEMMA TimeIsRead ==
    ASSUME ReadTime
    PROVE  TimeRight'
  <1>1. PICK ms \in Ms :
          /\ ms \in 0 .. SecondsPerDay * MsPerSecond - 1
          /\ call' = [ op |-> "time", ms |-> ms, time |-> ToTime(TimeString(ms)),
                       back |-> ToTime(FromTime(ToTime(TimeString(ms)))) ]
    BY DEF ReadTime
  <1>2. ms \in Nat
    BY <1>1, Units
  <1> DEFINE s == ms \div MsPerSecond
             c == ClockAt(s)
  <1>3. s \in Nat /\ SecondOf(c) = s
    <2>1. s \in Nat
      BY <1>2, Units, SMT
    <2> HIDE DEF s
    <2> QED
      BY <2>1, ClockBack
  <1>4. SubSeq(HhMmSs(ms, MsPerSecond), 1, 3) = c
    BY <1>2, Units, ClockShown
  <1>5. SubSeq(c, 1, 3) = c
    BY FirstThree DEF ClockAt
  <1> HIDE DEF s, c
  <1>6. TimeString(ms) = [size |-> 8, time |-> c]
    BY <1>4 DEF TimeString, TimeText
  <1>7. ToTime([size |-> 8, time |-> c]) = [time |-> c]
    <2>1. ~Dated([size |-> 8, time |-> c])
      BY Units DEF Dated
    <2> QED
      BY <2>1 DEF ToTime
  <1>8. FromTime([time |-> c]) = [size |-> 8, time |-> c]
    BY <1>5 DEF FromTime, TimeText
  <1>9. call'.ms = ms /\ call'.time = [time |-> c] /\ call'.back = [time |-> c]
    BY <1>1, <1>6, <1>7, <1>8
  <1> QED
    BY <1>3, <1>9 DEF TimeRight, s

\* A timestamp of ticks that are those of a number of milliseconds.
LEMMA ShownReads ==
    ASSUME NEW ms \in Int, Shown(ms)
    PROVE  /\ ToTimestamp(DateTimeString(ms)) =
                 [ date |-> FromDays(ms \div MsPerDay), time |-> ClockAt((ms \div MsPerSecond) % SecondsPerDay),
                   fraction |-> (ms % MsPerSecond) * TicksPerMs ]
           /\ IsTimestamp(ToTimestamp(DateTimeString(ms)), ms)
           /\ ToDate(DateTimeString(ms)) = [date |-> ToTimestamp(DateTimeString(ms)).date]
  <1> DEFINE t == ms * TicksPerMs
             n == ms \div MsPerDay
             s == (ms \div MsPerSecond) % SecondsPerDay
             f == (ms % MsPerSecond) * TicksPerMs
             ts == [date |-> FromDays(n), time |-> ClockAt(s), fraction |-> f]
  <1>1. DateTimeString(ms) = TextAt(t)
    BY TextIs DEF Shown
  <1>2. n \in LegibleDays
    BY DEF Shown
  <1>3. /\ t \in Int /\ DateAt(t) = FromDays(n) /\ SecondAt(t) = s /\ MsAt(t) * TicksPerMs = f
        /\ s = (ms % MsPerDay) \div MsPerSecond
    <2>1. /\ t \in Int /\ t \div (TicksPerSecond * SecondsPerDay) = n
          /\ SecondAt(t) = s /\ MsAt(t) = ms % MsPerSecond /\ SecondAt(t) = (ms % MsPerDay) \div MsPerSecond
      BY TicksOf
    <2> HIDE DEF t, n, s
    <2> QED
      BY <2>1 DEF DateAt
  <1>4. n \in Int /\ Normal(FromDays(n)) = FromDays(n) /\ IsDay(FromDays(n), n)
    <2> HIDE DEF n
    <2> QED
      BY <1>2, Legible, DateIsDay
  <1> HIDE DEF t, n, s, f
  <1>5. /\ ToTimestamp(TextAt(t)) = [date |-> Normal(DateAt(t)), time |-> ClockAt(SecondAt(t)), fraction |-> MsAt(t) * TicksPerMs]
        /\ ToDate(TextAt(t)) = [date |-> Normal(DateAt(t))]
        /\ SecondAt(t) \in Nat
    BY <1>3, TextSays
  <1>6. ToTimestamp(TextAt(t)) = ts /\ ToDate(TextAt(t)) = [date |-> FromDays(n)] /\ s \in Nat
    BY <1>3, <1>4, <1>5
  <1>7. SecondOf(ClockAt(s)) = s
    BY <1>6, ClockBack
  <1>8. ts.date = FromDays(n) /\ ts.time = ClockAt(s) /\ ts.fraction = f
    OBVIOUS
  <1> HIDE DEF ts
  <1>9. IsTimestamp(ts, ms)
    BY <1>3, <1>4, <1>7, <1>8 DEF IsTimestamp, n, f
  <1> QED
    BY <1>1, <1>6, <1>8, <1>9 DEF ts, n, s, f

\* A call for a date and time.
LEMMA DateTimeIsRead ==
    ASSUME ReadDateTime
    PROVE  DateTimeRight'
  <1>1. PICK ms \in Ms :
          call' = [ op |-> "datetime", ms |-> ms, timestamp |-> ToTimestamp(DateTimeString(ms)),
                    date |-> ToDate(DateTimeString(ms)), time |-> ToTime(DateTimeString(ms)) ]
    BY DEF ReadDateTime
  <1>2. ms \in Int
    BY ConversionAssumption
  <1>3. /\ call'.ms = ms /\ call'.timestamp = ToTimestamp(DateTimeString(ms))
        /\ call'.date = ToDate(DateTimeString(ms))
    BY <1>1
  <1>4. Shown(ms) => /\ IsTimestamp(ToTimestamp(DateTimeString(ms)), ms)
                     /\ ToDate(DateTimeString(ms)) = [date |-> ToTimestamp(DateTimeString(ms)).date]
    BY <1>2, ShownReads
  <1> QED
    BY <1>3, <1>4 DEF DateTimeRight

\* A call with a timestamp as a parameter.
LEMMA TimestampIsRead ==
    ASSUME WriteTimestamp
    PROVE  TimestampRight'
  <1>1. PICK ms \in Ms, zone \in Zone, fraction \in {0, 1} :
          LET given == [ToTimestamp(DateTimeString(ms)) EXCEPT !.fraction = fraction]
              sent  == Milliseconds(FromTimestamp(given), zone)
          IN  call' = [ op |-> "timestamp", given |-> given, zone |-> zone, sent |-> sent,
                        back |-> ToTimestamp(DateTimeString(sent)) ]
    BY Zenon DEF WriteTimestamp
  <1> DEFINE ticks == InWidth(ms * TicksPerMs, TickBits)
             c     == Normal(DateAt(ticks))
             s     == SecondAt(ticks)
             ts    == [date |-> c, time |-> ClockAt(s), fraction |-> fraction]
             given == [ToTimestamp(DateTimeString(ms)) EXCEPT !.fraction = fraction]
             sent  == Milliseconds(FromTimestamp(given), zone)
  <1>2. ticks \in Int /\ zone \in Int
    <2>1. ms * TicksPerMs \in Int
      <3>1. ms \in Int
        BY ConversionAssumption
      <3> QED
        BY <3>1, Units
    <2> QED
      BY <2>1, InWidthTyped, ConversionAssumption
  <1>3. DateTimeString(ms) = TextAt(ticks)
    BY TextIs
  <1>4. ToTimestamp(TextAt(ticks)) = [date |-> c, time |-> ClockAt(s), fraction |-> MsAt(ticks) * TicksPerMs]
    <2> HIDE DEF ticks
    <2> QED
      BY <1>2, TextSays
  <1>5. s \in Nat /\ s < SecondsPerDay /\ ticks \div (TicksPerSecond * SecondsPerDay) \in Int
    <2> HIDE DEF ticks
    <2> QED
      BY <1>2, TextSays
  <1>6. \E y, m, d \in Int : c = << y, m, d >>
    <2>1. \E y, m, d \in Int : DateAt(ticks) = << y, m, d >>
      <3> HIDE DEF ticks
      <3> QED
        BY <1>5, DateOfDay DEF DateAt
    <2>2. PICK y \in Int, m \in Int, d \in Int : DateAt(ticks) = << y, m, d >>
      BY <2>1
    <2> DEFINE k == IF m = 0 THEN 1 ELSE m
               e == IF d = 0 THEN 1 ELSE d
    <2>3. c = << YearRead(y), k, e >> /\ k \in Int /\ e \in Int
      <3> HIDE DEF ticks
      <3> QED
        BY <2>2 DEF Normal
    <2>4. YearRead(y) \in Int
      BY DEF YearRead, Magnitude
    <2> HIDE DEF k, e, c
    <2> QED
      BY <2>3, <2>4
  <1> HIDE DEF ticks, c, s
  <1>7. given = ts
    BY <1>3, <1>4
  <1>8. /\ call'.given = ts /\ call'.zone = zone /\ call'.sent = sent
        /\ call'.back = ToTimestamp(DateTimeString(sent))
    BY <1>1, <1>7, Zenon
  <1> HIDE DEF given
  <1> SUFFICES ASSUME fraction = 0, IsDate(c), Shown(sent)
               PROVE  /\ IsTimestamp(call'.back, call'.sent)
                      /\ call'.zone = 0 => call'.back = call'.given
    <2>1. ts.fraction = fraction /\ ts.date = c
      OBVIOUS
    <2> HIDE DEF ts, sent
    <2> QED
      BY <1>8, <2>1 DEF TimestampRight
  <1> DEFINE n == ToDays(c)
             w == n * SecondsPerDay + s
  <1>9. n \in Int /\ FromDays(n) = c
    BY <1>6, DayOfDate
  <1>10. FromTimestamp(ts) = [size |-> DateText(c).size + 9 + 0, date |-> c, time |-> ClockAt(s), decimals |-> << >>]
    <2>1. SubSeq(ClockAt(s), 1, 3) = ClockAt(s)
      BY FirstThree DEF ClockAt
    <2>2. ts.fraction = 0 /\ ts.date = c /\ ts.time = ClockAt(s)
      OBVIOUS
    <2>3. 0 \notin 1 .. TicksPerSecond - 1
      BY Units
    <2> HIDE DEF ts
    <2> QED
      BY <2>1, <2>2, <2>3 DEF FromTimestamp, TimestampText
  <1>11. sent = (w - zone) * MsPerSecond
    <2>1. sent = MkTime(c, ClockAt(s), zone) * MsPerSecond
      BY <1>7, <1>10 DEF Milliseconds
    <2>2. SecondOf(ClockAt(s)) = s
      BY <1>5, ClockBack
    <2>3. MkTime(c, ClockAt(s), zone) = n * SecondsPerDay + SecondOf(ClockAt(s)) - zone
      <3> DEFINE t == ClockAt(s)
                 h == (t[1] * Minutes + t[2]) * Seconds
      <3>1. MkTime(c, t, zone) = n * SecondsPerDay + h + t[3] - zone /\ SecondOf(t) = h + t[3]
        BY DEF MkTime, SecondOf
      <3>2. t[3] \in Nat /\ h \in Int
        <4>1. t[1] \in Int /\ t[2] \in Int /\ t[3] \in Nat
          BY <1>5, ClockTyped
        <4> HIDE DEF t
        <4> QED
          BY <4>1, Units, SMT
      <3>3. n * SecondsPerDay \in Int
        BY <1>9, Units, SMT
      <3> HIDE DEF h, t, n
      <3> QED
        BY <1>2, <3>1, <3>2, <3>3 DEF t
    <2>4. MkTime(c, ClockAt(s), zone) = w - zone
      <3>1. n * SecondsPerDay \in Int
        BY <1>9, Units, SMT
      <3> HIDE DEF n
      <3> QED
        BY <1>2, <1>5, <2>2, <2>3, <3>1
    <2> HIDE DEF sent, w
    <2> QED
      BY <2>1, <2>4
  <1>12. n * SecondsPerDay \in Int /\ w \in Int /\ w - zone \in Int /\ sent \in Int
    <2>1. n * SecondsPerDay \in Int
      BY <1>9, Units, SMT
    <2> DEFINE p == n * SecondsPerDay
    <2>2. w \in Int
      <3> HIDE DEF p
      <3> QED
        BY <1>5, <2>1 DEF p
    <2> HIDE DEF w
    <2>3. w - zone \in Int
      BY <1>2, <2>2
    <2>4. (w - zone) * MsPerSecond \in Int
      BY <2>3, Units, SMT
    <2> QED
      BY <1>11, <2>1, <2>2, <2>3, <2>4
  <1> HIDE DEF ts, sent, w, n
  <1>13. /\ ToTimestamp(DateTimeString(sent)) =
                [ date |-> FromDays(sent \div MsPerDay), time |-> ClockAt((sent \div MsPerSecond) % SecondsPerDay),
                  fraction |-> (sent % MsPerSecond) * TicksPerMs ]
         /\ IsTimestamp(ToTimestamp(DateTimeString(sent)), sent)
    BY <1>12, ShownReads
  <1>14. ASSUME zone = 0
         PROVE  call'.back = call'.given
    <2>1. sent = w * MsPerSecond
      BY <1>11, <1>12, <1>14
    <2>2. sent \div MsPerSecond = w /\ sent % MsPerSecond = 0
      BY <1>12, <2>1, Units, DividedProduct
    <2>3. w \div SecondsPerDay = n /\ w % SecondsPerDay = s
      <3>1. w = SecondsPerDay * n + s
        <4>1. SecondsPerDay * n = n * SecondsPerDay
          BY <1>9, Units, SMT
        <4> QED
          BY <4>1 DEF w
      <3> QED
        BY <1>5, <1>9, <1>12, <3>1, Units, DividedOnce
    <2>4. sent \div MsPerDay = n
      BY <1>12, <2>2, <2>3, TicksOf
    <2>5. ToTimestamp(DateTimeString(sent)) = [date |-> c, time |-> ClockAt(s), fraction |-> 0 * TicksPerMs]
      BY <1>9, <1>13, <2>2, <2>3, <2>4
    <2>6. 0 * TicksPerMs = 0
      BY Units
    <2> QED
      BY <1>8, <2>5, <2>6 DEF ts
  <1> QED
    BY <1>8, <1>13, <1>14

\* TimesReadBack: dates and times arrive as the calendar has them.
THEOREM TimesAreTrue == ConversionSpec => []TimesReadBack
  <1>1. NotCalled => TimesReadBack
    BY DEF NotCalled, Start, TimesReadBack
  <1>2. ASSUME ConversionCall
        PROVE  TimesReadBack'
    <2>1. YearRight'
      <3>1. CASE ComputeYear
        <4>1. PICK y \in Year :
                 call' = [ op |-> "year", year |-> y, first |-> ToDays(<< y, 1, 1 >>),
                           days |-> [i \in 1 .. ToDays(<< y + 1, 1, 1 >>) - ToDays(<< y, 1, 1 >>) |->
                                       FromDays(ToDays(<< y, 1, 1 >>) + i - 1)] ]
          BY <3>1, Zenon DEF ComputeYear
        <4> QED
          BY <4>1, YearComputed
      <3>2. CASE call'.op # "year"
        BY <3>2 DEF YearRight
      <3> QED
        BY <1>2, <3>1, <3>2, Converted
    <2>2. DateRight'
      <3>1. CASE call'.op # "date"
        BY <3>1 DEF DateRight
      <3> QED
        BY <1>2, <3>1, Converted, DateIsRead
    <2>3. TimeRight'
      <3>1. CASE call'.op # "time"
        BY <3>1 DEF TimeRight
      <3> QED
        BY <1>2, <3>1, Converted, TimeIsRead
    <2>4. DateTimeRight'
      <3>1. CASE call'.op # "datetime"
        BY <3>1 DEF DateTimeRight
      <3> QED
        BY <1>2, <3>1, Converted, DateTimeIsRead
    <2>5. TimestampRight'
      <3>1. CASE call'.op # "timestamp"
        BY <3>1 DEF TimestampRight
      <3> QED
        BY <1>2, <3>1, Converted, TimestampIsRead
    <2> QED
      BY <2>1, <2>2, <2>3, <2>4, <2>5
      DEF TimesReadBack, YearRight, DateRight, TimeRight, DateTimeRight, TimestampRight
  <1>3. TimesReadBack /\ UNCHANGED call => TimesReadBack'
    BY DEF TimesReadBack
  <1> QED
    BY <1>1, <1>2, <1>3, PTL DEF ConversionSpec

-----------------------------------------------------------------------------
(* What the driver says of itself.                                          *)

\* Powers of two are above zero.
LEMMA PowerOfTwo == \A k \in Nat : Power(2, k) \in Nat /\ Power(2, k) > 0
  BY PowerPositive

\* A value of as many bits as the variable is all that is in it afterwards.
LEMMA VariableFilled ==
    ASSUME NEW before \in Nat, NEW bits \in Nat, NEW v \in Nat, v < Power(2, bits)
    PROVE  Filled(before % Power(2, bits), v, bits) = v
  <1> DEFINE P == Power(2, bits)
             m == before % P
  <1>1. P \in Nat /\ P > 0
    BY PowerOfTwo
  <1>2. m \in Nat /\ m < P /\ v < P
    BY <1>1, Divided
  <1>3. Filled(m, v, bits) = (m \div P) * P + (v % P)
    BY DEF Filled
  <1> HIDE DEF m, P
  <1>4. m = P * 0 + m /\ v = P * 0 + v
    BY <1>1, <1>2
  <1>5. m \div P = 0 /\ v % P = v
    BY <1>1, <1>2, <1>4, DividedOnce
  <1>6. (m \div P) * P + (v % P) = v
    BY <1>1, <1>2, <1>5
  <1> QED
    BY <1>3, <1>6 DEF m, P

\* A shorter value in a variable that was zero.
LEMMA VariableWasZero ==
    ASSUME NEW long \in Nat, NEW bits \in Nat, NEW v \in Nat, v < Power(2, bits)
    PROVE  Filled(0 % Power(2, long), v, bits) = v
  <1> DEFINE P == Power(2, bits)
             Q == Power(2, long)
  <1>1. P \in Nat /\ P > 0 /\ Q \in Nat /\ Q > 0
    BY PowerOfTwo
  <1>2. 0 = Q * 0 + 0 /\ 0 = P * 0 + 0 /\ v = P * 0 + v
    BY <1>1
  <1> HIDE DEF P, Q
  <1>3. 0 % Q = 0 /\ 0 \div P = 0 /\ v % P = v
    BY <1>1, <1>2, DividedOnce DEF P
  <1>4. Filled(0, v, bits) = 0 * P + v
    BY <1>3 DEF Filled, P
  <1> QED
    BY <1>1, <1>3, <1>4 DEF Q

\* Where an attribute is kept.
PlaceOf(a, shared) == IF a[1] = "statement" /\ a[2] \in DOMAIN InDescriptor THEN DescriptorPlace(a[2], shared) ELSE a

\* The attributes of an object, one by one.
LEMMA AttributeIs ==
    ASSUME NEW a \in Attribute
    PROVE  /\ a = << a[1], a[2] >>
           /\ \/ a[1] = "environment" /\ a[2] \in AttributesOf.environment
              \/ a[1] = "connection" /\ a[2] \in AttributesOf.connection
              \/ a[1] = "statement" /\ a[2] \in AttributesOf.statement
  BY DEF Attribute, AttributesOf

\* Those that are kept.
LEMMA KeptIs ==
    ASSUME NEW a \in Attribute, a \notin NotKept
    PROVE  \/ a = <<"environment", "ODBC_VERSION">>
           \/ a = <<"connection", "METADATA_ID">>
           \/ a = <<"statement", "QUERY_TIMEOUT">>
           \/ a[1] = "statement" /\ a[2] \in DOMAIN InDescriptor /\ a = << "statement", a[2] >>
           \/ a = <<"statement", "METADATA_ID">>
           \/ a = <<"statement", "NOSCAN">>
  BY AttributeIs DEF NotKept, AttributesOf, Ignored, IntoLoginTimeout, IntoQueryTimeout

\* Attributes of descriptors are in no other object.
LEMMA DescriptorsApart ==
    ASSUME NEW d \in DOMAIN InDescriptor, NEW shared \in BOOLEAN
    PROVE  DescriptorPlace(d, shared)[1] \notin {"environment", "connection", "statement"}
  BY DEF InDescriptor, DescriptorPlace, EffectiveDescriptor

\* Two that are in one place are one attribute, or in a shared descriptor.
LEMMA OneDescriptorPlace ==
    ASSUME NEW d \in DOMAIN InDescriptor, NEW e \in DOMAIN InDescriptor, NEW shared \in BOOLEAN,
           DescriptorPlace(d, shared) = DescriptorPlace(e, shared)
    PROVE  d = e \/ (shared /\ InDescriptor[d][2] = InDescriptor[e][2])
  BY DEF InDescriptor, DescriptorPlace, EffectiveDescriptor

\* Setting an attribute stores one value at most; where that is.
LEMMA SetStores ==
    ASSUME NEW values, NEW b \in Attribute, NEW w, NEW shared \in BOOLEAN
    PROVE  \/ Set(values, b, w, shared).values = values
           \/ /\ Set(values, b, w, shared).result = "success"
              /\ \/ /\ b[1] = "statement" /\ b[2] \in IntoQueryTimeout
                    /\ Set(values, b, w, shared).values = Store(values, <<"statement", "QUERY_TIMEOUT">>, w % Power(2, Short))
                 \/ /\ b[1] = "connection" /\ b[2] \in IntoLoginTimeout
                    /\ Set(values, b, w, shared).values = Store(values, <<"connection", "LOGIN_TIMEOUT">>, w % Power(2, Short))
                 \/ /\ PlaceOf(b, shared) # <<"statement", "QUERY_TIMEOUT">>
                    /\ PlaceOf(b, shared) # <<"connection", "LOGIN_TIMEOUT">>
                    /\ Set(values, b, w, shared).values = Store(values, PlaceOf(b, shared), w)
  <1>1. CASE b[1] = "environment"
    <2>1. Set(values, b, w, shared) = SetEnvAttr(values, b[2], w)
      BY <1>1 DEF Set
    <2>2. b[2] \notin Ignored.environment => PlaceOf(b, shared) = <<"environment", "ODBC_VERSION">>
      BY <1>1, AttributeIs DEF AttributesOf, PlaceOf
    <2> QED
      BY <2>1, <2>2 DEF SetEnvAttr, Answer
  <1>2. CASE b[1] = "connection"
    <2>1. Set(values, b, w, shared) = SetConnectAttr(values, b[2], w)
      BY <1>2 DEF Set
    <2>2. b[2] = "METADATA_ID" => PlaceOf(b, shared) = <<"connection", "METADATA_ID">>
      BY <1>2, AttributeIs DEF PlaceOf
    <2> QED
      BY <1>2, <2>1, <2>2 DEF SetConnectAttr, Answer, IntoLoginTimeout
  <1>3. CASE b[1] = "statement"
    <2>1. Set(values, b, w, shared) = SetStmtAttr(values, b[2], w, shared)
      BY <1>3 DEF Set
    <2>2. b[2] \in {"METADATA_ID", "NOSCAN"} => PlaceOf(b, shared) = << "statement", b[2] >>
      BY <1>3, AttributeIs DEF PlaceOf, InDescriptor
    <2>3. b[2] \in DOMAIN InDescriptor =>
             /\ PlaceOf(b, shared) = DescriptorPlace(b[2], shared)
             /\ DescriptorPlace(b[2], shared) # <<"statement", "QUERY_TIMEOUT">>
             /\ DescriptorPlace(b[2], shared) # <<"connection", "LOGIN_TIMEOUT">>
      <3>1. ASSUME NEW p, p[1] \notin {"environment", "connection", "statement"}
            PROVE  p # <<"statement", "QUERY_TIMEOUT">> /\ p # <<"connection", "LOGIN_TIMEOUT">>
        BY <3>1
      <3> QED
        BY <1>3, <3>1, DescriptorsApart DEF PlaceOf
    <2>4. CASE b[2] \in IntoQueryTimeout
      <3>1. SetStmtAttr(values, b[2], w, shared) = Answer("success", Store(values, <<"statement", "QUERY_TIMEOUT">>, w % Power(2, Short)))
        BY <2>4 DEF SetStmtAttr, IntoQueryTimeout, InDescriptor
      <3> QED
        BY <1>3, <2>1, <2>4, <3>1 DEF Answer
    <2>5. CASE b[2] \notin IntoQueryTimeout /\ b[2] \in DOMAIN InDescriptor
      <3>1. SetStmtAttr(values, b[2], w, shared) = Answer("success", Store(values, DescriptorPlace(b[2], shared), w))
        BY <2>5 DEF SetStmtAttr, InDescriptor
      <3> QED
        <4>1. /\ Set(values, b, w, shared).result = "success"
              /\ Set(values, b, w, shared).values = Store(values, PlaceOf(b, shared), w)
          BY <2>1, <2>3, <2>5, <3>1 DEF Answer
        <4> QED
          BY <2>3, <2>5, <4>1
    <2>6. CASE b[2] \notin IntoQueryTimeout /\ b[2] \in {"METADATA_ID", "NOSCAN"}
      <3>1. b[2] \notin DOMAIN InDescriptor
        BY <2>6 DEF InDescriptor
      <3> QED
        BY <1>3, <2>1, <2>2, <2>6, <3>1 DEF SetStmtAttr, Answer
    <2>7. CASE b[2] \notin IntoQueryTimeout \cup DOMAIN InDescriptor \cup {"METADATA_ID", "NOSCAN"}
      BY <1>3, <2>1, <2>7 DEF SetStmtAttr, Answer
    <2> QED
      BY <2>4, <2>5, <2>6, <2>7
  <1> QED
    BY <1>1, <1>2, <1>3, AttributeIs

\* An attribute that is kept, set with success, is where it is read.
LEMMA SetKeeps ==
    ASSUME NEW values, NEW a \in Attribute, a \notin NotKept, NEW v, NEW shared \in BOOLEAN,
           Set(values, a, v, shared).result = "success"
    PROVE  Set(values, a, v, shared).values =
              Store(values, PlaceOf(a, shared), IF a = <<"statement", "QUERY_TIMEOUT">> THEN v % Power(2, Short) ELSE v)
  <1>1. CASE a = <<"environment", "ODBC_VERSION">>
    BY <1>1 DEF Set, SetEnvAttr, Answer, PlaceOf, Ignored
  <1>2. CASE a = <<"connection", "METADATA_ID">>
    BY <1>2 DEF Set, SetConnectAttr, Answer, PlaceOf, IntoLoginTimeout
  <1>3. CASE a = <<"statement", "QUERY_TIMEOUT">>
    BY <1>3 DEF Set, SetStmtAttr, Answer, PlaceOf, IntoQueryTimeout, InDescriptor
  <1>4. CASE a[1] = "statement" /\ a[2] \in DOMAIN InDescriptor /\ a = << "statement", a[2] >>
    <2>1. PlaceOf(a, shared) = DescriptorPlace(a[2], shared) /\ a[2] \notin IntoQueryTimeout
      BY <1>4 DEF PlaceOf, InDescriptor, IntoQueryTimeout
    <2>2. Set(values, a, v, shared) = SetStmtAttr(values, a[2], v, shared)
      BY <1>4 DEF Set
    <2>3. SetStmtAttr(values, a[2], v, shared) = Answer("success", Store(values, DescriptorPlace(a[2], shared), v))
      <3>1. a[2] \notin {"METADATA_ID", "NOSCAN"}
        BY <1>4 DEF InDescriptor
      <3> QED
        BY <1>4, <2>1, <3>1 DEF SetStmtAttr
    <2>4. a # <<"statement", "QUERY_TIMEOUT">>
      BY <1>4, <2>1 DEF IntoQueryTimeout
    <2> QED
      BY <2>1, <2>2, <2>3, <2>4 DEF Answer
  <1>5. CASE a \in {<<"statement", "METADATA_ID">>, <<"statement", "NOSCAN">>}
    BY <1>5 DEF Set, SetStmtAttr, Answer, PlaceOf, IntoQueryTimeout, InDescriptor
  <1> QED
    BY <1>1, <1>2, <1>3, <1>4, <1>5, KeptIs

\* Two attributes of which none is set with the other.
Apart(a, b, shared) ==
    /\ a # b
    /\ ~(a[1] = "statement" /\ b[1] = "statement" /\ a[2] \in IntoQueryTimeout /\ b[2] \in IntoQueryTimeout)
    /\ ~(/\ shared /\ {a, b} \subseteq {"statement"} \X DOMAIN InDescriptor
         /\ InDescriptor[a[2]][2] = InDescriptor[b[2]][2])

\* What does not run on into an attribute that is kept leaves it as it is.
LEMMA SetElsewhere ==
    ASSUME NEW values, NEW a \in Attribute, a \notin NotKept, NEW b \in Attribute, NEW w, NEW shared \in BOOLEAN,
           PlaceOf(a, shared) \in DOMAIN values,
           Apart(a, b, shared)
    PROVE  LET after == Set(values, b, w, shared).values
           IN  PlaceOf(a, shared) \in DOMAIN after /\ after[PlaceOf(a, shared)] = values[PlaceOf(a, shared)]
  <1>1. ASSUME NEW q, NEW x, q # PlaceOf(a, shared)
        PROVE  /\ PlaceOf(a, shared) \in DOMAIN Store(values, q, x)
               /\ Store(values, q, x)[PlaceOf(a, shared)] = values[PlaceOf(a, shared)]
    BY <1>1 DEF Store
  <1>2. b[1] = "statement" /\ b[2] \in IntoQueryTimeout => PlaceOf(a, shared) # <<"statement", "QUERY_TIMEOUT">>
    <2>1. SUFFICES ASSUME b[1] = "statement", b[2] \in IntoQueryTimeout, PlaceOf(a, shared) = <<"statement", "QUERY_TIMEOUT">>
                   PROVE  FALSE
      OBVIOUS
    <2>2. ASSUME a[1] = "statement", a[2] \in DOMAIN InDescriptor
          PROVE  FALSE
      BY <2>1, <2>2, DescriptorsApart DEF PlaceOf
    <2>3. a = <<"statement", "QUERY_TIMEOUT">>
      BY <2>1, <2>2 DEF PlaceOf
    <2>4. a[1] = "statement" /\ a[2] = "QUERY_TIMEOUT"
      BY <2>3
    <2> QED
      BY <2>1, <2>4 DEF Apart, IntoQueryTimeout
  <1>3. PlaceOf(a, shared) # <<"connection", "LOGIN_TIMEOUT">>
    <2>1. SUFFICES ASSUME PlaceOf(a, shared) = <<"connection", "LOGIN_TIMEOUT">>
                   PROVE  FALSE
      OBVIOUS
    <2>2. ASSUME a[1] = "statement", a[2] \in DOMAIN InDescriptor
          PROVE  FALSE
      BY <2>1, <2>2, DescriptorsApart DEF PlaceOf
    <2>3. a = <<"connection", "LOGIN_TIMEOUT">>
      BY <2>1, <2>2 DEF PlaceOf
    <2> QED
      BY <2>3 DEF NotKept, IntoLoginTimeout
  <1>4. PlaceOf(b, shared) # PlaceOf(a, shared)
    <2>1. SUFFICES ASSUME PlaceOf(b, shared) = PlaceOf(a, shared)
                   PROVE  FALSE
      OBVIOUS
    <2>2. a \in {"statement"} \X DOMAIN InDescriptor <=> a[1] = "statement" /\ a[2] \in DOMAIN InDescriptor
      BY AttributeIs
    <2>3. b \in {"statement"} \X DOMAIN InDescriptor <=> b[1] = "statement" /\ b[2] \in DOMAIN InDescriptor
      BY AttributeIs
    <2>4. a[1] \in {"environment", "connection", "statement"} /\ b[1] \in {"environment", "connection", "statement"}
      BY AttributeIs
    <2>5. CASE a \in {"statement"} \X DOMAIN InDescriptor /\ b \in {"statement"} \X DOMAIN InDescriptor
      <3>1. DescriptorPlace(a[2], shared) = DescriptorPlace(b[2], shared)
        BY <2>1, <2>2, <2>3, <2>5 DEF PlaceOf
      <3>2. a[2] = b[2] \/ (shared /\ InDescriptor[a[2]][2] = InDescriptor[b[2]][2])
        BY <2>2, <2>3, <2>5, <3>1, OneDescriptorPlace
      <3>3. a = << "statement", a[2] >> /\ b = << "statement", b[2] >>
        BY <2>2, <2>3, <2>5, AttributeIs
      <3> QED
        BY <2>5, <3>2, <3>3 DEF Apart
    <2>6. CASE a \in {"statement"} \X DOMAIN InDescriptor /\ b \notin {"statement"} \X DOMAIN InDescriptor
      BY <2>1, <2>2, <2>3, <2>4, <2>6, DescriptorsApart DEF PlaceOf
    <2>7. CASE a \notin {"statement"} \X DOMAIN InDescriptor /\ b \in {"statement"} \X DOMAIN InDescriptor
      BY <2>1, <2>2, <2>3, <2>4, <2>7, DescriptorsApart DEF PlaceOf
    <2>8. CASE a \notin {"statement"} \X DOMAIN InDescriptor /\ b \notin {"statement"} \X DOMAIN InDescriptor
      BY <2>1, <2>2, <2>3, <2>8 DEF Apart, PlaceOf
    <2> QED
      BY <2>5, <2>6, <2>7, <2>8
  <1> QED
    BY <1>1, <1>2, <1>3, <1>4, SetStores

\* What is read of an attribute that is kept.
LEMMA GetReads ==
    ASSUME NEW values, NEW a \in Attribute, a \notin NotKept, NEW shared \in BOOLEAN,
           PlaceOf(a, shared) \in DOMAIN values,
           a = <<"statement", "QUERY_TIMEOUT">> => values[PlaceOf(a, shared)] # 0
    PROVE  Get(values, a, shared) = Got(values[PlaceOf(a, shared)], VariableBits(a))
  <1>1. CASE a = <<"environment", "ODBC_VERSION">>
    BY <1>1 DEF Get, GetEnvAttr, PlaceOf, VariableBits
  <1>2. CASE a = <<"connection", "METADATA_ID">>
    BY <1>2 DEF Get, GetConnectAttr, PlaceOf, VariableBits, AttrAs, Answered
  <1>3. CASE a = <<"statement", "QUERY_TIMEOUT">>
    BY <1>3 DEF Get, GetStmtAttr, PlaceOf, VariableBits, InDescriptor, Answered
  <1>4. CASE a[1] = "statement" /\ a[2] \in DOMAIN InDescriptor /\ a = << "statement", a[2] >>
    <2>1. PlaceOf(a, shared) = DescriptorPlace(a[2], shared) /\ VariableBits(a) = Long
      BY <1>4 DEF PlaceOf, VariableBits
    <2>2. Get(values, a, shared) = GetStmtAttr(values, a[2], shared)
      BY <1>4 DEF Get
    <2>3. /\ a[2] # "METADATA_ID" /\ a[2] # "NOSCAN" /\ a[2] # "QUERY_TIMEOUT"
          /\ a[2] \notin DOMAIN Answered.statement
      BY <1>4 DEF InDescriptor, Answered
    <2>4. GetStmtAttr(values, a[2], shared) = Got(AttrAs(values, DescriptorPlace(a[2], shared), 0), Long)
      BY <1>4, <2>3 DEF GetStmtAttr
    <2> QED
      BY <2>1, <2>2, <2>4 DEF AttrAs
  <1>5. CASE a \in {<<"statement", "METADATA_ID">>, <<"statement", "NOSCAN">>}
    BY <1>5 DEF Get, GetStmtAttr, PlaceOf, VariableBits, InDescriptor, AttrAs, Answered
  <1> QED
    BY <1>1, <1>2, <1>3, <1>4, <1>5, KeptIs

\* Numbers of bits, and what a value below them is short of.
LEMMA WidthsAre ==
    /\ Short \in Nat /\ Medium \in Nat /\ Long \in Nat
    /\ \A a : VariableBits(a) \in Nat
    /\ \A k \in Nat, v \in Nat : v < Power(2, k) => v % Power(2, k) = v
  <1>1. /\ Short \in Nat /\ Medium \in Nat /\ Long \in Nat
    BY AttributesAssumption DEF Medium, Long
  <1>2. ASSUME NEW k \in Nat, NEW v \in Nat, v < Power(2, k)
        PROVE  v % Power(2, k) = v
    <2>1. Power(2, k) \in Nat /\ Power(2, k) > 0
      BY PowerOfTwo
    <2>2. v = Power(2, k) * 0 + v
      BY <2>1
    <2> QED
      BY <1>2, <2>1, <2>2, DividedOnce
  <1> QED
    BY <1>1, <1>2 DEF VariableBits

\* A new connection and statement.
LEMMA FreshHas ==
    ASSUME NEW garbage
    PROVE  DOMAIN Fresh(garbage) = {<<"environment", "ODBC_VERSION">>, <<"connection", "LOGIN_TIMEOUT">>,
                                    <<"connection", "query_timeout">>, <<"statement", "QUERY_TIMEOUT">>}
  BY DEF Fresh

\* Of two attributes set after one another the first is kept: it was set with
\* success and with a value that fits, and the other was not set with it.
SetAndKept(values, a, b, v, w, shared) ==
    /\ a \notin NotKept /\ v < Power(2, VariableBits(a))
    /\ a = <<"statement", "QUERY_TIMEOUT">> => v \in 1 .. Power(2, Short) - 1
    /\ Set(values, a, v, shared).result = "success"
    /\ Set(Set(values, a, v, shared).values, b, w, shared).result = "success" => Apart(a, b, shared)

\* What is read after two attributes were set.
ReadAfter(values, a, b, c, v, w, shared) == Get(Set(Set(values, a, v, shared).values, b, w, shared).values, c, shared)

\* An attribute that is kept reads back.
LEMMA KeptReadsBack ==
    ASSUME NEW values, NEW a \in Attribute, NEW b \in Attribute, NEW v \in Nat, NEW w, NEW shared \in BOOLEAN,
           NEW before \in Nat, SetAndKept(values, a, b, v, w, shared)
    PROVE  LET got == ReadAfter(values, a, b, a, v, w, shared)
           IN  Filled(before % Power(2, VariableBits(a)), got.value, got.bits) = v
  <1> USE DEF SetAndKept
  <1> DEFINE first  == Set(values, a, v, shared).values
             second == Set(first, b, w, shared).values
             p      == PlaceOf(a, shared)
  <1>1. p \in DOMAIN first /\ first[p] = v
    <2>1. first = Store(values, p, IF a = <<"statement", "QUERY_TIMEOUT">> THEN v % Power(2, Short) ELSE v)
      BY SetKeeps
    <2>2. a = <<"statement", "QUERY_TIMEOUT">> => v % Power(2, Short) = v
      <3>1. Power(2, Short) \in Nat
        BY WidthsAre, PowerOfTwo
      <3> QED
        BY <3>1, WidthsAre
    <2>3. first = Store(values, p, v)
      BY <2>1, <2>2
    <2> HIDE DEF first, p
    <2> QED
      BY <2>3 DEF Store
  <1>2. p \in DOMAIN second /\ second[p] = v
    <2>1. CASE Set(first, b, w, shared).result = "success"
      BY <1>1, <2>1, SetElsewhere
    <2>2. CASE Set(first, b, w, shared).result # "success"
      <3>1. second = first
        BY <2>2, SetStores
      <3> QED
        BY <1>1, <3>1
    <2> QED
      BY <2>1, <2>2
  <1> HIDE DEF first, second, p
  <1>3. a = <<"statement", "QUERY_TIMEOUT">> => v # 0
    OBVIOUS
  <1>4. Get(second, a, shared) = Got(v, VariableBits(a))
    BY <1>2, <1>3, GetReads DEF p
  <1>5. Filled(before % Power(2, VariableBits(a)), v, VariableBits(a)) = v
    BY WidthsAre, VariableFilled
  <1> QED
    BY <1>4, <1>5 DEF Got, first, second, ReadAfter

\* A short login timeout reads back.
LEMMA LoginReadsBack ==
    ASSUME NEW garbage, NEW b \in Attribute, NEW v \in Nat, NEW w, NEW shared \in BOOLEAN,
           v < Power(2, Short), b \notin {"connection"} \X IntoLoginTimeout
    PROVE  LET a   == <<"connection", "LOGIN_TIMEOUT">>
               got == Get(Set(Set(Fresh(garbage), a, v, shared).values, b, w, shared).values, a, shared)
           IN  Filled(0 % Power(2, VariableBits(a)), got.value, got.bits) = v
  <1> DEFINE a      == <<"connection", "LOGIN_TIMEOUT">>
             first  == Set(Fresh(garbage), a, v, shared).values
             second == Set(first, b, w, shared).values
  <1>1. a \in DOMAIN first /\ first[a] = v
    <2>1. first = Store(Fresh(garbage), a, v % Power(2, Short))
      BY DEF Set, SetConnectAttr, Answer, IntoLoginTimeout
    <2>2. v % Power(2, Short) = v
      BY WidthsAre
    <2> HIDE DEF first
    <2> QED
      BY <2>1, <2>2 DEF Store
  <1>2. a \in DOMAIN second /\ second[a] = v
    <2>1. ASSUME NEW q, NEW x, q # a
          PROVE  a \in DOMAIN Store(first, q, x) /\ Store(first, q, x)[a] = v
      BY <1>1, <2>1 DEF Store
    <2>2. a # <<"statement", "QUERY_TIMEOUT">>
      OBVIOUS
    <2>3. ~(b[1] = "connection" /\ b[2] \in IntoLoginTimeout)
      BY AttributeIs
    <2> HIDE DEF first
    <2>4. \/ second = first
          \/ second = Store(first, <<"statement", "QUERY_TIMEOUT">>, w % Power(2, Short))
          \/ PlaceOf(b, shared) # a /\ second = Store(first, PlaceOf(b, shared), w)
      BY <2>3, SetStores
    <2> HIDE DEF second, a
    <2> QED
      BY <1>1, <2>1, <2>2, <2>4
  <1> HIDE DEF first, second
  <1>3. Get(second, a, shared) = Got(v, Short)
    <2>1. a[1] = "connection" /\ a[2] = "LOGIN_TIMEOUT" /\ a[2] \notin {"METADATA_ID"}
      OBVIOUS
    <2>2. GetConnectAttr(second, "LOGIN_TIMEOUT") = Got(second[<<"connection", "LOGIN_TIMEOUT">>], Short)
      BY DEF GetConnectAttr, Answered
    <2> QED
      BY <1>2, <2>1, <2>2 DEF Get
  <1>4. Filled(0 % Power(2, VariableBits(a)), v, Short) = v
    BY WidthsAre, VariableWasZero
  <1> QED
    BY <1>3, <1>4 DEF Got, first, second

\* A statement has the SQL_ATTR_METADATA_ID of its connection.
LEMMA MetadataInherited ==
    ASSUME NEW garbage, NEW b \in Attribute, NEW v \in Nat, NEW w, NEW shared \in BOOLEAN, NEW before \in Nat,
           v < Power(2, Medium), b # <<"connection", "METADATA_ID">>, b # <<"statement", "METADATA_ID">>
    PROVE  LET a   == <<"connection", "METADATA_ID">>
               c   == <<"statement", "METADATA_ID">>
               got == Get(Set(Set(Fresh(garbage), a, v, shared).values, b, w, shared).values, c, shared)
           IN  Filled(before % Power(2, VariableBits(c)), got.value, got.bits) = v
  <1> DEFINE a      == <<"connection", "METADATA_ID">>
             c      == <<"statement", "METADATA_ID">>
             first  == Set(Fresh(garbage), a, v, shared).values
             second == Set(first, b, w, shared).values
  <1>1. a \in DOMAIN first /\ first[a] = v /\ c \notin DOMAIN first
    <2>1. first = Store(Fresh(garbage), a, v)
      BY DEF Set, SetConnectAttr, Answer, IntoLoginTimeout
    <2>2. c \notin DOMAIN Fresh(garbage) \cup {a}
      BY FreshHas
    <2> HIDE DEF first
    <2> QED
      BY <2>1, <2>2 DEF Store
  <1>2. a \in DOMAIN second /\ second[a] = v /\ c \notin DOMAIN second
    <2>1. ASSUME NEW q, NEW x, q # a, q # c
          PROVE  a \in DOMAIN Store(first, q, x) /\ Store(first, q, x)[a] = v /\ c \notin DOMAIN Store(first, q, x)
      BY <1>1, <2>1 DEF Store
    <2>2. <<"statement", "QUERY_TIMEOUT">> \notin {a, c} /\ <<"connection", "LOGIN_TIMEOUT">> \notin {a, c}
      OBVIOUS
    <2>3. PlaceOf(b, shared) \notin {a, c}
      <3>1. CASE b[1] = "statement" /\ b[2] \in DOMAIN InDescriptor
        <4>1. DescriptorPlace(b[2], shared)[1] \notin {"environment", "connection", "statement"}
          BY <3>1, DescriptorsApart
        <4>2. a[1] = "connection" /\ c[1] = "statement"
          OBVIOUS
        <4> HIDE DEF a, c
        <4> QED
          BY <3>1, <4>1, <4>2 DEF PlaceOf
      <3>2. CASE ~(b[1] = "statement" /\ b[2] \in DOMAIN InDescriptor)
        BY <3>2 DEF PlaceOf
      <3> QED
        BY <3>1, <3>2
    <2> HIDE DEF first
    <2>4. \/ second = first
          \/ second = Store(first, <<"statement", "QUERY_TIMEOUT">>, w % Power(2, Short))
          \/ second = Store(first, <<"connection", "LOGIN_TIMEOUT">>, w % Power(2, Short))
          \/ second = Store(first, PlaceOf(b, shared), w)
      BY SetStores
    <2> HIDE DEF second, a, c
    <2> QED
      BY <1>1, <2>1, <2>2, <2>3, <2>4
  <1> HIDE DEF first, second
  <1>3. v % Power(2, Medium) = v
    BY WidthsAre
  <1>4. Get(second, c, shared) = Got(v, Long)
    BY <1>2, <1>3 DEF Get, GetStmtAttr, AttrAs, InDescriptor, Answered
  <1>5. v < Power(2, Long)
    <2>1. Medium \in Nat /\ Long = Medium + Medium
      BY AttributesAssumption DEF Medium, Long
    <2>2. Power(2, Long) = Power(2, Medium) * Power(2, Medium)
      BY <2>1, PowerSum
    <2>3. Power(2, Medium) \in Nat /\ Power(2, Medium) > 0
      BY <2>1, PowerOfTwo
    <2>4. \A m \in Nat : m > 0 => m <= m * m
      BY SMT
    <2> QED
      BY <2>2, <2>3, <2>4
  <1>6. VariableBits(c) = Long /\ Filled(before % Power(2, Long), v, Long) = v
    BY <1>5, WidthsAre, VariableFilled DEF VariableBits
  <1> QED
    BY <1>4, <1>6 DEF Got, first, second

\* What is reported and what is used.
LEMMA ReportedIsThere ==
    ASSUME CatalogCall
    PROVE  ImplementedAsAnnounced'
  <1>1. ASSUME NEW f \in DOMAIN Components, NEW s, NEW args, NEW types, Ask(f, s, args, types)
        PROVE  ImplementedAsAnnounced'
    <2>1. call'.op = f
      BY <1>1 DEF Ask
    <2>2. f # "SQLGetFunctions" /\ f # "SQLGetInfo"
      BY DEF Components
    <2> QED
      BY <2>1, <2>2 DEF ImplementedAsAnnounced
  <1>2. ASSUME NEW s \in Session, NEW info \in InfoType, AskInfo(s, info)
        PROVE  ImplementedAsAnnounced'
    <2>1. PICK answer \in GetInfo(s, info) : call' = [op |-> "SQLGetInfo", s |-> s, info |-> info, answer |-> answer]
      BY <1>2 DEF AskInfo
    <2>2. info = "SQL_SCHEMA_USAGE" => (answer = "used" <=> SeesSchemas(s))
      BY DEF GetInfo
    <2>3. SeesSchemas(s) <=> \E o \in Object : Located(s, o).schem # Null
      <3>1. ASSUME NEW o \in Object, ~SeesSchemas(s)
            PROVE  Located(s, o).schem = Null
        BY <3>1 DEF SeesSchemas, Located
      <3>2. ASSUME SeesSchemas(s), NEW o \in Object, o.dataverse # Null, o.part2 # Null
            PROVE  Located(s, o).schem # Null
        BY <3>2 DEF SeesSchemas, Located
      <3> QED
        BY <3>1, <3>2, SchemaAssumption
    <2> QED
      BY <2>1, <2>2, <2>3 DEF ImplementedAsAnnounced
  <1>3. ASSUME NEW id, AskFunctions(id)
        PROVE  ImplementedAsAnnounced'
    <2>1. Exists \cap Stub = {}
      BY DEF Exists, Working, Stub
    <2>2. DOMAIN Components \subseteq Exists
      BY DEF Exists, Working, Components
    <2>3. call'.op = "SQLGetFunctions" /\ call'.result = GetFunctions(id)
      BY <1>3 DEF AskFunctions
    <2>4. GetFunctions(id).result = "success" => GetFunctions(id).exists = Exists
      BY DEF GetFunctions
    <2> QED
      BY <2>1, <2>2, <2>3, <2>4 DEF ImplementedAsAnnounced
  <1>4. ASSUME NEW t, NEW n, NEW m, Describe(t, n, m)
        PROVE  ImplementedAsAnnounced'
    BY <1>4 DEF Describe, ImplementedAsAnnounced
  <1>5. "SQLForeignKeys" \in DOMAIN Components /\ "SQLTables" \in DOMAIN Components
    BY DEF Components
  <1> QED
    BY <1>1, <1>2, <1>3, <1>4, <1>5 DEF CatalogCall

\* The attributes of a call are read back.
LEMMA AttributesAreReadBack ==
    ASSUME AttributeCall
    PROVE  AttributesReadBack'
  <1>1. PICK a, b, c \in Attribute, v, w \in AttributeValue, shared \in BOOLEAN,
             garbage \in {0, Power(2, Short) - 1}, before \in VariableBefore :
           LET first  == Set(Fresh(garbage), a, v, shared)
               second == Set(first.values, b, w, shared)
               got    == Get(second.values, c, shared)
           IN  /\ c \in {a, <<"statement", "METADATA_ID">>}
               /\ (before # 0 \/ garbage # 0) => a = c /\ w = v
               /\ v < Power(2, VariableBits(a)) /\ w < Power(2, VariableBits(b))
               /\ call' = [ op |-> "attributes", a |-> a, v |-> v, b |-> b, w |-> w, c |-> c, shared |-> shared,
                            set |-> << first.result, second.result >>, got |-> got.result,
                            variable |-> Filled(before % Power(2, VariableBits(c)), got.value, got.bits), before |-> before ]
    BY Zenon DEF AttributeCall
  <1> DEFINE first  == Set(Fresh(garbage), a, v, shared)
             second == Set(first.values, b, w, shared)
             got    == Get(second.values, c, shared)
  <1>2. v \in Nat /\ w \in Nat /\ before \in Nat
    BY AttributesAssumption
  <1>3. /\ call'.op = "attributes" /\ call'.a = a /\ call'.v = v /\ call'.b = b /\ call'.c = c
        /\ call'.shared = shared /\ call'.set[1] = first.result /\ call'.set[2] = second.result
        /\ call'.variable = Filled(before % Power(2, VariableBits(c)), got.value, got.bits)
        /\ call'.before = before
    BY <1>1
  <1>4. v < Power(2, VariableBits(a))
    BY <1>1
  <1>5. ASSUME first.result = "success", c = a, a \notin NotKept, ~(Runs(b, a)' /\ second.result = "success"),
               a = <<"statement", "QUERY_TIMEOUT">> => v \in 1 .. Power(2, Short) - 1
        PROVE  call'.variable = v
    <2>1. second.result = "success" => Apart(a, b, shared)
      BY <1>3, <1>5 DEF Runs, Apart
    <2>2. Filled(before % Power(2, VariableBits(a)), Get(second.values, a, shared).value, Get(second.values, a, shared).bits) = v
      <3>1. v \in Nat /\ before \in Nat
        BY <1>2
      <3>2. SetAndKept(Fresh(garbage), a, b, v, w, shared)
        BY <1>4, <1>5, <2>1 DEF SetAndKept
      <3> QED
        BY <3>1, <3>2, KeptReadsBack DEF ReadAfter
    <2> QED
      BY <1>3, <1>5, <2>2
  <1>6. ASSUME c = <<"connection", "LOGIN_TIMEOUT">>, a = <<"connection", "LOGIN_TIMEOUT">>, before = 0, v < Power(2, Short),
               b \notin {"connection"} \X IntoLoginTimeout
        PROVE  call'.variable = v
    <2>1. LET x == <<"connection", "LOGIN_TIMEOUT">>
              y == Get(Set(Set(Fresh(garbage), x, v, shared).values, b, w, shared).values, x, shared)
          IN  Filled(0 % Power(2, VariableBits(x)), y.value, y.bits) = v
      BY <1>2, <1>6, LoginReadsBack, Zenon
    <2> QED
      BY <1>3, <1>6, <2>1
  <1>7. ASSUME c = <<"statement", "METADATA_ID">>, a = <<"connection", "METADATA_ID">>, b \notin {a, c}
        PROVE  call'.variable = v
    <2>1. v < Power(2, Medium)
      BY <1>4, <1>7 DEF VariableBits
    <2> QED
      <3>1. b # <<"connection", "METADATA_ID">> /\ b # <<"statement", "METADATA_ID">>
        BY <1>7
      <3>2. LET x == <<"connection", "METADATA_ID">>
                z == <<"statement", "METADATA_ID">>
                y == Get(Set(Set(Fresh(garbage), x, v, shared).values, b, w, shared).values, z, shared)
            IN  Filled(before % Power(2, VariableBits(z)), y.value, y.bits) = v
        BY <1>2, <2>1, <3>1, MetadataInherited, ZenonT(30)
      <3> QED
        BY <1>3, <1>7, <3>2
  <1> HIDE DEF first, second, got
  <1> QED
    BY <1>3, <1>5, <1>6, <1>7 DEF AttributesReadBack

\* The driver keeps what it says of itself, whatever is in the catalog, for
\* any two attributes set after one another, whatever their values, the
\* variable they are read into and the width of a timeout.
THEOREM PromisesAreKept == PromisesSpec => []PromisesKept
  <1>1. NotCalled => PromisesKept
    BY DEF NotCalled, Start, PromisesKept, ImplementedAsAnnounced, AttributesReadBack
  <1>2. ASSUME CatalogCall
        PROVE  PromisesKept'
    <2>1. AttributesReadBack'
      <3>1. call'.op # "attributes"
        <4>1. ASSUME NEW f \in DOMAIN Components, NEW s, NEW args, NEW types, Ask(f, s, args, types)
              PROVE  call'.op # "attributes"
          BY <4>1 DEF Ask, Components
        <4>2. ASSUME NEW s, NEW info, AskInfo(s, info)
              PROVE  call'.op # "attributes"
          BY <4>2 DEF AskInfo
        <4>3. ASSUME NEW id, AskFunctions(id)
              PROVE  call'.op # "attributes"
          BY <4>3 DEF AskFunctions
        <4>4. ASSUME NEW t, NEW n, NEW m, Describe(t, n, m)
              PROVE  call'.op # "attributes"
          BY <4>4 DEF Describe
        <4>5. "SQLForeignKeys" \in DOMAIN Components /\ "SQLTables" \in DOMAIN Components
          BY DEF Components
        <4> QED
          BY <1>2, <4>1, <4>2, <4>3, <4>4, <4>5 DEF CatalogCall
      <3> QED
        BY <3>1 DEF AttributesReadBack
    <2> QED
      BY <1>2, <2>1, ReportedIsThere DEF PromisesKept
  <1>3. ASSUME AttributeCall
        PROVE  PromisesKept'
    <2>1. ImplementedAsAnnounced'
      <3>1. call'.op = "attributes"
        BY <1>3 DEF AttributeCall
      <3> QED
        BY <3>1 DEF ImplementedAsAnnounced
    <2> QED
      BY <1>3, <2>1, AttributesAreReadBack DEF PromisesKept
  <1>4. ASSUME PromisesKept, UNCHANGED call
        PROVE  PromisesKept'
    BY <1>4 DEF PromisesKept, ImplementedAsAnnounced, AttributesReadBack, Runs
  <1> QED
    BY <1>1, <1>2, <1>3, <1>4, PTL DEF PromisesSpec

-----------------------------------------------------------------------------
(* Numbers, from their digits and to them.                                  *)

\* What holds at 0, and one number further whenever it holds, holds all the way.
LEMMA Onward ==
    ASSUME NEW n \in Nat, NEW S, 0 \in S, \A i \in 0 .. n : i \in S /\ i < n => i + 1 \in S
    PROVE  \A i \in 0 .. n : i \in S
  <1> DEFINE Bad == {i \in 0 .. n : i \notin S}
  <1>1. ASSUME Bad # {}
        PROVE  FALSE
    <2>1. PICK k \in Bad : \A j \in Bad : k <= j
      <3>1. Bad \in SUBSET Nat
        OBVIOUS
      <3> HIDE DEF Bad
      <3> QED
        BY <1>1, <3>1, LeastNumber
    <2>2. k \in 0 .. n /\ k \notin S /\ k # 0
      OBVIOUS
    <2>3. k - 1 \in 0 .. n /\ ~(k <= k - 1) /\ k - 1 < n /\ (k - 1) + 1 = k
      BY <2>2
    <2>4. k - 1 \in S
      BY <2>1, <2>3
    <2> QED
      BY <2>2, <2>3, <2>4
  <1> QED
    BY <1>1

\* Products grow with both numbers.
LEMMA Multiplied ==
    ASSUME NEW a \in Nat, NEW b \in Nat, NEW x \in Nat, NEW y \in Nat, a <= b, x <= y
    PROVE  a * x \in Nat /\ b * y \in Nat /\ a * x <= b * y
  <1>1. a * x \in Nat /\ a * y \in Nat /\ b * y \in Nat
    BY SMT
  <1>2. a * x <= a * y
    BY SMT
  <1>3. a * y <= b * y
    BY SMT
  <1> QED
    BY <1>1, <1>2, <1>3

\* Powers grow with the exponent, beyond any number, and with the base.
LEMMA PowerGrows ==
    ASSUME NEW b \in Nat, b > 0, NEW j \in Nat, NEW k \in Nat, j <= k
    PROVE  Power(b, j) <= Power(b, k)
  <1> DEFINE x == Power(b, j)
             y == Power(b, k - j)
  <1>1. k - j \in Nat /\ k = j + (k - j)
    OBVIOUS
  <1>2. Power(b, k) = x * y
    <2>1. Power(b, j + (k - j)) = x * y
      BY <1>1, PowerSum
    <2> QED
      BY <1>1, <2>1
  <1>3. x \in Nat /\ y \in Nat /\ 1 <= y
    <2>1. \A i \in Nat : Power(b, i) \in Nat /\ Power(b, i) > 0
      BY PowerPositive
    <2> QED
      BY <1>1, <2>1
  <1> HIDE DEF x, y
  <1>4. x * 1 <= x * y /\ x * 1 = x
    BY <1>3, Multiplied
  <1> QED
    BY <1>2, <1>3, <1>4 DEF x

\* A power is more than its exponent.
LEMMA PowerExceeds ==
    ASSUME NEW b \in Nat, b >= 2, NEW n \in Nat
    PROVE  n < Power(b, n)
  <1> DEFINE S == {i \in Nat : i < Power(b, i)}
  <1>1. 0 \in S
    BY PowerSteps
  <1>2. ASSUME NEW i \in 0 .. n, i \in S
        PROVE  i + 1 \in S
    <2> DEFINE x == Power(b, i)
    <2>1. x \in Nat /\ i < x
      BY <1>2, PowerPositive
    <2>2. Power(b, i + 1) = b * x
      BY PowerSteps
    <2> HIDE DEF x
    <2>3. 2 * x <= b * x
      BY <2>1, Multiplied
    <2>4. b * x \in Nat
      BY <2>1, Multiplied
    <2> QED
      BY <2>1, <2>2, <2>3, <2>4
  <1> HIDE DEF S
  <1>3. n \in S
    BY <1>1, <1>2, Onward
  <1> QED
    BY <1>3 DEF S

\* A power grows with its base.
LEMMA PowerLarger ==
    ASSUME NEW a \in Nat, NEW b \in Nat, a > 0, a <= b, NEW n \in Nat
    PROVE  Power(a, n) <= Power(b, n)
  <1> DEFINE S == {i \in Nat : Power(a, i) <= Power(b, i)}
  <1>1. 0 \in S
    BY PowerSteps
  <1>2. ASSUME NEW i \in 0 .. n, i \in S
        PROVE  i + 1 \in S
    <2> DEFINE x == Power(a, i)
               y == Power(b, i)
    <2>1. x \in Nat /\ y \in Nat /\ x <= y
      <3>1. x \in Nat
        BY PowerPositive
      <3>2. y \in Nat
        <4>1. b > 0
          OBVIOUS
        <4> QED
          BY <4>1, PowerPositive
      <3> QED
        BY <1>2, <3>1, <3>2
    <2>2. Power(a, i + 1) = a * x /\ Power(b, i + 1) = b * y
      BY PowerSteps
    <2> HIDE DEF x, y
    <2>3. a * x <= b * y
      BY <2>1, Multiplied
    <2> QED
      BY <2>2, <2>3
  <1> HIDE DEF S
  <1>3. n \in S
    BY <1>1, <1>2, Onward
  <1> QED
    BY <1>3 DEF S

\* Digits: as many as it needs, and no more than any number that is enough.
LEMMA PlacesAre ==
    ASSUME NEW n \in Nat, NEW b \in Nat, b >= 2
    PROVE  /\ Places(n, b) \in Nat /\ n < Power(b, Places(n, b))
           /\ Places(n, b) = 0 \/ Power(b, Places(n, b) - 1) <= n
           /\ n # 0 => Places(n, b) # 0
  <1> DEFINE S == {i \in Nat : n < Power(b, i)}
             P(k) == n < Power(b, k) /\ (k = 0 \/ Power(b, k - 1) <= n)
  <1>1. n \in S
    BY PowerExceeds
  <1>2. PICK k \in S : \A j \in S : k <= j
    <2>1. S \in SUBSET Nat /\ S # {}
      BY <1>1
    <2> HIDE DEF S
    <2> QED
      BY <2>1, LeastNumber
  <1>3. k \in 0 .. n /\ n < Power(b, k)
    <2>1. k <= n
      <3> HIDE DEF S
      <3> QED
        BY <1>1, <1>2
    <2> QED
      BY <2>1
  <1>4. k = 0 \/ Power(b, k - 1) <= n
    <2>1. ASSUME k # 0
          PROVE  Power(b, k - 1) <= n
      <3>1. k - 1 \in Nat /\ ~(k <= k - 1)
        BY <1>3, <2>1
      <3>2. k - 1 \notin S
        <4> HIDE DEF S
        <4> QED
          BY <1>2, <3>1
      <3>3. Power(b, k - 1) \in Nat
        <4>1. b > 0
          OBVIOUS
        <4> QED
          BY <3>1, <4>1, PowerPositive
      <3> QED
        BY <3>1, <3>2, <3>3
    <2> QED
      BY <2>1
  <1>5. P(k)
    BY <1>3, <1>4
  <1>6. Places(n, b) = CHOOSE i \in 0 .. n : P(i)
    BY DEF Places
  <1>7. Places(n, b) \in 0 .. n /\ P(Places(n, b))
    <2> HIDE DEF P
    <2> QED
      BY <1>3, <1>5, <1>6
  <1>8. n # 0 => Places(n, b) # 0
    <2>1. Power(b, 0) = 1
      BY PowerSteps
    <2> QED
      BY <1>7, <2>1
  <1> QED
    BY <1>7, <1>8

\* A number below a power has no more places than the exponent.
LEMMA PlacesFew ==
    ASSUME NEW n \in Nat, NEW b \in Nat, b >= 2, NEW k \in Nat, n < Power(b, k)
    PROVE  Places(n, b) <= k
  <1> DEFINE p == Places(n, b)
  <1>1. p \in Nat /\ (p = 0 \/ Power(b, p - 1) <= n)
    BY PlacesAre
  <1> HIDE DEF p
  <1>2. ASSUME p > k
        PROVE  FALSE
    <2>1. p - 1 \in Nat /\ k <= p - 1
      BY <1>1, <1>2
    <2>2. Power(b, k) <= Power(b, p - 1)
      BY <2>1, PowerGrows
    <2>3. Power(b, k) \in Nat /\ Power(b, p - 1) \in Nat
      <3>1. \A i \in Nat : Power(b, i) \in Nat
        <4>1. b > 0
          OBVIOUS
        <4> QED
          BY <4>1, PowerPositive
      <3> QED
        BY <2>1, <3>1
    <2> QED
      BY <1>1, <1>2, <2>2, <2>3
  <1> QED
    BY <1>1, <1>2 DEF p

-----------------------------------------------------------------------------
(* Sums.                                                                    *)

\* The sums of the first numbers of a sequence.
Summed(g, s) == g = [i \in 0 .. Len(s) |-> IF i = 0 THEN 0 ELSE g[i - 1] + s[i]]

\* The sums that SumOf goes through are integers.
LEMMA SumUnfolds ==
    ASSUME NEW s, Len(s) \in Nat, \A i \in 1 .. Len(s) : s[i] \in Int
    PROVE  /\ \E g : Summed(g, s) /\ SumOf(s) = g[Len(s)]
           /\ \A g : Summed(g, s) => \A i \in 0 .. Len(s) : g[i] \in Int
  <1> DEFINE n == Len(s)
  <1>1. ASSUME NEW b \in {1}, NEW g, g = [i \in 0 .. n |-> IF i = 0 THEN 0 ELSE b * g[i - 1] + s[i]] \/ Summed(g, s)
        PROVE  \A i \in 0 .. n : g[i] \in Int
    <2> DEFINE S == {i \in Nat : g[i] \in Int}
    <2>1. 0 \in S
      <3>1. 0 \in 0 .. n
        OBVIOUS
      <3> QED
        BY <1>1, <3>1 DEF Summed
    <2>2. ASSUME NEW i \in 0 .. n, i \in S, i < n
          PROVE  i + 1 \in S
      <3>1. i + 1 \in 0 .. n /\ i + 1 # 0 /\ (i + 1) - 1 = i /\ g[i] \in Int /\ s[i + 1] \in Int /\ i + 1 \in Nat
        BY <2>2
      <3>2. g[i + 1] = b * g[i] + s[i + 1] \/ g[i + 1] = g[i] + s[i + 1]
        BY <1>1, <3>1 DEF Summed
      <3>3. g[i + 1] \in Int
        BY <3>1, <3>2
      <3> QED
        BY <3>1, <3>3
    <2> HIDE DEF S
    <2>3. \A i \in 0 .. n : i \in S
      BY <2>1, <2>2, Onward
    <2> QED
      BY <2>3 DEF S
  <1>2. \E g : Summed(g, s)
    <2>1. PICK g : Counted(g, 1, s, n)
      BY CountedThere
    <2>2. g = [i \in 0 .. n |-> IF i = 0 THEN 0 ELSE 1 * g[i - 1] + s[i]]
      BY <2>1 DEF Counted
    <2>3. \A i \in 0 .. n : g[i] \in Int
      BY <1>1, <2>2
    <2>4. \A i \in 0 .. n : i # 0 => 1 * g[i - 1] = g[i - 1]
      <3>1. \A i \in 0 .. n : i # 0 => i - 1 \in 0 .. n
        OBVIOUS
      <3> QED
        BY <2>3, <3>1
    <2>5. g = [i \in 0 .. n |-> IF i = 0 THEN 0 ELSE g[i - 1] + s[i]]
      BY <2>2, <2>4
    <2> QED
      BY <2>5 DEF Summed
  <1>3. \E g : Summed(g, s) /\ SumOf(s) = g[n]
    <2> DEFINE g == CHOOSE g : Summed(g, s)
    <2>1. Summed(g, s)
      BY <1>2
    <2>2. SumOf(s) = g[n]
      BY DEF SumOf, Summed
    <2> QED
      BY <2>1, <2>2
  <1> QED
    BY <1>1, <1>3

\* Digits by their places are the number with them.
LEMMA PlacesSum ==
    ASSUME NEW b \in Nat, b > 0, NEW d, NEW n \in Nat, Len(d) = n, \A i \in 1 .. n : d[i] \in Nat,
           NEW s, Len(s) = n, \A i \in 1 .. n : s[i] = d[i] * Power(b, n - i)
    PROVE  SumOf(s) = NumberIn(b, d)
  <1>1. \A i \in Nat : Power(b, i) \in Nat
    BY PowerPositive
  <1>2. \A i \in 1 .. n : s[i] \in Int
    <2>1. ASSUME NEW i \in 1 .. n
          PROVE  s[i] \in Int
      <3>1. n - i \in Nat
        OBVIOUS
      <3>2. Power(b, n - i) \in Nat /\ d[i] \in Nat
        BY <1>1, <3>1
      <3> QED
        BY <3>2
    <2> QED
      BY <2>1
  <1>3. PICK g : Summed(g, s) /\ SumOf(s) = g[n]
    BY <1>2, SumUnfolds
  <1>4. PICK h : Counted(h, b, d, n) /\ NumberIn(b, d) = h[n]
    BY NumberUnfolds
  <1> DEFINE S == {i \in Nat : h[i] \in Nat /\ g[i] = h[i] * Power(b, n - i)}
  <1>5. 0 \in S
    <2>1. g[0] = 0 /\ h[0] = 0
      BY <1>3, <1>4 DEF Summed, Counted
    <2>2. Power(b, n - 0) \in Nat
      BY <1>1
    <2> QED
      BY <2>1, <2>2
  <1>6. ASSUME NEW i \in 0 .. n, i \in S, i < n
        PROVE  i + 1 \in S
    <2> DEFINE k == n - (i + 1)
               x == h[i]
               y == d[i + 1]
               p == Power(b, k)
    <2>1. k \in Nat /\ n - i = k + 1 /\ i + 1 \in 1 .. n /\ i + 1 \in 0 .. n /\ i + 1 # 0 /\ (i + 1) - 1 = i
      BY <1>6
    <2>2. g[i + 1] = g[i] + s[i + 1]
      BY <1>3, <2>1 DEF Summed
    <2>3. h[i + 1] = b * x + y
      BY <1>4, <2>1 DEF Counted
    <2>4. s[i + 1] = y * p
      BY <2>1
    <2>5. g[i] = x * Power(b, k + 1) /\ x \in Nat
      BY <1>6, <2>1
    <2>6. Power(b, k + 1) = b * p
      BY <2>1, PowerSteps
    <2>7. p \in Nat /\ y \in Nat
      BY <1>1, <2>1
    <2> HIDE DEF p, x, y
    <2>8. x * (b * p) + y * p = (b * x + y) * p
      BY <2>5, <2>7, SMT
    <2>9. b * x + y \in Nat
      BY <2>5, <2>7, SMT
    <2>10. h[i + 1] \in Nat
      BY <2>3, <2>9
    <2>11. g[i + 1] = h[i + 1] * p
      BY <2>2, <2>3, <2>4, <2>5, <2>6, <2>8
    <2>12. i + 1 \in Nat
      OBVIOUS
    <2> QED
      BY <2>10, <2>11, <2>12 DEF p
  <1> HIDE DEF S
  <1>7. n \in S
    <2>1. \A i \in 0 .. n : i \in S
      BY <1>5, <1>6, Onward
    <2> QED
      BY <2>1
  <1>8. h[n] \in Nat /\ g[n] = h[n] * Power(b, n - n)
    BY <1>7 DEF S
  <1>9. Power(b, n - n) = 1
    <2>1. n - n = 0
      OBVIOUS
    <2> QED
      BY <2>1, PowerSteps
  <1> QED
    BY <1>3, <1>4, <1>8, <1>9

\* A value is the sum of its bytes.
LEMMA BytesAre ==
    ASSUME NEW v \in Nat
    PROVE  /\ InBytes(BytesOf(v)) = v
           /\ Len(BytesOf(v)) = Places(v, Byte) /\ BytesOf(v) \in Seq(Nat)
           /\ \A i \in DOMAIN BytesOf(v) : BytesOf(v)[i] < Byte
  <1> DEFINE k == Places(v, Byte)
             c == BytesOf(v)
             s == [i \in DOMAIN c |-> c[i] * Power(Byte, i - 1)]
  <1>1. Byte \in Nat /\ Byte >= 2 /\ Byte > 0
    BY ConversionAssumption
  <1>2. k \in Nat /\ v < Power(Byte, k)
    BY <1>1, PlacesAre
  <1>3. \A i \in Nat : Power(Byte, i) \in Nat /\ Power(Byte, i) > 0
    BY <1>1, PowerPositive
  <1>4. c = [i \in 1 .. k |-> (v \div Power(Byte, i - 1)) % Byte]
    BY DEF BytesOf
  <1> HIDE DEF k, c
  <1>5. ASSUME NEW i \in 1 .. k
        PROVE  (v \div Power(Byte, i - 1)) % Byte \in Nat /\ (v \div Power(Byte, i - 1)) % Byte < Byte
    <2>1. i - 1 \in Nat
      OBVIOUS
    <2>2. Power(Byte, i - 1) \in Nat /\ Power(Byte, i - 1) > 0
      BY <1>3, <2>1
    <2>3. v \div Power(Byte, i - 1) \in Int
      BY <2>2, Divided
    <2> QED
      BY <1>1, <2>3, Divided
  <1>6. c \in Seq(Nat) /\ Len(c) = k /\ DOMAIN c = 1 .. k /\ \A i \in 1 .. k : c[i] < Byte
    BY <1>2, <1>4, <1>5
  <1>7. Len(s) = k /\ \A i \in 1 .. k : s[i] = c[i] * Power(Byte, i - 1)
    BY <1>2, <1>6
  <1>8. \A i \in 1 .. Len(s) : s[i] \in Int
    <2>1. ASSUME NEW i \in 1 .. k
          PROVE  s[i] \in Int
      <3>1. i - 1 \in Nat
        OBVIOUS
      <3>2. Power(Byte, i - 1) \in Nat
        BY <1>3, <3>1
      <3>3. c[i] \in Nat
        BY <1>6
      <3> QED
        BY <1>7, <3>2, <3>3
    <2> QED
      BY <1>7, <2>1
  <1>9. InBytes(c) = SumOf(s)
    BY DEF InBytes
  <1> HIDE DEF s
  <1>10. PICK g : Summed(g, s) /\ SumOf(s) = g[k]
    BY <1>2, <1>7, <1>8, SumUnfolds
  <1> DEFINE S == {i \in Nat : g[i] = v % Power(Byte, i)}
  <1>11. 0 \in S
    <2>1. g[0] = 0
      BY <1>2, <1>7, <1>10 DEF Summed
    <2>2. Power(Byte, 0) = 1
      BY <1>1, PowerSteps
    <2> QED
      BY <2>1, <2>2
  <1>12. ASSUME NEW i \in 0 .. k, i \in S, i < k
         PROVE  i + 1 \in S
    <2> DEFINE p == Power(Byte, i)
    <2>1. i + 1 \in 1 .. k /\ i + 1 \in 0 .. k /\ i + 1 # 0 /\ (i + 1) - 1 = i /\ i \in Nat /\ i + 1 \in Nat
      BY <1>2, <1>12
    <2>2. g[i + 1] = g[i] + s[i + 1]
      BY <1>7, <1>10, <2>1 DEF Summed
    <2>3. s[i + 1] = ((v \div p) % Byte) * p
      BY <1>4, <1>7, <2>1
    <2>4. g[i] = v % p
      BY <1>12
    <2>5. Power(Byte, i + 1) = Byte * p
      BY <1>1, <2>1, PowerSteps
    <2>6. p \in Nat /\ p > 0
      BY <1>3, <2>1
    <2> HIDE DEF p
    <2>7. v % (p * Byte) = p * ((v \div p) % Byte) + (v % p)
      BY <1>1, <2>6, DividedTwice
    <2>8. v \div p \in Int /\ v % p \in Nat
      BY <2>6, Divided
    <2>9. (v \div p) % Byte \in Nat
      BY <1>1, <2>8, Divided
    <2> DEFINE x == (v \div p) % Byte
               y == v % p
    <2>10. x \in Nat /\ y \in Nat
      BY <2>8, <2>9
    <2> HIDE DEF x, y
    <2>11. y + x * p = p * x + y /\ p * Byte = Byte * p
      BY <1>1, <2>6, <2>10, SMT
    <2>12. g[i + 1] = v % Power(Byte, i + 1)
      BY <2>2, <2>3, <2>4, <2>5, <2>7, <2>11 DEF x, y
    <2> QED
      BY <2>1, <2>12
  <1> HIDE DEF S
  <1>13. k \in S
    BY <1>2, <1>11, <1>12, Onward
  <1>14. g[k] = v % Power(Byte, k)
    BY <1>13 DEF S
  <1>15. v % Power(Byte, k) = v
    <2> DEFINE p == Power(Byte, k)
    <2>1. p \in Nat /\ p > 0 /\ v < p
      BY <1>2, <1>3
    <2> HIDE DEF p
    <2>2. v = p * 0 + v
      BY <2>1
    <2>3. v % p = v
      BY <2>1, <2>2, DividedOnce
    <2> QED
      BY <2>3 DEF p
  <1>16. InBytes(c) = v
    BY <1>9, <1>10, <1>14, <1>15
  <1> QED
    BY <1>6, <1>16 DEF k, c

-----------------------------------------------------------------------------
(* Digits as characters.                                                    *)

\* The ten digits, which are neither signs nor points nor words.
LEMMA DigitsAre ==
    /\ Digit = {"0", "1", "2", "3", "4", "5", "6", "7", "8", "9"}
    /\ \A k \in 0 .. 9 : Numeral[k + 1] \in Digit /\ DigitOf[Numeral[k + 1]] = k
    /\ \A c \in Digit : DigitOf[c] \in 0 .. 9
    /\ {"+", "-", ".", "true", "false"} \cap Digit = {}
  <1>1. DOMAIN Numeral = 1 .. 10
    BY DEF Numeral
  <1>2. /\ Numeral[1] = "0" /\ Numeral[2] = "1" /\ Numeral[3] = "2" /\ Numeral[4] = "3" /\ Numeral[5] = "4"
        /\ Numeral[6] = "5" /\ Numeral[7] = "6" /\ Numeral[8] = "7" /\ Numeral[9] = "8" /\ Numeral[10] = "9"
    BY DEF Numeral
  <1>3. \A i, j \in 1 .. 10 : Numeral[i] = Numeral[j] => i = j
    BY <1>2
  <1>4. Digit = {"0", "1", "2", "3", "4", "5", "6", "7", "8", "9"}
    <2>1. Digit = {Numeral[i] : i \in 1 .. 10}
      BY <1>1 DEF Digit, ToSet
    <2>2. \A i : i \in 1 .. 10 <=> i \in {1, 2, 3, 4, 5, 6, 7, 8, 9, 10}
      OBVIOUS
    <2> QED
      BY <1>2, <2>1, <2>2
  <1>5. ASSUME NEW k \in 0 .. 9
        PROVE  Numeral[k + 1] \in Digit /\ DigitOf[Numeral[k + 1]] = k
    <2>1. k + 1 \in 1 .. 10
      OBVIOUS
    <2>2. Numeral[k + 1] \in Digit
      BY <1>1, <2>1 DEF Digit, ToSet
    <2>3. (CHOOSE i \in DOMAIN Numeral : Numeral[i] = Numeral[k + 1]) = k + 1
      BY <1>1, <1>3, <2>1
    <2>4. DigitOf[Numeral[k + 1]] = (k + 1) - 1
      BY <2>2, <2>3 DEF DigitOf
    <2> QED
      BY <2>2, <2>4
  <1>6. ASSUME NEW c \in Digit
        PROVE  DigitOf[c] \in 0 .. 9
    <2>1. PICK i \in 1 .. 10 : c = Numeral[i]
      BY <1>1 DEF Digit, ToSet
    <2>2. i - 1 \in 0 .. 9 /\ (i - 1) + 1 = i
      BY <2>1
    <2>3. DigitOf[Numeral[(i - 1) + 1]] = i - 1
      BY <1>5, <2>2
    <2> QED
      BY <2>1, <2>2, <2>3
  <1>7. {"+", "-", ".", "true", "false"} \cap Digit = {}
    BY <1>4
  <1> QED
    BY <1>4, <1>5, <1>6, <1>7

\* The digits of a number are those of the number.
LEMMA DigitsBack ==
    ASSUME NEW n \in Nat, NEW least \in Nat
    PROVE  /\ DigitsOf(n, least) \in Seq(Digit) /\ ValueOf(DigitsOf(n, least)) = n
           /\ Len(DigitsOf(n, least)) >= least
           /\ n # 0 \/ least # 0 => DigitsOf(n, least) # << >>
           /\ n = 0 /\ least = 0 => DigitsOf(n, least) = << >>
  <1> DEFINE k == IF Places(n, 10) < least THEN least ELSE Places(n, 10)
             s == DigitsOf(n, least)
             t == [i \in DOMAIN s |-> DigitOf[s[i]]]
  <1>1. /\ Places(n, 10) \in Nat /\ n < Power(10, Places(n, 10))
        /\ n # 0 => Places(n, 10) # 0
    BY PlacesAre
  <1>2. k \in Nat /\ k >= least /\ k >= Places(n, 10)
    BY <1>1
  <1>3. s = [i \in 1 .. k |-> Numeral[((n \div TenTo(k - i)) % 10) + 1]]
    BY DEF DigitsOf
  <1>4. n < TenTo(k)
    <2>1. Power(10, Places(n, 10)) <= Power(10, k)
      <3> HIDE DEF k
      <3> QED
        BY <1>1, <1>2, PowerGrows
    <2>2. \A i \in Nat : Power(10, i) \in Nat
      BY PowerPositive
    <2> HIDE DEF k
    <2> QED
      BY <1>1, <1>2, <2>1, <2>2 DEF TenTo
  <1>5. n = 0 /\ least = 0 => k = 0
    <2>1. n = 0 => Places(n, 10) <= 0
      <3>1. Power(10, 0) = 1 /\ 0 \in Nat
        BY PowerSteps
      <3> QED
        BY <3>1, PlacesFew
    <2> QED
      BY <1>1, <2>1
  <1>6. n # 0 \/ least # 0 => k # 0
    BY <1>1, <1>2
  <1> HIDE DEF k, s
  <1>7. ASSUME NEW i \in 1 .. k
        PROVE  (n \div TenTo(k - i)) % 10 \in 0 .. 9
    <2>1. k - i \in Nat
      BY <1>2
    <2>2. TenTo(k - i) \in Nat /\ TenTo(k - i) > 0
      BY <2>1, PowerPositive DEF TenTo
    <2>3. n \div TenTo(k - i) \in Int
      BY <2>2, Divided
    <2> QED
      BY <2>3, Divided
  <1>8. s \in Seq(Digit) /\ Len(s) = k /\ DOMAIN s = 1 .. k
    <2>1. \A i \in 1 .. k : Numeral[((n \div TenTo(k - i)) % 10) + 1] \in Digit
      BY <1>7, DigitsAre
    <2> QED
      BY <1>2, <1>3, <2>1
  <1>9. \A i \in 1 .. k : t[i] = (n \div TenTo(k - i)) % 10
    BY <1>3, <1>7, <1>8, DigitsAre
  <1>10. t = Decimals(n, k)
    BY <1>8, <1>9 DEF Decimals
  <1>11. SubSeq(Decimals(n, k), 1, k) = Decimals(n, k)
    <2>1. Decimals(n, k) \in Seq(Int) /\ Len(Decimals(n, k)) = k
      <3>1. \A i \in 1 .. k : (n \div TenTo(k - i)) % 10 \in Int
        BY <1>7
      <3> QED
        BY <1>2, <3>1 DEF Decimals
    <2> QED
      BY <1>2, <2>1
  <1>12. NumberOf(SubSeq(Decimals(n, k), 1, k)) = n \div TenTo(k - k)
    <2>1. k \in 0 .. k
      BY <1>2
    <2> QED
      BY <1>2, <1>4, <2>1, FirstDecimals
  <1>13. n \div TenTo(k - k) = n
    <2>1. k - k = 0 /\ Power(10, 0) = 1
      BY <1>2, PowerSteps
    <2>2. n \div 1 = n
      BY DividedOnce
    <2> QED
      BY <2>1, <2>2 DEF TenTo
  <1>14. ValueOf(s) = n
    BY <1>10, <1>11, <1>12, <1>13 DEF ValueOf
  <1>15. (n # 0 \/ least # 0 => s # << >>) /\ (n = 0 /\ least = 0 => s = << >>)
    BY <1>5, <1>6, <1>8
  <1> QED
    BY <1>2, <1>8, <1>14, <1>15 DEF s

\* The value of some first digits, and of one more.
LEMMA ValueMore ==
    ASSUME NEW u \in Seq(Digit)
    PROVE  /\ ValueOf(SubSeq(u, 1, 0)) = 0
           /\ \A k \in 0 .. Len(u) : k < Len(u) =>
                 ValueOf(SubSeq(u, 1, k + 1)) = 10 * ValueOf(SubSeq(u, 1, k)) + DigitOf[u[k + 1]]
  <1> DEFINE p(k) == SubSeq(u, 1, k)
             d(k) == [i \in DOMAIN p(k) |-> DigitOf[p(k)[i]]]
  <1>1. ASSUME NEW k \in 0 .. Len(u)
        PROVE  Len(d(k)) = k /\ \A i \in 1 .. k : d(k)[i] = DigitOf[u[i]]
    <2>1. p(k) \in Seq(Digit) /\ Len(p(k)) = k /\ \A i \in 1 .. k : p(k)[i] = u[i]
      OBVIOUS
    <2> HIDE DEF p
    <2>2. DOMAIN p(k) = 1 .. k
      BY <2>1
    <2> QED
      BY <2>1, <2>2
  <1>2. ValueOf(SubSeq(u, 1, 0)) = 0
    <2>1. Len(d(0)) = 0
      BY <1>1
    <2> HIDE DEF d
    <2>2. NumberIn(10, d(0)) = 0
      BY <2>1, NoDigit
    <2> QED
      BY <2>2 DEF ValueOf, NumberOf, d
  <1>3. ASSUME NEW k \in 0 .. Len(u), k < Len(u)
        PROVE  ValueOf(SubSeq(u, 1, k + 1)) = 10 * ValueOf(SubSeq(u, 1, k)) + DigitOf[u[k + 1]]
    <2>1. k + 1 \in 0 .. Len(u) /\ k \in Nat
      BY <1>3
    <2>2. /\ Len(d(k)) = k /\ \A i \in 1 .. k : d(k)[i] = DigitOf[u[i]]
          /\ Len(d(k + 1)) = k + 1 /\ \A i \in 1 .. k + 1 : d(k + 1)[i] = DigitOf[u[i]]
      <3> HIDE DEF d
      <3> QED
        BY <1>1, <2>1
    <2> HIDE DEF d
    <2>3. NumberIn(10, d(k + 1)) = 10 * NumberIn(10, d(k)) + d(k + 1)[k + 1]
      <3>1. \A i \in 1 .. k : d(k)[i] = d(k + 1)[i]
        BY <2>1, <2>2
      <3> QED
        BY <2>1, <2>2, <3>1, DigitMore
    <2>4. d(k + 1)[k + 1] = DigitOf[u[k + 1]]
      BY <2>1, <2>2
    <2> QED
      BY <2>3, <2>4 DEF ValueOf, NumberOf, d
  <1> QED
    BY <1>2, <1>3

\* The value of the digit zero.
LEMMA ZeroText ==
    << "0" >> \in Seq(Digit) /\ << "0" >> # << >> /\ Len(<< "0" >>) = 1 /\ ValueOf(<< "0" >>) = 0
  <1> DEFINE d == << "0" >>
  <1>1. "0" \in Digit
    BY DigitsAre
  <1>2. d \in Seq(Digit) /\ d # << >> /\ Len(d) = 1 /\ SubSeq(d, 1, 0 + 1) = d /\ d[0 + 1] = "0"
    <2>1. ASSUME NEW c \in Digit
          PROVE  << c >> \in Seq(Digit) /\ << c >> # << >> /\ Len(<< c >>) = 1 /\ << c >>[1] = c
      OBVIOUS
    <2>2. \A s \in Seq(Digit) : Len(s) = 1 => SubSeq(s, 1, 0 + 1) = s
      OBVIOUS
    <2>3. d \in Seq(Digit) /\ d # << >> /\ Len(d) = 1 /\ d[1] = "0"
      BY <1>1, <2>1, Zenon
    <2> HIDE DEF d
    <2> QED
      BY <2>2, <2>3
  <1>3. DigitOf["0"] = 0
    <2>1. 0 \in 0 .. 9 /\ Numeral[0 + 1] = "0"
      BY DEF Numeral
    <2> QED
      BY <2>1, DigitsAre
  <1> HIDE DEF d
  <1>4. ValueOf(SubSeq(d, 1, 0 + 1)) = 10 * ValueOf(SubSeq(d, 1, 0)) + DigitOf[d[0 + 1]] /\ ValueOf(SubSeq(d, 1, 0)) = 0
    <2>1. 0 \in 0 .. Len(d) /\ 0 < Len(d)
      BY <1>2
    <2> QED
      BY <1>2, <2>1, ValueMore
  <1>5. ValueOf(d) = 10 * 0 + 0
    BY <1>2, <1>3, <1>4
  <1>6. 10 * 0 + 0 = 0
    OBVIOUS
  <1>7. ValueOf(d) = 0
    BY <1>5, <1>6
  <1> QED
    BY <1>2, <1>7 DEF d

\* It is below the power of ten of so many digits.
LEMMA ValueWithin ==
    ASSUME NEW u \in Seq(Digit)
    PROVE  \A k \in 0 .. Len(u) : ValueOf(SubSeq(u, 1, k)) \in Nat /\ ValueOf(SubSeq(u, 1, k)) < TenTo(k)
  <1> DEFINE v(k) == ValueOf(SubSeq(u, 1, k))
             S    == {k \in Nat : v(k) \in Nat /\ v(k) < Power(10, k)}
  <1>1. 0 \in S
    <2>1. v(0) = 0
      BY ValueMore
    <2> HIDE DEF v
    <2>2. Power(10, 0) = 1
      BY PowerSteps
    <2> QED
      BY <2>1, <2>2
  <1>2. ASSUME NEW k \in 0 .. Len(u), k \in S, k < Len(u)
        PROVE  k + 1 \in S
    <2>0. k \in Nat /\ v(k) \in Nat /\ v(k) < Power(10, k)
      BY <1>2
    <2>1. v(k + 1) = 10 * v(k) + DigitOf[u[k + 1]]
      BY <1>2, ValueMore
    <2> HIDE DEF v
    <2>2. DigitOf[u[k + 1]] \in 0 .. 9
      <3>1. u[k + 1] \in Digit
        BY <1>2
      <3> QED
        BY <3>1, DigitsAre
    <2>3. Power(10, k + 1) = 10 * Power(10, k) /\ Power(10, k) \in Nat
      <3>1. Power(10, k + 1) = 10 * Power(10, k)
        BY PowerSteps
      <3>2. Power(10, k) \in Nat
        BY <2>0, PowerPositive
      <3> QED
        BY <3>1, <3>2
    <2> DEFINE a == v(k)
               p == Power(10, k)
               d == DigitOf[u[k + 1]]
    <2>4. v(k + 1) \in Nat /\ v(k + 1) < Power(10, k + 1)
      <3>1. a \in Nat /\ p \in Nat /\ d \in 0 .. 9 /\ a < p
        BY <2>0, <2>2, <2>3
      <3> HIDE DEF a, p, d
      <3>2. 10 * a + d \in Nat /\ 10 * a + d < 10 * p
        BY <3>1
      <3> QED
        BY <2>1, <2>3, <3>2 DEF a, p, d
    <2>5. k + 1 \in Nat
      BY <2>0
    <2> QED
      BY <2>4, <2>5
  <1> HIDE DEF S
  <1>3. \A k \in 0 .. Len(u) : k \in S
    <2>1. Len(u) \in Nat
      OBVIOUS
    <2> QED
      BY <1>1, <1>2, <2>1, Onward
  <1> QED
    BY <1>3 DEF S, TenTo

\* The value of digits is the sum of what they stand for at their places.
LEMMA ValueIs ==
    ASSUME NEW u \in Seq(Digit)
    PROVE  /\ ValueOf(u) \in Nat /\ ValueOf(u) < TenTo(Len(u))
           /\ SumOf([i \in DOMAIN u |-> DigitOf[u[i]] * TenTo(Len(u) - i)]) = ValueOf(u)
  <1> DEFINE n == Len(u)
             d == [i \in DOMAIN u |-> DigitOf[u[i]]]
             s == [i \in DOMAIN u |-> DigitOf[u[i]] * TenTo(Len(u) - i)]
  <1>1. n \in Nat /\ DOMAIN u = 1 .. n /\ SubSeq(u, 1, n) = u /\ \A i \in 1 .. n : u[i] \in Digit
    OBVIOUS
  <1>2. Len(d) = n /\ \A i \in 1 .. n : d[i] = DigitOf[u[i]]
    BY <1>1
  <1>3. \A i \in 1 .. n : d[i] \in Nat
    <2>1. \A c \in Digit : DigitOf[c] \in Nat
      <3>1. \A c \in Digit : DigitOf[c] \in 0 .. 9
        BY DigitsAre, Zenon
      <3> QED
        BY <3>1
    <2> QED
      BY <1>1, <1>2, <2>1
  <1>4. Len(s) = n /\ \A i \in 1 .. n : s[i] = d[i] * Power(10, n - i)
    BY <1>1 DEF TenTo
  <1> HIDE DEF n, d, s
  <1>5. SumOf(s) = NumberIn(10, d)
    <2>1. 10 \in Nat /\ 10 > 0 /\ n \in Nat
      BY <1>1
    <2>2. Len(d) = n /\ Len(s) = n /\ \A i \in 1 .. n : s[i] = d[i] * Power(10, n - i)
      BY <1>2, <1>4
    <2> QED
      BY <2>1, <2>2, <1>3, PlacesSum, Zenon
  <1>6. NumberIn(10, d) = ValueOf(u)
    BY DEF ValueOf, NumberOf, d
  <1>7. ValueOf(u) \in Nat /\ ValueOf(u) < TenTo(n)
    <2>1. n \in 0 .. n
      BY <1>1
    <2> QED
      BY <1>1, <2>1, ValueWithin DEF n
  <1> QED
    BY <1>5, <1>6, <1>7 DEF s, n

-----------------------------------------------------------------------------
(* Texts of integers.                                                       *)

\* A sign, or none.
SignsOf(text) == IF text # << >> /\ text[1] \in {"+", "-"} THEN 1 ELSE 0

\* What is left without it.
LEMMA Unsigning ==
    ASSUME NEW C, NEW text \in Seq(C)
    PROVE  /\ SignsOf(text) \in {0, 1} /\ SignsOf(text) <= Len(text)
           /\ Unsign(text) \in Seq(C) /\ Len(Unsign(text)) = Len(text) - SignsOf(text)
           /\ \A i \in 1 .. Len(text) - SignsOf(text) : Unsign(text)[i] = text[i + SignsOf(text)]
  <1>1. CASE text # << >> /\ text[1] \in {"+", "-"}
    <2>1. SignsOf(text) = 1 /\ Unsign(text) = Tail(text) /\ Len(text) >= 1
      BY <1>1 DEF SignsOf, Unsign
    <2>2. /\ Tail(text) \in Seq(C) /\ Len(Tail(text)) = Len(text) - 1
          /\ \A i \in 1 .. Len(text) - 1 : Tail(text)[i] = text[i + 1]
      BY <1>1
    <2> QED
      BY <2>1, <2>2
  <1>2. CASE ~(text # << >> /\ text[1] \in {"+", "-"})
    <2>1. SignsOf(text) = 0 /\ Unsign(text) = text
      BY <1>2 DEF SignsOf, Unsign
    <2>2. Len(text) \in Nat /\ \A i \in 1 .. Len(text) : i + 0 = i
      OBVIOUS
    <2> QED
      BY <2>1, <2>2
  <1> QED
    BY <1>1, <1>2

\* An integer: digits behind the sign, all the way.
LEMMA IntegerTexts ==
    ASSUME NEW C, NEW text \in Seq(C)
    PROVE  /\ IsInteger(text) <=> /\ SignsOf(text) < Len(text)
                                  /\ \A j \in SignsOf(text) + 1 .. Len(text) : text[j] \in Digit
           /\ IsInteger(text) => /\ Unsign(text) \in Seq(Digit)
                                 /\ IntegerIn(text) = IF Minus(text) THEN -ValueOf(Unsign(text)) ELSE ValueOf(Unsign(text))
                                 /\ ValueOf(Unsign(text)) \in Nat /\ ValueOf(Unsign(text)) = Magnitude(IntegerIn(text))
           /\ Minus(text) => SignsOf(text) = 1
  <1> DEFINE g == SignsOf(text)
             u == Unsign(text)
             n == Len(text) - g
  <1>1. /\ g \in {0, 1} /\ n \in Nat /\ u \in Seq(C) /\ Len(u) = n
        /\ \A i \in 1 .. n : u[i] = text[i + g]
    BY Unsigning
  <1> HIDE DEF u
  <1>2. IsInteger(text) <=> n > 0 /\ \A i \in 1 .. n : u[i] \in Digit
    <2>1. ToSet(u) \subseteq Digit <=> \A i \in 1 .. n : u[i] \in Digit
      BY <1>1 DEF ToSet
    <2>2. u # << >> <=> n > 0
      BY <1>1
    <2> QED
      BY <2>1, <2>2 DEF IsInteger, u
  <1>3. (\A i \in 1 .. n : u[i] \in Digit) <=> \A j \in g + 1 .. Len(text) : text[j] \in Digit
    <2>1. ASSUME \A i \in 1 .. n : u[i] \in Digit, NEW j \in g + 1 .. Len(text)
          PROVE  text[j] \in Digit
      <3>1. j - g \in 1 .. n /\ (j - g) + g = j
        BY <1>1
      <3> QED
        BY <1>1, <2>1, <3>1
    <2>2. ASSUME \A j \in g + 1 .. Len(text) : text[j] \in Digit, NEW i \in 1 .. n
          PROVE  u[i] \in Digit
      <3>1. i + g \in g + 1 .. Len(text)
        BY <1>1
      <3> QED
        BY <1>1, <2>2, <3>1
    <2> QED
      BY <2>1, <2>2
  <1>4. n > 0 <=> g < Len(text)
    BY <1>1
  <1>5. ASSUME IsInteger(text)
        PROVE  /\ u \in Seq(Digit) /\ ValueOf(u) \in Nat
               /\ IntegerIn(text) = IF Minus(text) THEN -ValueOf(u) ELSE ValueOf(u)
    <2>1. u \in Seq(Digit)
      BY <1>1, <1>2, <1>5
    <2>2. /\ ValueOf(u) \in Nat
          /\ SumOf([i \in DOMAIN u |-> DigitOf[u[i]] * TenTo(Len(u) - i)]) = ValueOf(u)
      BY <2>1, ValueIs
    <2> QED
      BY <2>1, <2>2 DEF IntegerIn, u
  <1>6. Minus(text) => g = 1
    BY DEF Minus, SignsOf
  <1>7. IsInteger(text) => ValueOf(u) = Magnitude(IntegerIn(text))
    BY <1>5 DEF Magnitude
  <1> QED
    BY <1>2, <1>3, <1>4, <1>5, <1>6, <1>7 DEF u

\* strtoll reads all of a text if it is an integer.
LEMMA ScannedIs ==
    ASSUME NEW C, NEW text \in Seq(C)
    PROVE  /\ Scanned(text).minus <=> Minus(text)
           /\ Scanned(text).digits # << >> /\ Scanned(text).whole <=> IsInteger(text)
           /\ IsInteger(text) => Scanned(text).digits = Unsign(text)
  <1> DEFINE g    == SignsOf(text)
             n    == Len(text)
             I    == {i \in g + 1 .. n : text[i] \notin Digit}
             stop == IF I # {} THEN Min(I) ELSE 0
             upto == IF stop = 0 THEN n ELSE stop - 1
             read == [ minus |-> g = 1 /\ text[1] = "-", digits |-> SubSeq(text, g + 1, upto), whole |-> upto = n ]
  <1>1. Scanned(text) = read
    BY DEF Scanned, SelectInSubSeq, SignsOf
  <1>2. g \in {0, 1} /\ n \in Nat /\ g <= n
    <2>1. SignsOf(text) \in {0, 1} /\ SignsOf(text) <= Len(text)
      BY Unsigning, Zenon
    <2> QED
      BY <2>1
  <1>3. read.minus = (g = 1 /\ text[1] = "-") /\ read.digits = SubSeq(text, g + 1, upto) /\ read.whole = (upto = n)
    OBVIOUS
  <1>4. (g = 1 /\ text[1] = "-") <=> Minus(text)
    BY DEF SignsOf, Minus
  <1>5. I = {} => upto = n
    OBVIOUS
  <1>6. I # {} => upto # n
    <2>1. ASSUME I # {}
          PROVE  Min(I) \in I
      <3>1. I \in SUBSET Nat
        BY <1>2
      <3> HIDE DEF I
      <3>2. \E k \in I : \A m \in I : k <= m
        BY <2>1, <3>1, LeastNumber
      <3> QED
        BY <3>2 DEF Min
    <2>2. ASSUME I # {}
          PROVE  upto # n
      <3> DEFINE m == Min(I)
      <3>1. m \in g + 1 .. n
        BY <2>1, <2>2
      <3>2. stop = m
        BY <2>2
      <3> HIDE DEF m, I, stop
      <3>3. m # 0 /\ m - 1 # n
        BY <1>2, <3>1
      <3> QED
        BY <3>2, <3>3 DEF stop
    <2> QED
      BY <2>2
  <1> HIDE DEF stop, upto
  <1>7. SubSeq(text, g + 1, n) = Unsign(text)
    <2> DEFINE a == SubSeq(text, g + 1, n)
               b == Unsign(text)
    <2>1. b \in Seq(C) /\ Len(b) = n - g /\ \A i \in 1 .. n - g : b[i] = text[i + g]
      BY Unsigning
    <2>2. a \in Seq(C) /\ Len(a) = n - g /\ \A i \in 1 .. n - g : a[i] = text[i + g]
      <3>1. \A i \in 1 .. n - g : (g + 1) + i - 1 = i + g
        BY <1>2
      <3>2. g + 1 \in 1 .. n + 1 /\ n \in g .. n
        BY <1>2
      <3> HIDE DEF g, n
      <3>3. a \in Seq(C)
        BY <3>2 DEF n, g
      <3>4. Len(a) = n - g /\ \A i \in 1 .. n - g : a[i] = text[(g + 1) + i - 1]
        BY <1>2, <3>2 DEF n
      <3> QED
        BY <3>1, <3>3, <3>4
    <2> HIDE DEF a, b, g, n
    <2>3. a = b
      BY <2>1, <2>2
    <2> QED
      BY <2>3 DEF a, b
  <1>8. IsInteger(text) <=> g < n /\ I = {}
    <2>1. I = {} <=> \A j \in g + 1 .. n : text[j] \in Digit
      OBVIOUS
    <2> QED
      BY <2>1, IntegerTexts
  <1>9. I = {} => (read.digits # << >> <=> g < n)
    <2>1. Unsign(text) # << >> <=> n - g > 0
      <3>1. Unsign(text) \in Seq(C) /\ Len(Unsign(text)) = n - g
        BY Unsigning
      <3> QED
        BY <3>1
    <2> QED
      BY <1>2, <1>3, <1>5, <1>7, <2>1
  <1> HIDE DEF g, n, I, read
  <1> QED
    BY <1>1, <1>3, <1>4, <1>5, <1>6, <1>7, <1>8, <1>9

\* The ranges of integers: narrower ones lie within the widest.
LEMMA Ranges ==
    ASSUME NEW t \in Signed \cup Unsigned
    PROVE  /\ Least(t) \in Int /\ Greatest(t) \in Int /\ Least(t) <= 0 /\ Greatest(t) >= 1
           /\ WidestOf(t) \in Signed <=> t \in Signed
           /\ WidestOf(t) \in Unsigned <=> t \in Unsigned
           /\ Least(t) .. Greatest(t) \subseteq Least(WidestOf(t)) .. Greatest(WidestOf(t))
           /\ t \in Unsigned => /\ Least(t) = 0 /\ Least(WidestOf(t)) = 0
                                /\ Power(2, Bits[WidestOf(t)]) \in Nat
                                /\ Greatest(WidestOf(t)) = Power(2, Bits[WidestOf(t)]) - 1
  <1> DEFINE w == WidestOf(t)
  <1>1. \A k \in Nat : Power(2, k) \in Nat /\ Power(2, k) > 0
    BY PowerPositive
  <1>2. Bits[t] \in Nat \ {0, 1} /\ Bits[w] \in Nat \ {0, 1} /\ Bits[t] <= Bits[w]
    BY ConversionAssumption DEF Signed, Unsigned, WidestOf
  <1>3. (w \in Signed <=> t \in Signed) /\ (w \in Unsigned <=> t \in Unsigned) /\ ~(t \in Signed /\ t \in Unsigned)
    BY DEF WidestOf, Signed, Unsigned
  <1>4. ASSUME NEW k \in Nat \ {0, 1}
        PROVE  Power(2, k - 1) \in Nat /\ Power(2, k - 1) >= 2 /\ Power(2, k) \in Nat /\ Power(2, k) >= 2
    <2>1. k - 1 \in Nat /\ 1 <= k - 1 /\ 1 <= k
      OBVIOUS
    <2>2. Power(2, 1) = 2
      <3>1. Power(2, 0 + 1) = 2 * Power(2, 0) /\ Power(2, 0) = 1
        BY PowerSteps
      <3> QED
        BY <3>1
    <2>3. Power(2, 1) <= Power(2, k - 1) /\ Power(2, 1) <= Power(2, k)
      BY <2>1, PowerGrows
    <2> QED
      BY <1>1, <2>1, <2>2, <2>3
  <1>5. Power(2, Bits[t] - 1) <= Power(2, Bits[w] - 1) /\ Power(2, Bits[t]) <= Power(2, Bits[w])
    <2>1. Bits[t] - 1 \in Nat /\ Bits[w] - 1 \in Nat /\ Bits[t] - 1 <= Bits[w] - 1
      BY <1>2
    <2> QED
      BY <1>2, <2>1, PowerGrows
  <1> DEFINE a == Power(2, Bits[t] - 1)
             b == Power(2, Bits[t])
             c == Power(2, Bits[w] - 1)
             d == Power(2, Bits[w])
  <1>6. a \in Nat /\ b \in Nat /\ c \in Nat /\ d \in Nat /\ a >= 2 /\ b >= 2 /\ a <= c /\ b <= d
    BY <1>2, <1>4, <1>5
  <1>7. /\ Least(t) = IF t \in Signed THEN -a ELSE 0
        /\ Greatest(t) = IF t \in Signed THEN a - 1 ELSE b - 1
        /\ Least(w) = IF w \in Signed THEN -c ELSE 0
        /\ Greatest(w) = IF w \in Signed THEN c - 1 ELSE d - 1
    BY DEF Least, Greatest
  <1> HIDE DEF a, b, c, d, w
  <1>8. /\ Least(t) \in Int /\ Greatest(t) \in Int /\ Least(t) <= 0 /\ Greatest(t) >= 1
        /\ Least(t) .. Greatest(t) \subseteq Least(w) .. Greatest(w)
    BY <1>3, <1>6, <1>7
  <1>9. t \in Unsigned => /\ Least(t) = 0 /\ Least(w) = 0
                          /\ Power(2, Bits[w]) \in Nat
                          /\ Greatest(w) = Power(2, Bits[w]) - 1
    BY <1>3, <1>6, <1>7 DEF d
  <1> QED
    BY <1>3, <1>8, <1>9 DEF w

\* An integer as the type asked for.
LEMMA IntegerRead ==
    ASSUME NEW C, NEW text \in Seq(C), NEW t \in Signed \cup Unsigned, ~(t \in Unsigned /\ Minus(text))
    PROVE  ToInteger(text, t) =
              IF IsInteger(text) /\ IntegerIn(text) \in Least(t) .. Greatest(t)
              THEN IntegerIn(text)
              ELSE IF text = << "true" >> THEN 1 ELSE IF text = << "false" >> THEN 0 ELSE Error
  <1> DEFINE w    == WidestOf(t)
             n    == ValueOf(Scanned(text).digits)
             v    == IF Scanned(text).minus THEN -n ELSE n
             wide == Widest(text, w)
  <1>1. /\ Least(t) \in Int /\ Greatest(t) \in Int /\ Least(t) <= 0 /\ Greatest(t) >= 1
        /\ w \in Signed <=> t \in Signed
        /\ w \in Unsigned <=> t \in Unsigned
        /\ Least(t) .. Greatest(t) \subseteq Least(w) .. Greatest(w)
        /\ t \in Unsigned => /\ Least(t) = 0 /\ Least(w) = 0
                             /\ Power(2, Bits[w]) \in Nat /\ Greatest(w) = Power(2, Bits[w]) - 1
    BY Ranges
  <1>2. ~(t \in Signed /\ t \in Unsigned)
    BY DEF Signed, Unsigned
  <1>3. Error \notin Int
    BY ErrorAssumption
  <1>4. ASSUME text = << "true" >> \/ text = << "false" >>
        PROVE  ~IsInteger(text)
    <2>1. Len(text) = 1 /\ text[1] \in {"true", "false"}
      BY <1>4
    <2>2. SignsOf(text) = 0
      BY <2>1 DEF SignsOf
    <2>3. text[1] \notin Digit
      BY <2>1, DigitsAre
    <2>4. 1 \in 0 + 1 .. Len(text)
      BY <2>1
    <2> QED
      BY <2>2, <2>3, <2>4, IntegerTexts
  <1>5. ToInteger(text, t) = IF wide # Error /\ wide \notin Least(t) .. Greatest(t) THEN Error ELSE wide
    BY DEF ToInteger
  <1>6. << "true" >> # << "false" >>
    <2>1. << "true" >>[1] = "true" /\ << "false" >>[1] = "false" /\ "true" # "false"
      OBVIOUS
    <2> QED
      BY <2>1
  <1>7. CASE text = << "true" >>
    <2>1. wide = 1
      BY <1>7 DEF Widest
    <2>2. 1 \in Least(t) .. Greatest(t)
      BY <1>1
    <2> QED
      BY <1>4, <1>5, <1>7, <2>1, <2>2
  <1>8. CASE text = << "false" >>
    <2>1. wide = 0
      BY <1>6, <1>8 DEF Widest
    <2>2. 0 \in Least(t) .. Greatest(t)
      BY <1>1
    <2> QED
      BY <1>4, <1>5, <1>6, <1>8, <2>1, <2>2
  <1>9. CASE text # << "true" >> /\ text # << "false" >>
    <2>1. wide = IF \/ Scanned(text).digits = << >>
                    \/ ~Scanned(text).whole
                    \/ w \in Signed /\ v \notin Least(w) .. Greatest(w)
                    \/ w \in Unsigned /\ n > Greatest(w)
                 THEN Error ELSE IF w \in Unsigned THEN v % Power(2, Bits[w]) ELSE v
      BY <1>9 DEF Widest
    <2>2. CASE ~IsInteger(text)
      <3>1. Scanned(text).digits = << >> \/ ~Scanned(text).whole
        BY <2>2, ScannedIs
      <3>2. wide = Error
        BY <2>1, <3>1
      <3> QED
        BY <1>5, <1>9, <2>2, <3>2
    <2>3. CASE IsInteger(text)
      <3>1. /\ Scanned(text).digits # << >> /\ Scanned(text).whole /\ Scanned(text).digits = Unsign(text)
            /\ Scanned(text).minus <=> Minus(text)
        BY <2>3, ScannedIs
      <3>2. n \in Nat /\ v = IntegerIn(text) /\ v \in Int /\ (~Minus(text) => v = n)
        <4>1. /\ ValueOf(Unsign(text)) \in Nat
              /\ IntegerIn(text) = IF Minus(text) THEN -ValueOf(Unsign(text)) ELSE ValueOf(Unsign(text))
          BY <2>3, IntegerTexts
        <4> QED
          BY <3>1, <4>1
      <3> HIDE DEF n, v, wide, w
      <3>3. CASE t \in Signed
        <4>1. wide = IF v \notin Least(w) .. Greatest(w) THEN Error ELSE v
          BY <1>1, <1>2, <2>1, <3>1, <3>3
        <4> QED
          BY <1>1, <1>3, <1>5, <1>9, <2>3, <3>2, <4>1
      <3>4. CASE t \in Unsigned
        <4> DEFINE P == Power(2, Bits[w])
        <4>1. v = n /\ P \in Nat /\ Greatest(w) = P - 1 /\ Least(t) = 0 /\ Least(w) = 0
          BY <1>1, <3>2, <3>4
        <4>2. wide = IF n > Greatest(w) THEN Error ELSE v % P
          BY <1>1, <1>2, <2>1, <3>1, <3>4
        <4> HIDE DEF P
        <4>3. n <= P - 1 => v % P = n
          <5>1. ASSUME n <= P - 1
                PROVE  v % P = n
            <6>1. P > 0 /\ n < P /\ n = P * 0 + n
              BY <3>2, <4>1, <5>1
            <6>2. n % P = n
              BY <3>2, <4>1, <6>1, DividedOnce
            <6> QED
              BY <4>1, <6>2
          <5> QED
            BY <5>1
        <4>4. wide = IF n <= P - 1 THEN n ELSE Error
          BY <3>2, <4>1, <4>2, <4>3
        <4>5. n \in Least(t) .. Greatest(t) => n <= P - 1
          BY <1>1, <4>1
        <4> QED
          BY <1>1, <1>3, <1>5, <1>9, <2>3, <3>2, <4>1, <4>4, <4>5
      <3> QED
        BY <3>3, <3>4
    <2> QED
      BY <2>2, <2>3
  <1> QED
    BY <1>7, <1>8, <1>9

\* The bits of a double are the integer.
LEMMA DoubleRead ==
    ASSUME NEW C, NEW text \in Seq(C), IsInteger(text), IntegerIn(text) \in 0 .. Greatest("uint64")
    PROVE  ToDouble(text) = IntegerIn(text)
  <1> DEFINE n == ValueOf(Scanned(text).digits)
             G == Greatest("uint64")
             P == Power(2, Bits["uint64"])
             m == SmallerOf(n, G)
  <1>1. /\ Scanned(text).digits = Unsign(text)
        /\ Scanned(text).minus <=> Minus(text)
    BY ScannedIs
  <1>2. n \in Nat /\ IntegerIn(text) = IF Minus(text) THEN -n ELSE n
    BY <1>1, IntegerTexts
  <1>3. G \in Int /\ G >= 1 /\ P \in Nat /\ G = P - 1
    <2>1. "uint64" \in Unsigned /\ WidestOf("uint64") = "uint64"
      BY DEF Unsigned, WidestOf, Signed
    <2> QED
      BY <2>1, Ranges
  <1>4. ToDouble(text) = IF Scanned(text).minus /\ m < G THEN (-m) % P ELSE m
    BY DEF ToDouble
  <1> HIDE DEF n, G, P
  <1>5. m = n /\ (Minus(text) => n = 0)
    BY <1>2, <1>3 DEF SmallerOf, G
  <1>6. (-0) % P = 0
    <2>1. P \in Nat /\ P > 0 /\ 0 = P * 0 + 0
      BY <1>3
    <2>2. 0 % P = 0
      BY <2>1, DividedOnce
    <2> QED
      BY <2>2
  <1> HIDE DEF m
  <1> QED
    BY <1>1, <1>2, <1>3, <1>4, <1>5, <1>6

\* Digits, and a sign before them.
LEMMA SignedTexts ==
    ASSUME NEW digits \in Seq(Digit), digits # << >>, NEW minus \in BOOLEAN,
           NEW text, text = (IF minus THEN << "-" >> ELSE << >>) \o digits
    PROVE  /\ text \in Seq(Digit \cup {"-"}) /\ IsInteger(text) /\ Unsign(text) = digits
           /\ Minus(text) <=> minus
  <1> DEFINE g == IF minus THEN 1 ELSE 0
             C == Digit \cup {"-"}
  <1>1. "-" \in C
    OBVIOUS
  <1>2. digits \in Seq(C) /\ Len(digits) > 0 /\ Len(digits) \in Nat
    <2>1. Digit \subseteq C
      OBVIOUS
    <2> HIDE DEF C
    <2>2. digits \in Seq(C)
      BY <2>1, Widened
    <2> QED
      BY <2>2
  <1>3. /\ text \in Seq(C) /\ Len(text) = g + Len(digits)
        /\ \A i \in 1 .. Len(digits) : text[i + g] = digits[i]
        /\ minus => text[1] = "-"
    <2>1. CASE minus
      <3> HIDE DEF C
      <3>1. << "-" >> \in Seq(C) /\ Len(<< "-" >>) = 1 /\ << "-" >>[1] = "-"
        BY <1>1
      <3>2. text = << "-" >> \o digits
        BY <2>1
      <3>3. text \in Seq(C) /\ Len(text) = 1 + Len(digits) /\ text[1] = "-"
        BY <1>2, <3>1, <3>2
      <3>4. \A i \in 1 .. Len(digits) : text[i + 1] = digits[i]
        BY <1>2, <3>1, <3>2
      <3> QED
        BY <2>1, <3>3, <3>4
    <2>2. CASE ~minus
      <3> HIDE DEF C
      <3>1. << >> \in Seq(C) /\ Len(<< >>) = 0
        OBVIOUS
      <3>2. text = << >> \o digits
        BY <2>2
      <3>3. text = digits
        BY <1>2, <3>1, <3>2
      <3>4. \A i \in 1 .. Len(digits) : i + 0 = i
        BY <1>2
      <3> QED
        BY <1>2, <2>2, <3>3, <3>4
    <2> QED
      BY <2>1, <2>2
  <1>4. SignsOf(text) = g
    <2>1. CASE minus
      <3>1. text # << >>
        BY <1>2, <1>3, <2>1
      <3> QED
        BY <1>3, <2>1, <3>1 DEF SignsOf
    <2>2. CASE ~minus
      <3>1. 1 \in 1 .. Len(digits) /\ 1 + 0 = 1
        BY <1>2
      <3>2. text[1] = digits[1] /\ digits[1] \in Digit
        BY <1>2, <1>3, <2>2, <3>1
      <3>3. text[1] \notin {"+", "-"}
        BY <3>2, DigitsAre
      <3> QED
        BY <2>2, <3>3 DEF SignsOf
    <2> QED
      BY <2>1, <2>2
  <1>5. Minus(text) <=> minus
    <2>1. CASE minus
      <3>1. text # << >>
        BY <1>2, <1>3, <2>1
      <3> QED
        BY <1>3, <2>1, <3>1 DEF Minus
    <2>2. CASE ~minus
      <3>1. SignsOf(text) = 0
        BY <1>4, <2>2
      <3> QED
        BY <2>2, <3>1 DEF SignsOf, Minus
    <2> QED
      BY <2>1, <2>2
  <1>6. IsInteger(text)
    <2>1. g < Len(text) /\ g \in {0, 1}
      BY <1>2, <1>3
    <2>2. ASSUME NEW j \in g + 1 .. Len(text)
          PROVE  text[j] \in Digit
      <3>1. j - g \in 1 .. Len(digits) /\ (j - g) + g = j
        BY <1>2, <1>3, <2>1
      <3>2. text[j] = digits[j - g]
        BY <1>3, <3>1
      <3> QED
        BY <3>1, <3>2
    <2> QED
      BY <1>3, <1>4, <2>1, <2>2, IntegerTexts
  <1>7. Unsign(text) = digits
    <2> DEFINE u == Unsign(text)
    <2>1. /\ u \in Seq(C) /\ Len(u) = Len(text) - g
          /\ \A i \in 1 .. Len(text) - g : u[i] = text[i + g]
      <3>1. /\ Unsign(text) \in Seq(C) /\ Len(Unsign(text)) = Len(text) - SignsOf(text)
            /\ \A i \in 1 .. Len(text) - SignsOf(text) : Unsign(text)[i] = text[i + SignsOf(text)]
        BY <1>3, Unsigning, Zenon
      <3> QED
        BY <1>4, <3>1
    <2> HIDE DEF u
    <2>2. Len(text) - g = Len(digits)
      BY <1>2, <1>3
    <2>3. Len(u) = Len(digits) /\ \A i \in 1 .. Len(digits) : u[i] = digits[i]
      BY <1>3, <2>1, <2>2
    <2>4. u = digits
      BY <1>2, <2>1, <2>3
    <2> QED
      BY <2>4 DEF u
  <1> QED
    BY <1>3, <1>5, <1>6, <1>7

\* An integer as a text is that integer.
LEMMA IntegerWritten ==
    ASSUME NEW n \in Int
    PROVE  /\ IntegerText(n) \in Seq(Digit \cup {"-"}) /\ IsInteger(IntegerText(n)) /\ IntegerIn(IntegerText(n)) = n
           /\ Minus(IntegerText(n)) <=> n < 0
  <1> DEFINE m == IF n < 0 THEN TRUE ELSE FALSE
             d == IF n = 0 THEN << "0" >> ELSE DigitsOf(Magnitude(n), 0)
             t == IntegerText(n)
  <1>1. m \in BOOLEAN /\ (m <=> n < 0)
    OBVIOUS
  <1>2. t = (IF m THEN << "-" >> ELSE << >>) \o d
    BY DEF IntegerText
  <1>3. Magnitude(n) \in Nat /\ (n # 0 => Magnitude(n) # 0) /\ n = IF n < 0 THEN -Magnitude(n) ELSE Magnitude(n)
    BY DEF Magnitude
  <1>4. d \in Seq(Digit) /\ d # << >> /\ ValueOf(d) = Magnitude(n)
    <2>1. CASE n # 0
      <3>1. d = DigitsOf(Magnitude(n), 0)
        BY <2>1
      <3> QED
        BY <1>3, <2>1, <3>1, DigitsBack
    <2>2. CASE n = 0
      <3>1. d = << "0" >> /\ Magnitude(n) = 0
        BY <2>2 DEF Magnitude
      <3> HIDE DEF d
      <3> QED
        BY <3>1, ZeroText, Zenon
    <2> QED
      BY <2>1, <2>2
  <1> HIDE DEF m, d, t
  <1>5. t \in Seq(Digit \cup {"-"}) /\ IsInteger(t) /\ Unsign(t) = d /\ (Minus(t) <=> m)
    BY <1>1, <1>2, <1>4, SignedTexts
  <1>6. IntegerIn(t) = IF Minus(t) THEN -ValueOf(d) ELSE ValueOf(d)
    BY <1>5, IntegerTexts
  <1>7. IntegerIn(t) = n
    BY <1>1, <1>3, <1>4, <1>5, <1>6
  <1> QED
    BY <1>1, <1>5, <1>7 DEF t

\* Which call is which.
LEMMA NumberCalls ==
    ASSUME ConversionCall
    PROVE  /\ call'.op = "integer" => ReadInteger
           /\ call'.op = "double" => ReadDouble
           /\ call'.op = "sent" => WriteInteger
           /\ call'.op = "numeric" => ReadNumeric
  <1>1. ReadDate => call'.op = "date"
    BY DEF ReadDate
  <1>2. ReadTime => call'.op = "time"
    BY DEF ReadTime
  <1>3. ReadDateTime => call'.op = "datetime"
    BY DEF ReadDateTime
  <1>4. WriteTimestamp => call'.op = "timestamp"
    BY DEF WriteTimestamp
  <1>5. ComputeYear => call'.op = "year"
    BY DEF ComputeYear
  <1>6. WriteText => call'.op = "write"
    BY DEF WriteText
  <1>7. ReadParameter => call'.op = "parameter"
    BY DEF ReadParameter
  <1>8. ReadInteger => call'.op = "integer"
    BY DEF ReadInteger
  <1>9. WriteInteger => call'.op = "sent"
    BY DEF WriteInteger
  <1>10. ReadDouble => call'.op = "double"
    BY DEF ReadDouble
  <1>11. ReadNumeric => call'.op = "numeric"
    BY DEF ReadNumeric
  <1> QED
    BY <1>1, <1>2, <1>3, <1>4, <1>5, <1>6, <1>7, <1>8, <1>9, <1>10, <1>11 DEF ConversionCall

\* Integers are read as what they are, if the type holds them, and come back.
LEMMA IntegersAreExact ==
    ASSUME ConversionCall
    PROVE  IntegersExact'
  <1>1. \A c \in DOMAIN IntegerOf : IntegerOf[c] \in Signed \cup Unsigned
    BY DEF IntegerOf, Signed, Unsigned
  <1>2. ASSUME call'.op = "integer", ~(call'.type \in Unsigned /\ Minus(call'.text))
        PROVE  call'.out =
                  IF IsInteger(call'.text) /\ IntegerIn(call'.text) \in Least(call'.type) .. Greatest(call'.type)
                  THEN IntegerIn(call'.text)
                  ELSE IF call'.text = << "true" >> THEN 1 ELSE IF call'.text = << "false" >> THEN 0 ELSE Error
    <2>1. PICK text \in NumberText, c \in DOMAIN IntegerOf :
             call' = [op |-> "integer", text |-> text, type |-> IntegerOf[c], out |-> ToInteger(text, IntegerOf[c])]
      BY <1>2, NumberCalls DEF ReadInteger
    <2>2. call'.text = text /\ call'.type = IntegerOf[c] /\ call'.out = ToInteger(text, IntegerOf[c])
      BY <2>1
    <2>3. text \in Seq(STRING)
      BY ConversionAssumption
    <2> QED
      BY <1>1, <1>2, <2>2, <2>3, IntegerRead
  <1>3. ASSUME call'.op = "double", IsInteger(call'.text), IntegerIn(call'.text) \in 0 .. Greatest("uint64")
        PROVE  call'.out = IntegerIn(call'.text)
    <2>1. PICK text \in NumberText : call' = [op |-> "double", text |-> text, out |-> ToDouble(text)]
      BY <1>3, NumberCalls DEF ReadDouble
    <2>2. call'.text = text /\ call'.out = ToDouble(text)
      BY <2>1
    <2>3. text \in Seq(STRING)
      BY ConversionAssumption
    <2> QED
      BY <1>3, <2>2, <2>3, DoubleRead
  <1>4. ASSUME call'.op = "sent", ~(call'.type \in Unsigned /\ call'.value < 0)
        PROVE  call'.back = IF call'.value \in Least(call'.type) .. Greatest(call'.type) THEN call'.value ELSE Error
    <2>1. PICK c \in DOMAIN IntegerOf, d \in DOMAIN IntegerOf :
             \E n \in {Least(IntegerOf[c]), -1, 0, 1, 10, Greatest(IntegerOf[c])} :
               /\ n \in Least(IntegerOf[c]) .. Greatest(IntegerOf[c])
               /\ call' = [op |-> "sent", value |-> n, type |-> IntegerOf[d], back |-> ToInteger(IntegerText(n), IntegerOf[d])]
      BY <1>4, NumberCalls, Zenon DEF WriteInteger
    <2>2. PICK n \in {Least(IntegerOf[c]), -1, 0, 1, 10, Greatest(IntegerOf[c])} :
               /\ n \in Least(IntegerOf[c]) .. Greatest(IntegerOf[c])
               /\ call' = [op |-> "sent", value |-> n, type |-> IntegerOf[d], back |-> ToInteger(IntegerText(n), IntegerOf[d])]
      BY <2>1, Zenon
    <2> DEFINE text == IntegerText(n)
               t    == IntegerOf[d]
    <2>3. call'.value = n /\ call'.type = t /\ call'.back = ToInteger(text, t)
      BY <2>2
    <2>4. n \in Int
      BY <2>2
    <2>5. text \in Seq(Digit \cup {"-"}) /\ IsInteger(text) /\ IntegerIn(text) = n /\ (Minus(text) <=> n < 0)
      BY <2>4, IntegerWritten
    <2>6. t \in Signed \cup Unsigned
      BY <1>1
    <2>7. text # << "true" >> /\ text # << "false" >>
      <3>1. ASSUME text = << "true" >> \/ text = << "false" >>
            PROVE  FALSE
        <4>1. Len(text) = 1 /\ text[1] \in {"true", "false"}
          BY <3>1
        <4>2. SignsOf(text) = 0 /\ 1 \in 0 + 1 .. Len(text)
          BY <4>1 DEF SignsOf
        <4>3. text[1] \notin Digit
          BY <4>1, DigitsAre
        <4> QED
          BY <2>5, <4>2, <4>3, IntegerTexts
      <3> QED
        BY <3>1
    <2> HIDE DEF text, t
    <2>8. ToInteger(text, t) =
              IF IsInteger(text) /\ IntegerIn(text) \in Least(t) .. Greatest(t)
              THEN IntegerIn(text)
              ELSE IF text = << "true" >> THEN 1 ELSE IF text = << "false" >> THEN 0 ELSE Error
      BY <1>4, <2>3, <2>5, <2>6, IntegerRead
    <2> QED
      BY <2>3, <2>5, <2>7, <2>8
  <1> QED
    BY <1>2, <1>3, <1>4 DEF IntegersExact

-----------------------------------------------------------------------------
(* Texts of decimals.                                                       *)

\* Behind the sign there are digits, and a point among them or, if q is
\* behind the text, none.
Pointed(text, q) ==
    /\ q \in SignsOf(text) + 1 .. Len(text) + 1
    /\ \A j \in SignsOf(text) + 1 .. Len(text) : IF j = q THEN text[j] = "." ELSE text[j] \in Digit

\* A text without its sign is another one if it has a sign.
LEMMA SignTaken ==
    ASSUME NEW C, NEW text \in Seq(C)
    PROVE  (Unsign(text) # text <=> SignsOf(text) = 1) /\ (text # Unsign(text) <=> SignsOf(text) = 1)
  <1>1. SignsOf(text) \in {0, 1} /\ Len(Unsign(text)) = Len(text) - SignsOf(text)
    BY Unsigning, Zenon
  <1>2. SignsOf(text) = 0 => Unsign(text) = text
    BY DEF SignsOf, Unsign
  <1>3. SignsOf(text) = 1 => Unsign(text) # text
    <2>1. ASSUME SignsOf(text) = 1, Unsign(text) = text
          PROVE  FALSE
      <3>1. Len(text) = Len(text) - 1 /\ Len(text) \in Nat
        BY <1>1, <2>1
      <3> QED
        BY <3>1
    <2> QED
      BY <2>1
  <1> QED
    BY <1>1, <1>2, <1>3

\* The text without its point, and where the point was.
LEMMA PointTaken ==
    ASSUME NEW C, NEW text \in Seq(C), NEW q, Pointed(text, q)
    PROVE  LET n == Len(text)
               x == IF q <= n THEN 1 ELSE 0
           IN  /\ Unpointed(text) \in Seq(C) /\ Len(Unpointed(text)) = n - x
               /\ \A i \in 1 .. n - x : Unpointed(text)[i] = text[IF i < q THEN i ELSE i + 1]
               /\ After(text) = IF q <= n THEN n - q ELSE 0
  <1> DEFINE n == Len(text)
             g == SignsOf(text)
             x == IF q <= n THEN 1 ELSE 0
             a == SubSeq(text, 1, q - 1)
             b == SubSeq(text, q + 1, n)
  <1>1. n \in Nat /\ g \in {0, 1} /\ g <= n
    <2>1. SignsOf(text) \in {0, 1} /\ SignsOf(text) <= Len(text)
      BY Unsigning, Zenon
    <2> QED
      BY <2>1
  <1>2. q \in g + 1 .. n + 1 /\ q \in Nat \ {0}
    BY <1>1 DEF Pointed
  <1>3. \A j \in g + 1 .. n : IF j = q THEN text[j] = "." ELSE text[j] \in Digit
    BY DEF Pointed
  <1>4. ASSUME NEW i \in 1 .. n, text[i] = "."
        PROVE  i = q
    <2>1. g # 0 => g = 1 /\ text[1] \in {"+", "-"}
      BY DEF SignsOf
    <2>2. i \in g + 1 .. n
      <3>1. ASSUME i < g + 1
            PROVE  FALSE
        <4>1. g = 1 /\ i = 1
          BY <1>1, <3>1
        <4> QED
          BY <1>4, <2>1, <4>1
      <3> QED
        BY <1>1, <3>1
    <2>3. "." \notin Digit
      BY DigitsAre
    <2> QED
      BY <1>3, <1>4, <2>2, <2>3
  <1>5. CASE q <= n
    <2>1. q \in 1 .. n /\ text[q] = "." /\ DOMAIN text = 1 .. n
      BY <1>1, <1>2, <1>3, <1>5
    <2>2. Contains(text, ".")
      BY <2>1 DEF Contains
    <2>3. PointIn(text) = q
      BY <1>4, <2>1 DEF PointIn
    <2>4. Unpointed(text) = a \o b /\ After(text) = n - q
      BY <2>2, <2>3 DEF Unpointed, After
    <2>5. a \in Seq(C) /\ Len(a) = q - 1 /\ \A i \in 1 .. q - 1 : a[i] = text[i]
      BY <1>2, <2>1
    <2>6. b \in Seq(C) /\ Len(b) = n - q /\ \A i \in 1 .. n - q : b[i] = text[q + i]
      <3>1. q + 1 \in 1 .. n + 1 /\ n \in (q + 1) - 1 .. n
        BY <1>1, <2>1
      <3>2. \A i \in 1 .. n - q : (q + 1) + i - 1 = q + i /\ n - (q + 1) + 1 = n - q
        BY <1>1, <2>1
      <3>3. /\ b \in Seq(C)
            /\ Len(b) = IF q + 1 <= n THEN n - (q + 1) + 1 ELSE 0
            /\ \A i \in 1 .. n - (q + 1) + 1 : b[i] = text[(q + 1) + i - 1]
        BY <3>1, SubSeqProperties
      <3>4. n \in Nat /\ q \in 1 .. n
        BY <1>1, <2>1
      <3>5. q \in Nat /\ q <= n
        BY <3>4
      <3> HIDE DEF b, n
      <3>6. (IF q + 1 <= n THEN n - (q + 1) + 1 ELSE 0) = n - q
        BY <3>4, <3>5
      <3>7. Len(b) = n - q
        BY <3>3, <3>6
      <3> QED
        BY <3>2, <3>3, <3>7
    <2> HIDE DEF a, b
    <2>7. a \o b \in Seq(C) /\ Len(a \o b) = n - 1
      <3>1. a \o b \in Seq(C) /\ Len(a \o b) = Len(a) + Len(b)
        BY <2>5, <2>6
      <3>2. (q - 1) + (n - q) = n - 1
        BY <1>1, <2>1
      <3> QED
        BY <2>5, <2>6, <3>1, <3>2
    <2>8. ASSUME NEW i \in 1 .. n - 1
          PROVE  (a \o b)[i] = text[IF i < q THEN i ELSE i + 1]
      <3>1. CASE i < q
        <4>1. i \in 1 .. Len(a)
          BY <2>1, <2>5, <3>1
        <4>2. (a \o b)[i] = a[i]
          BY <2>5, <2>6, <4>1
        <4> QED
          BY <2>5, <3>1, <4>1, <4>2
      <3>2. CASE ~(i < q)
        <4>1. i - Len(a) \in 1 .. n - q /\ q + (i - Len(a)) = i + 1 /\ i \in Len(a) + 1 .. Len(a) + Len(b)
          BY <2>1, <2>5, <2>6, <3>2
        <4>2. (a \o b)[i] = b[i - Len(a)]
          BY <2>5, <2>6, <4>1
        <4> QED
          BY <2>6, <3>2, <4>1, <4>2
      <3> QED
        BY <3>1, <3>2
    <2> QED
      BY <1>5, <2>4, <2>7, <2>8
  <1>6. CASE ~(q <= n)
    <2>1. q = n + 1
      BY <1>1, <1>2, <1>6
    <2>2. ~Contains(text, ".")
      <3>1. \A i \in 1 .. n : i # q
        BY <1>1, <2>1
      <3> QED
        BY <1>4, <3>1 DEF Contains
    <2>3. Unpointed(text) = text /\ After(text) = 0
      BY <2>2 DEF Unpointed, After
    <2>4. n - 0 = n /\ \A i \in 1 .. n : i < q
      BY <1>1, <2>1
    <2> QED
      BY <1>6, <2>3, <2>4
  <1> QED
    BY <1>5, <1>6

\* The digits of a decimal, where they are in the text.
LEMMA PointedDigits ==
    ASSUME NEW C, NEW text \in Seq(C), NEW q, Pointed(text, q)
    PROVE  LET n == Len(text)
               g == SignsOf(text)
               x == IF q <= n THEN 1 ELSE 0
               u == Unsign(Unpointed(text))
           IN  /\ u \in Seq(Digit) /\ Len(u) = n - g - x /\ n - g - x \in Nat
               /\ \A k \in 1 .. n - g - x : u[k] = text[IF k + g < q THEN k + g ELSE k + g + 1]
               /\ IsDecimal(text) <=> n - g - x > 0
               /\ IsDecimal(text) => Magnitude(IntegerIn(Unpointed(text))) = ValueOf(u)
  <1> DEFINE n == Len(text)
             g == SignsOf(text)
             x == IF q <= n THEN 1 ELSE 0
             s == Unpointed(text)
             u == Unsign(s)
  <1>1. n \in Nat /\ g \in {0, 1} /\ g <= n
    <2>1. SignsOf(text) \in {0, 1} /\ SignsOf(text) <= Len(text)
      BY Unsigning, Zenon
    <2> QED
      BY <2>1
  <1>2. q \in Nat /\ g + 1 <= q /\ q <= n + 1
    <2>1. q \in g + 1 .. n + 1
      BY DEF Pointed
    <2> QED
      BY <1>1, <2>1
  <1>3. \A j \in g + 1 .. n : IF j = q THEN text[j] = "." ELSE text[j] \in Digit
    BY DEF Pointed
  <1>4. /\ s \in Seq(C) /\ Len(s) = n - x
        /\ \A i \in 1 .. n - x : s[i] = text[IF i < q THEN i ELSE i + 1]
    BY PointTaken
  <1>5. g = 0 <=> ~(text # << >> /\ text[1] \in {"+", "-"})
    BY DEF SignsOf
  <1> HIDE DEF n, g, s
  <1>6. x \in {0, 1} /\ n - g - x \in Nat /\ (x = 1 <=> q <= n)
    BY <1>1, <1>2
  <1>7. SignsOf(s) = g
    <2>1. CASE g = 1
      <3>1. 1 \in 1 .. n - x /\ 1 < q
        BY <1>1, <1>2, <1>6, <2>1
      <3>2. s[1] = text[1] /\ s # << >>
        BY <1>4, <3>1
      <3>3. text[1] \in {"+", "-"}
        BY <1>5, <2>1
      <3> QED
        BY <2>1, <3>2, <3>3 DEF SignsOf
    <2>2. CASE g = 0
      <3>1. CASE n - x = 0
        <4>1. s = << >>
          BY <1>4, <3>1
        <4> QED
          BY <2>2, <4>1 DEF SignsOf
      <3>2. CASE n - x # 0
        <4> DEFINE j == IF 1 < q THEN 1 ELSE 1 + 1
        <4>1. 1 \in 1 .. n - x
          BY <1>1, <1>6, <3>2
        <4>2. s[1] = text[j]
          BY <1>4, <4>1
        <4>3. j \in g + 1 .. n /\ j # q
          BY <1>1, <1>2, <1>6, <2>2, <4>1
        <4> HIDE DEF j
        <4>4. s[1] \in Digit
          BY <1>3, <4>2, <4>3
        <4>5. s[1] \notin {"+", "-"}
          BY <4>4, DigitsAre
        <4> QED
          BY <2>2, <4>5 DEF SignsOf
      <3> QED
        BY <3>1, <3>2
    <2> QED
      BY <1>1, <2>1, <2>2
  <1>8. /\ u \in Seq(C) /\ Len(u) = n - x - g
        /\ \A i \in 1 .. n - x - g : u[i] = s[i + g]
    <2>1. /\ Unsign(s) \in Seq(C) /\ Len(Unsign(s)) = Len(s) - SignsOf(s)
          /\ \A i \in 1 .. Len(s) - SignsOf(s) : Unsign(s)[i] = s[i + SignsOf(s)]
      BY <1>4, Unsigning, Zenon
    <2> QED
      BY <1>4, <1>7, <2>1
  <1> HIDE DEF u
  <1>9. n - x - g = n - g - x
    BY <1>1, <1>6
  <1>10. ASSUME NEW k \in 1 .. n - g - x
         PROVE  u[k] = text[IF k + g < q THEN k + g ELSE k + g + 1] /\ u[k] \in Digit /\ s[k + g] = u[k]
    <2> DEFINE j == IF k + g < q THEN k + g ELSE k + g + 1
    <2>1. k + g \in 1 .. n - x /\ k \in 1 .. n - x - g
      BY <1>1, <1>6
    <2>2. u[k] = s[k + g]
      BY <1>8, <2>1
    <2>3. s[k + g] = text[j]
      BY <1>4, <2>1
    <2>4. j \in g + 1 .. n /\ j # q
      BY <1>1, <1>2, <1>6, <2>1
    <2> HIDE DEF j
    <2>5. text[j] \in Digit
      BY <1>3, <2>4
    <2> QED
      BY <2>2, <2>3, <2>5 DEF j
  <1>11. u \in Seq(Digit) /\ Len(u) = n - g - x
    <2>1. \A k \in 1 .. n - g - x : u[k] \in Digit
      BY <1>10
    <2>2. Len(u) = n - g - x
      BY <1>8, <1>9
    <2> QED
      BY <1>8, <2>1, <2>2
  <1>12. IsInteger(s) <=> n - g - x > 0
    <2>1. IsInteger(s) <=> u # << >> /\ ToSet(u) \subseteq Digit
      BY DEF IsInteger, u
    <2>2. ToSet(u) \subseteq Digit
      BY <1>11 DEF ToSet
    <2>3. u # << >> <=> Len(u) > 0
      BY <1>11
    <2> QED
      BY <1>11, <2>1, <2>2, <2>3
  <1>13. IsDecimal(text) <=> IsInteger(s)
    <2>1. Unsign(text) # text <=> g = 1
      BY SignTaken DEF g
    <2>2. s # Unsign(s) <=> g = 1
      BY <1>4, <1>7, SignTaken
    <2> QED
      BY <2>1, <2>2 DEF IsDecimal, s
  <1>14. IsInteger(s) => Magnitude(IntegerIn(s)) = ValueOf(u)
    <2>1. IsInteger(s) => ValueOf(Unsign(s)) = Magnitude(IntegerIn(s))
      BY <1>4, IntegerTexts, Zenon
    <2> QED
      BY <2>1 DEF u
  <1> QED
    BY <1>6, <1>10, <1>11, <1>12, <1>13, <1>14 DEF n, g, u, s

\* Every decimal is such a text.
LEMMA DecimalsPointed ==
    ASSUME NEW C, NEW text \in Seq(C), IsDecimal(text)
    PROVE  \E q : Pointed(text, q)
  <1> DEFINE n == Len(text)
             g == SignsOf(text)
             s == Unpointed(text)
  <1>1. n \in Nat /\ g \in {0, 1} /\ g <= n
    <2>1. SignsOf(text) \in {0, 1} /\ SignsOf(text) <= Len(text)
      BY Unsigning, Zenon
    <2> QED
      BY <2>1
  <1>2. IsInteger(s) /\ (Unsign(text) # text <=> s # Unsign(s))
    BY DEF IsDecimal
  <1>3. CASE ~Contains(text, ".")
    <2>1. s = text
      BY <1>3 DEF Unpointed
    <2>2. \A j \in g + 1 .. n : text[j] \in Digit
      <3>1. IsInteger(text) <=> /\ SignsOf(text) < Len(text)
                                /\ \A j \in SignsOf(text) + 1 .. Len(text) : text[j] \in Digit
        BY IntegerTexts, Zenon
      <3> QED
        BY <1>2, <2>1, <3>1
    <2>3. n + 1 \in g + 1 .. n + 1 /\ \A j \in g + 1 .. n : j # n + 1
      BY <1>1
    <2>4. Pointed(text, n + 1)
      BY <2>2, <2>3 DEF Pointed
    <2> QED
      BY <2>4
  <1>4. CASE Contains(text, ".")
    <2> DEFINE q == PointIn(text)
               a == SubSeq(text, 1, q - 1)
               b == SubSeq(text, q + 1, n)
    <2>1. q \in 1 .. n /\ text[q] = "."
      <3>1. \E i \in DOMAIN text : text[i] = "."
        BY <1>4 DEF Contains
      <3>2. q \in DOMAIN text /\ text[q] = "."
        BY <3>1, Zenon DEF PointIn
      <3> QED
        BY <3>2
    <2>2. s = a \o b
      BY <1>4 DEF Unpointed
    <2> HIDE DEF q, n
    <2>3. \A i \in 1 .. n : text[i] \in C
      BY DEF n
    <2>4. a \in Seq(C) /\ Len(a) = q - 1 /\ \A i \in 1 .. q - 1 : a[i] = text[i]
      <3>1. \A i \in 1 .. q - 1 : text[i] \in C
        BY <1>1, <2>1, <2>3
      <3>2. /\ a \in Seq(C) /\ Len(a) = IF 1 <= q - 1 THEN (q - 1) - 1 + 1 ELSE 0
            /\ \A i \in 1 .. (q - 1) - 1 + 1 : a[i] = text[1 + i - 1]
        BY <2>1, <3>1, SubSeqProperties
      <3> HIDE DEF a
      <3>3. (IF 1 <= q - 1 THEN (q - 1) - 1 + 1 ELSE 0) = q - 1 /\ (q - 1) - 1 + 1 = q - 1
        BY <2>1
      <3>4. \A i \in 1 .. q - 1 : 1 + i - 1 = i
        OBVIOUS
      <3> QED
        BY <3>2, <3>3, <3>4
    <2>5. b \in Seq(C) /\ Len(b) = n - q /\ \A i \in 1 .. n - q : b[i] = text[q + i]
      <3>1. \A i \in q + 1 .. n : text[i] \in C
        BY <1>1, <2>1, <2>3
      <3>2. /\ b \in Seq(C) /\ Len(b) = IF q + 1 <= n THEN n - (q + 1) + 1 ELSE 0
            /\ \A i \in 1 .. n - (q + 1) + 1 : b[i] = text[(q + 1) + i - 1]
        BY <1>1, <2>1, <3>1, SubSeqProperties, SMTT(30)
      <3> HIDE DEF b
      <3>3. (IF q + 1 <= n THEN n - (q + 1) + 1 ELSE 0) = n - q /\ n - (q + 1) + 1 = n - q
        BY <1>1, <2>1
      <3>4. \A i \in 1 .. n - q : (q + 1) + i - 1 = q + i
        BY <2>1
      <3> QED
        BY <3>2, <3>3, <3>4
    <2> HIDE DEF a, b
    <2>6. s \in Seq(C) /\ Len(s) = n - 1 /\ \A i \in 1 .. n - 1 : s[i] = IF i <= q - 1 THEN a[i] ELSE b[i - (q - 1)]
      <3>1. /\ s \in Seq(C) /\ Len(s) = Len(a) + Len(b)
            /\ \A i \in 1 .. Len(a) + Len(b) : s[i] = IF i <= Len(a) THEN a[i] ELSE b[i - Len(a)]
        BY <2>2, <2>4, <2>5, ConcatProperties
      <3>2. Len(a) + Len(b) = n - 1
        BY <1>1, <2>1, <2>4, <2>5
      <3> HIDE DEF s
      <3> QED
        BY <2>4, <3>1, <3>2
    <2> HIDE DEF s
    <2>7. \A i \in 1 .. n - 1 : (i < q => s[i] = text[i]) /\ (i >= q => s[i] = text[i + 1])
      <3>1. ASSUME NEW i \in 1 .. n - 1, i < q
            PROVE  s[i] = text[i]
        <4>1. i <= q - 1 /\ i \in 1 .. q - 1
          BY <2>1, <3>1
        <4> QED
          BY <2>4, <2>6, <4>1
      <3>2. ASSUME NEW i \in 1 .. n - 1, i >= q
            PROVE  s[i] = text[i + 1]
        <4>1. ~(i <= q - 1) /\ i - (q - 1) \in 1 .. n - q /\ q + (i - (q - 1)) = i + 1
          BY <1>1, <2>1, <3>2
        <4> QED
          BY <2>5, <2>6, <4>1
      <3> QED
        BY <3>1, <3>2
    <2>8. SignsOf(s) = g
      <3>1. Unsign(text) # text <=> g = 1
        BY SignTaken
      <3>2. s # Unsign(s) <=> SignsOf(s) = 1
        BY <2>6, SignTaken
      <3>3. SignsOf(s) \in {0, 1}
        BY DEF SignsOf
      <3> QED
        BY <1>1, <1>2, <3>1, <3>2, <3>3
    <2>9. \A j \in g + 1 .. n - 1 : s[j] \in Digit
      <3>1. IsInteger(s) <=> /\ SignsOf(s) < Len(s)
                             /\ \A j \in SignsOf(s) + 1 .. Len(s) : s[j] \in Digit
        BY <2>6, IntegerTexts, Zenon
      <3> QED
        BY <1>2, <2>6, <2>8, <3>1
    <2>10. q >= g + 1
      <3>1. g = 1 => text[1] \in {"+", "-"}
        BY DEF SignsOf
      <3>2. g = 1 => q # 1
        BY <2>1, <3>1
      <3> QED
        BY <1>1, <2>1, <3>2
    <2>11. ASSUME NEW j \in g + 1 .. n, j # q
           PROVE  text[j] \in Digit
      <3>1. CASE j < q
        <4>1. j \in g + 1 .. n - 1 /\ j \in 1 .. n - 1
          BY <1>1, <2>1, <3>1
        <4> QED
          BY <2>7, <2>9, <3>1, <4>1
      <3>2. CASE j > q
        <4>1. j - 1 \in g + 1 .. n - 1 /\ j - 1 \in 1 .. n - 1 /\ j - 1 >= q /\ (j - 1) + 1 = j
          BY <1>1, <2>1, <2>10, <3>2
        <4> QED
          BY <2>7, <2>9, <4>1
      <3> QED
        BY <1>1, <2>1, <2>11, <3>1, <3>2
    <2>12. q \in g + 1 .. n + 1
      BY <1>1, <2>1, <2>10
    <2>13. Pointed(text, q)
      BY <2>1, <2>11, <2>12 DEF Pointed, n
    <2> QED
      BY <2>13
  <1> QED
    BY <1>3, <1>4

\* What from_value<std::string> has read of a text of a decimal, character by
\* character.
ReadTo(f, text, n) == f = [i \in 0 .. n |-> IF i = 0 THEN NothingRead ELSE DecimalStep(f[i - 1], text[i])]

\* The function that is read by is there.
LEMMA ReadThere ==
    ASSUME NEW text, NEW k \in Nat
    PROVE  \E f : ReadTo(f, text, k)
  <1> DEFINE S == {n \in Nat : \E f : ReadTo(f, text, n)}
  <1>1. 0 \in S
    <2> DEFINE f == [i \in 0 .. 0 |-> NothingRead]
    <2>1. f = [i \in 0 .. 0 |-> IF i = 0 THEN NothingRead ELSE DecimalStep(f[i - 1], text[i])]
      OBVIOUS
    <2>2. ReadTo(f, text, 0)
      <3> HIDE DEF f
      <3> QED
        BY <2>1 DEF ReadTo
    <2> QED
      BY <2>2
  <1>2. ASSUME NEW n \in 0 .. k, n \in S, n < k
        PROVE  n + 1 \in S
    <2>1. PICK f : ReadTo(f, text, n)
      BY <1>2
    <2> DEFINE m == n + 1
               h == [i \in 0 .. m |-> IF i = m THEN DecimalStep(f[n], text[m]) ELSE f[i]]
               e(i) == IF i = 0 THEN NothingRead ELSE DecimalStep(h[i - 1], text[i])
    <2>2. n \in Nat /\ m \in Nat /\ m # 0 /\ m - 1 = n /\ n # m /\ n \in 0 .. m
      BY <1>2
    <2>3. ASSUME NEW i \in 0 .. m
          PROVE  h[i] = e(i)
      <3>1. CASE i = m
        <4>1. h[i] = DecimalStep(f[n], text[m])
          BY <3>1
        <4>2. h[n] = f[n]
          BY <2>2
        <4> HIDE DEF h
        <4> QED
          BY <2>2, <3>1, <4>1, <4>2
      <3>2. CASE i # m
        <4>1. i \in 0 .. n /\ h[i] = f[i]
          BY <2>2, <3>2
        <4>2. f[i] = IF i = 0 THEN NothingRead ELSE DecimalStep(f[i - 1], text[i])
          BY <2>1, <4>1 DEF ReadTo
        <4>3. i # 0 => h[i - 1] = f[i - 1]
          BY <2>2, <4>1
        <4> HIDE DEF h
        <4> QED
          BY <4>1, <4>2, <4>3
      <3> QED
        BY <3>1, <3>2
    <2>4. h = [i \in 0 .. m |-> e(i)]
      <3>1. h = [i \in 0 .. m |-> h[i]]
        OBVIOUS
      <3> HIDE DEF h
      <3> QED
        BY <2>3, <3>1
    <2>5. ReadTo(h, text, m)
      <3> HIDE DEF h
      <3> QED
        BY <2>4 DEF ReadTo
    <2> QED
      BY <2>2, <2>5
  <1> HIDE DEF S
  <1>3. \A n \in 0 .. k : n \in S
    BY <1>1, <1>2, Onward
  <1>4. k \in S
    BY <1>3
  <1> QED
    BY <1>4 DEF S

\* The turns ToDecimal makes of a text.
LEMMA DecimalUnfolds ==
    ASSUME NEW C, NEW text \in Seq(C)
    PROVE  \E f : /\ ReadTo(f, text, Len(text))
                  /\ ToDecimal(text) =
                        IF f[Len(text)] = Error THEN Error
                        ELSE [ value |-> f[Len(text)].value, minus |-> f[Len(text)].minus /\ f[Len(text)].value # 0,
                               precision |-> f[Len(text)].precision, scale |-> f[Len(text)].scale ]
  <1> DEFINE n == Len(text)
             f == CHOOSE f : ReadTo(f, text, n)
  <1>1. ReadTo(f, text, n)
    BY ReadThere
  <1>2. ToDecimal(text) =
           IF f[n] = Error THEN Error
           ELSE [value |-> f[n].value, minus |-> f[n].minus /\ f[n].value # 0, precision |-> f[n].precision, scale |-> f[n].scale]
    BY Zenon DEF ToDecimal, ReadTo
  <1> QED
    BY <1>1, <1>2

\* What is kept while a text is read.
Reading == [ value : Nat, minus : BOOLEAN, precision : Nat, scale : Nat,
             sign : BOOLEAN, dot : BOOLEAN, digit : BOOLEAN ]

\* One more character, of each kind.
LEMMA StepsAre ==
    ASSUME NEW d \in Reading, NEW c
    PROVE  /\ d # Error /\ DecimalStep(Error, c) = Error
           /\ c \in {"+", "-"} /\ ~d.sign /\ ~d.dot /\ ~d.digit =>
                 DecimalStep(d, c) = [d EXCEPT !.sign = TRUE, !.minus = (c = "-")]
           /\ c \in {"+", "-"} /\ (d.sign \/ d.dot \/ d.digit) => DecimalStep(d, c) = Error
           /\ c = "." /\ ~d.dot => DecimalStep(d, c) = [d EXCEPT !.dot = TRUE]
           /\ c = "." /\ d.dot => DecimalStep(d, c) = Error
           /\ c \in Digit => DecimalStep(d, c) =
                 IF 10 * d.value + DigitOf[c] <= DecimalMax
                 THEN [d EXCEPT !.value = 10 * d.value + DigitOf[c], !.digit = TRUE,
                                !.precision = d.precision + 1, !.scale = IF d.dot THEN d.scale + 1 ELSE d.scale]
                 ELSE Error
           /\ c \notin Digit \cup {"+", "-", "."} => DecimalStep(d, c) = Error
  <1> DEFINE A == c \in {"+", "-"} /\ ~d.sign /\ ~d.dot /\ ~d.digit
             B == c = "." /\ ~d.dot
             D == c \in Digit /\ DecimalMax \div 10 >= d.value /\ DecimalMax - DigitOf[c] >= d.value * 10
             a == [d EXCEPT !.sign = TRUE, !.minus = (c = "-")]
             b == [d EXCEPT !.dot = TRUE]
             e == [d EXCEPT !.value = 10 * d.value + DigitOf[c], !.digit = TRUE,
                            !.precision = d.precision + 1, !.scale = IF d.dot THEN d.scale + 1 ELSE d.scale]
  <1>1. d # Error
    BY ErrorAssumption DEF Reading
  <1>2. {"+", "-", "."} \cap Digit = {}
    BY DigitsAre
  <1>3. DecimalStep(d, c) = CASE A -> a [] B -> b [] D -> e [] OTHER -> Error
    BY <1>1 DEF DecimalStep
  <1>4. DecimalStep(Error, c) = Error
    BY DEF DecimalStep
  <1>5. ASSUME c \in Digit
        PROVE  D <=> 10 * d.value + DigitOf[c] <= DecimalMax
    <2> DEFINE v == d.value
               w == DigitOf[c]
    <2>1. v \in Nat
      BY DEF Reading
    <2>2. w \in 0 .. 9
      BY <1>5, DigitsAre
    <2>3. DecimalMax \in Int
      <3>1. DecimalBits \in Nat
        BY ConversionAssumption
      <3>2. Power(2, DecimalBits) \in Nat
        BY <3>1, PowerPositive
      <3> QED
        BY <3>2 DEF DecimalMax
    <2> HIDE DEF v, w
    <2>4. DecimalMax - w >= v * 10 <=> 10 * v + w <= DecimalMax
      BY <2>1, <2>2, <2>3
    <2>5. 10 * v + w <= DecimalMax => DecimalMax \div 10 >= v
      <3> DEFINE p == DecimalMax \div 10
                 r == DecimalMax % 10
      <3>1. p \in Int /\ r \in Nat /\ r < 10 /\ DecimalMax = 10 * p + r
        BY <2>3, Divided
      <3> HIDE DEF p, r
      <3>2. 10 * v + w <= DecimalMax => p >= v
        BY <2>1, <2>2, <2>3, <3>1
      <3> QED
        BY <3>2 DEF p
    <2> QED
      BY <1>5, <2>4, <2>5 DEF v, w
  <1> HIDE DEF a, b, e
  <1>6. A => ~B /\ ~D
    BY <1>2
  <1>7. B => ~A /\ ~D
    BY <1>2
  <1>8. D => ~A /\ ~B
    BY <1>2
  <1> HIDE DEF A, B, D
  <1>9. (A => DecimalStep(d, c) = a) /\ (B => DecimalStep(d, c) = b) /\ (D => DecimalStep(d, c) = e)
        /\ (~A /\ ~B /\ ~D => DecimalStep(d, c) = Error)
    BY <1>3, <1>6, <1>7, <1>8, Zenon
  <1>10. c \in {"+", "-"} /\ (d.sign \/ d.dot \/ d.digit) => ~A /\ ~B /\ ~D
    BY <1>2 DEF A, B, D
  <1>11. c = "." /\ d.dot => ~A /\ ~B /\ ~D
    BY <1>2 DEF A, B, D
  <1>12. c \notin Digit \cup {"+", "-", "."} => ~A /\ ~B /\ ~D
    BY <1>2 DEF A, B, D
  <1>13. c \in Digit => ~A /\ ~B
    BY <1>2 DEF A, B
  <1>14. (c \in {"+", "-"} /\ ~d.sign /\ ~d.dot /\ ~d.digit => A) /\ (c = "." /\ ~d.dot => B)
    BY DEF A, B
  <1>15. c \in Digit => DecimalStep(d, c) = IF 10 * d.value + DigitOf[c] <= DecimalMax THEN e ELSE Error
    BY <1>5, <1>9, <1>13, Zenon
  <1> QED
    BY <1>1, <1>4, <1>9, <1>10, <1>11, <1>12, <1>14, <1>15, Zenon DEF a, b, e

\* What has been read says of the characters so far, unless there was an error.
Says(text, i, d) ==
    /\ d \in Reading
    /\ i = 0 => d = NothingRead
    /\ i # 0 => d.sign \/ d.dot \/ d.digit
    /\ d.dot => \E q \in SignsOf(text) + 1 .. i :
                   text[q] = "." /\ \A j \in SignsOf(text) + 1 .. i : j # q => text[j] \in Digit
    /\ ~d.dot => \A j \in SignsOf(text) + 1 .. i : text[j] \in Digit

\* Only texts with at most one point, and a sign only before everything else, are read.
LEMMA ReadSays ==
    ASSUME NEW C, NEW text \in Seq(C), NEW f, ReadTo(f, text, Len(text))
    PROVE  \A i \in 0 .. Len(text) : f[i] = Error \/ Says(text, i, f[i])
  <1> DEFINE n == Len(text)
             g == SignsOf(text)
             S == {i \in Nat : f[i] = Error \/ Says(text, i, f[i])}
  <1>1. n \in Nat /\ g \in {0, 1} /\ g <= n
    <2>1. SignsOf(text) \in {0, 1} /\ SignsOf(text) <= Len(text)
      BY Unsigning, Zenon
    <2> QED
      BY <2>1
  <1>2. 0 \in S
    <2>1. 0 \in 0 .. n
      BY <1>1
    <2>2. f[0] = NothingRead
      BY <2>1 DEF ReadTo
    <2>3. NothingRead \in Reading /\ NothingRead.dot = FALSE
      BY DEF NothingRead, Reading
    <2>4. \A j \in g + 1 .. 0 : FALSE
      BY <1>1
    <2>5. Says(text, 0, NothingRead)
      BY <2>3, <2>4 DEF Says
    <2> QED
      BY <2>2, <2>5
  <1>3. ASSUME NEW i \in 0 .. n, i \in S, i < n
        PROVE  i + 1 \in S
    <2> DEFINE m == i + 1
               d == f[i]
               c == text[i + 1]
    <2>1. m \in 1 .. n /\ m \in 0 .. n /\ m # 0 /\ m - 1 = i /\ i \in Nat /\ m \in Nat
      BY <1>1, <1>3
    <2>2. f[m] = DecimalStep(d, c)
      BY <2>1 DEF ReadTo
    <2>3. CASE d = Error
      <3>1. f[m] = Error
        BY <2>2, <2>3 DEF DecimalStep
      <3> QED
        BY <2>1, <3>1
    <2>4. CASE Says(text, i, d)
      <3>1. d \in Reading
        BY <2>4 DEF Says
      <3>2. /\ d.dot => \E q \in g + 1 .. i : text[q] = "." /\ \A j \in g + 1 .. i : j # q => text[j] \in Digit
            /\ ~d.dot => \A j \in g + 1 .. i : text[j] \in Digit
        BY <2>4 DEF Says
      <3>3. \A j \in g + 1 .. m : j = m \/ j \in g + 1 .. i
        BY <1>1, <2>1
      <3>4. \A j \in g + 1 .. i : j \in g + 1 .. m /\ j # m
        BY <1>1, <2>1
      <3>5. {"+", "-", "."} \cap Digit = {}
        BY DigitsAre
      <3>6. CASE c \in {"+", "-"} /\ ~d.sign /\ ~d.dot /\ ~d.digit
        <4> DEFINE e == [d EXCEPT !.sign = TRUE, !.minus = (c = "-")]
        <4>1. f[m] = e
          BY <2>2, <3>1, <3>6, StepsAre
        <4>2. i = 0
          BY <2>4, <3>6 DEF Says
        <4>3. e \in Reading /\ e.sign = TRUE /\ e.dot = d.dot
          BY <3>1 DEF Reading
        <4>4. g = 1
          BY <1>1, <2>1, <3>6, <4>2 DEF SignsOf
        <4>5. \A j \in g + 1 .. m : FALSE
          BY <2>1, <4>2, <4>4
        <4> HIDE DEF e
        <4>6. Says(text, m, e)
          BY <2>1, <3>6, <4>3, <4>5 DEF Says
        <4> QED
          BY <2>1, <4>1, <4>6
      <3>7. CASE c = "." /\ ~d.dot
        <4> DEFINE e == [d EXCEPT !.dot = TRUE]
        <4>1. f[m] = e
          BY <2>2, <3>1, <3>7, StepsAre
        <4>2. e \in Reading /\ e.dot = TRUE
          BY <3>1 DEF Reading
        <4>3. m \in g + 1 .. m
          <5>1. ASSUME g = 1, m = 1
                PROVE  FALSE
            <6>1. text[1] \in {"+", "-"}
              BY <5>1 DEF SignsOf
            <6> QED
              BY <3>7, <5>1, <6>1
          <5> QED
            BY <1>1, <2>1, <5>1
        <4>4. text[m] = "." /\ \A j \in g + 1 .. m : j # m => text[j] \in Digit
          BY <3>2, <3>3, <3>7
        <4> HIDE DEF e
        <4>5. Says(text, m, e)
          BY <2>1, <4>2, <4>3, <4>4 DEF Says
        <4> QED
          BY <2>1, <4>1, <4>5
      <3>8. CASE c \in Digit
        <4> DEFINE e == [d EXCEPT !.value = 10 * d.value + DigitOf[c], !.digit = TRUE,
                                  !.precision = d.precision + 1, !.scale = IF d.dot THEN d.scale + 1 ELSE d.scale]
        <4>1. f[m] = e \/ f[m] = Error
          <5>1. DecimalStep(d, c) = IF 10 * d.value + DigitOf[c] <= DecimalMax THEN e ELSE Error
            BY <3>1, <3>8, StepsAre, Zenon
          <5> HIDE DEF e
          <5> QED
            BY <2>2, <5>1
        <4>2. e \in Reading /\ e.dot = d.dot /\ e.digit = TRUE
          <5>1. DigitOf[c] \in 0 .. 9
            BY <3>8, DigitsAre
          <5>2. 10 * d.value + DigitOf[c] \in Nat /\ d.precision + 1 \in Nat
            <6>1. d.value \in Nat /\ d.precision \in Nat
              BY <3>1 DEF Reading
            <6> DEFINE v == d.value
                       w == DigitOf[c]
                       p == d.precision
            <6>2. v \in Nat /\ w \in 0 .. 9 /\ p \in Nat
              BY <5>1, <6>1
            <6> HIDE DEF v, w, p
            <6>3. 10 * v + w \in Nat /\ p + 1 \in Nat
              BY <6>2
            <6> QED
              BY <6>3 DEF v, w, p
          <5>3. (IF d.dot THEN d.scale + 1 ELSE d.scale) \in Nat
            BY <3>1 DEF Reading
          <5> QED
            BY <3>1, <5>2, <5>3 DEF Reading
        <4> HIDE DEF e
        <4>3. e.dot => \E q \in g + 1 .. m : text[q] = "." /\ \A j \in g + 1 .. m : j # q => text[j] \in Digit
          <5>1. ASSUME d.dot
                PROVE  \E q \in g + 1 .. m : text[q] = "." /\ \A j \in g + 1 .. m : j # q => text[j] \in Digit
            <6>1. PICK q \in g + 1 .. i : text[q] = "." /\ \A j \in g + 1 .. i : j # q => text[j] \in Digit
              BY <3>2, <5>1
            <6>2. q \in g + 1 .. m
              BY <3>4, <6>1
            <6>3. \A j \in g + 1 .. m : j # q => text[j] \in Digit
              BY <3>3, <3>8, <6>1
            <6> QED
              BY <6>1, <6>2, <6>3
          <5> QED
            BY <4>2, <5>1
        <4>4. ~e.dot => \A j \in g + 1 .. m : text[j] \in Digit
          BY <3>2, <3>3, <3>8, <4>2
        <4>5. Says(text, m, e)
          BY <2>1, <4>2, <4>3, <4>4 DEF Says
        <4> QED
          BY <2>1, <4>1, <4>5
      <3>9. CASE ~(c \in {"+", "-"} /\ ~d.sign /\ ~d.dot /\ ~d.digit) /\ ~(c = "." /\ ~d.dot) /\ c \notin Digit
        <4>1. f[m] = Error
          BY <2>2, <3>1, <3>9, StepsAre
        <4> QED
          BY <2>1, <4>1
      <3> QED
        BY <3>6, <3>7, <3>8, <3>9
    <2> QED
      BY <1>3, <2>3, <2>4
  <1> HIDE DEF S
  <1>4. \A i \in 0 .. n : i \in S
    BY <1>1, <1>2, <1>3, Onward
  <1> QED
    BY <1>4 DEF S

\* A text with a digit that is no decimal is an error.
LEMMA OthersRefused ==
    ASSUME NEW C, NEW text \in Seq(C), ~IsDecimal(text), ToSet(text) \cap Digit # {}
    PROVE  ToDecimal(text) = Error
  <1> DEFINE n == Len(text)
             g == SignsOf(text)
  <1>1. n \in Nat /\ g \in {0, 1} /\ g <= n
    <2>1. SignsOf(text) \in {0, 1} /\ SignsOf(text) <= Len(text)
      BY Unsigning, Zenon
    <2> QED
      BY <2>1
  <1>2. PICK f : /\ ReadTo(f, text, n)
                 /\ ToDecimal(text) =
                       IF f[n] = Error THEN Error
                       ELSE [value |-> f[n].value, minus |-> f[n].minus /\ f[n].value # 0,
                             precision |-> f[n].precision, scale |-> f[n].scale]
    BY DecimalUnfolds, Zenon
  <1>3. ASSUME f[n] # Error
        PROVE  FALSE
    <2>1. Says(text, n, f[n])
      <3>1. n \in 0 .. n
        BY <1>1
      <3> QED
        BY <1>2, <1>3, <3>1, ReadSays
    <2>2. PICK q : Pointed(text, q)
      <3>1. CASE f[n].dot
        <4>1. PICK q \in g + 1 .. n : text[q] = "." /\ \A j \in g + 1 .. n : j # q => text[j] \in Digit
          BY <2>1, <3>1 DEF Says
        <4>2. q \in g + 1 .. n + 1
          BY <1>1
        <4>3. Pointed(text, q)
          BY <4>1, <4>2 DEF Pointed
        <4> QED
          BY <4>3
      <3>2. CASE ~f[n].dot
        <4>1. \A j \in g + 1 .. n : text[j] \in Digit
          BY <2>1, <3>2 DEF Says
        <4>2. n + 1 \in g + 1 .. n + 1 /\ \A j \in g + 1 .. n : j # n + 1
          BY <1>1
        <4>3. Pointed(text, n + 1)
          BY <4>1, <4>2 DEF Pointed
        <4> QED
          BY <4>3
      <3> QED
        BY <3>1, <3>2
    <2> DEFINE x == IF q <= n THEN 1 ELSE 0
    <2>3. IsDecimal(text) <=> n - g - x > 0
      BY <2>2, PointedDigits
    <2>4. PICK j \in 1 .. n : text[j] \in Digit
      <3>1. DOMAIN text = 1 .. n
        OBVIOUS
      <3> QED
        BY <3>1 DEF ToSet
    <2>5. j # q
      <3>1. j = q => text[j] = "." \/ j < g + 1
        BY <1>1, <2>2 DEF Pointed
      <3>2. "." \notin Digit /\ q >= g + 1
        BY <1>1, <2>2, DigitsAre DEF Pointed
      <3> QED
        BY <1>1, <2>4, <3>1, <3>2
    <2>6. j >= g + 1
      <3>1. ASSUME g = 1, j = 1
            PROVE  FALSE
        <4>1. text[1] \in {"+", "-"}
          BY <3>1 DEF SignsOf
        <4>2. {"+", "-"} \cap Digit = {}
          BY DigitsAre
        <4> QED
          BY <2>4, <3>1, <4>1, <4>2
      <3> QED
        BY <1>1, <2>4, <3>1
    <2>7. q \in g + 1 .. n + 1
      BY <2>2 DEF Pointed
    <2> HIDE DEF n, g
    <2>8. n - g - x > 0
      BY <1>1, <2>4, <2>5, <2>6, <2>7
    <2> QED
      BY <2>3, <2>8
  <1> QED
    BY <1>2, <1>3

\* The largest integer inside a Decimal.
LEMMA DecimalMaxIs == DecimalMax \in Nat /\ Power(2, DecimalBits) = DecimalMax + 1
  <1>1. DecimalBits \in Nat
    BY ConversionAssumption
  <1>2. Power(2, DecimalBits) \in Nat /\ Power(2, DecimalBits) > 0
    BY <1>1, PowerPositive
  <1> QED
    BY <1>2 DEF DecimalMax

\* What has been read where the first k digits have the value v: all of it, or
\* an error if the integer does not hold the value.
DigitsRead(text, v, k, scale, dot) ==
    IF v <= DecimalMax
    THEN [ value |-> v, minus |-> Minus(text), precision |-> k, scale |-> scale,
           sign |-> SignsOf(text) = 1, dot |-> dot, digit |-> k > 0 ]
    ELSE Error

\* Changes of a record of what has been read.
DigitOn(d, v, k, p) == [d EXCEPT !.value = v, !.digit = TRUE, !.precision = k, !.scale = p]
SignOn(d, x)        == [d EXCEPT !.sign = TRUE, !.minus = x]

\* What a digit changes of the state of ToDecimal.
LEMMA DigitAdded ==
    ASSUME NEW v, NEW m, NEW k, NEW p, NEW s, NEW dot, NEW digit, NEW v2, NEW k2, NEW p2
    PROVE  DigitOn([value |-> v, minus |-> m, precision |-> k, scale |-> p, sign |-> s, dot |-> dot, digit |-> digit], v2, k2, p2) =
              [value |-> v2, minus |-> m, precision |-> k2, scale |-> p2, sign |-> s, dot |-> dot, digit |-> TRUE]
  <1> DEFINE d == [value |-> v, minus |-> m, precision |-> k, scale |-> p, sign |-> s, dot |-> dot, digit |-> digit]
             e == [d EXCEPT !.value = v2, !.digit = TRUE, !.precision = k2, !.scale = p2]
  <1>1. e.value = v2 /\ e.minus = m /\ e.precision = k2 /\ e.scale = p2 /\ e.sign = s /\ e.dot = dot /\ e.digit = TRUE
    OBVIOUS
  <1>2. DOMAIN e = {"value", "minus", "precision", "scale", "sign", "dot", "digit"} /\ e = [i \in DOMAIN e |-> e[i]]
    OBVIOUS
  <1> HIDE DEF e
  <1>3. e = [value |-> v2, minus |-> m, precision |-> k2, scale |-> p2, sign |-> s, dot |-> dot, digit |-> TRUE]
    BY <1>1, <1>2
  <1> QED
    BY <1>3 DEF e, d, DigitOn

\* What a point changes of it.
LEMMA PointAdded ==
    ASSUME NEW v, NEW m, NEW k, NEW p, NEW s, NEW dot, NEW digit, NEW d,
           d = [value |-> v, minus |-> m, precision |-> k, scale |-> p, sign |-> s, dot |-> dot, digit |-> digit]
    PROVE  [d EXCEPT !.dot = TRUE] =
              [value |-> v, minus |-> m, precision |-> k, scale |-> p, sign |-> s, dot |-> TRUE, digit |-> digit]
  <1> DEFINE e == [d EXCEPT !.dot = TRUE]
  <1>1. e.value = v /\ e.minus = m /\ e.precision = k /\ e.scale = p /\ e.sign = s /\ e.dot = TRUE /\ e.digit = digit
    OBVIOUS
  <1>2. DOMAIN e = {"value", "minus", "precision", "scale", "sign", "dot", "digit"} /\ e = [i \in DOMAIN e |-> e[i]]
    OBVIOUS
  <1> HIDE DEF e
  <1>3. e = [value |-> v, minus |-> m, precision |-> k, scale |-> p, sign |-> s, dot |-> TRUE, digit |-> digit]
    BY <1>1, <1>2
  <1> QED
    BY <1>3 DEF e

\* What a sign changes of it.
LEMMA SignAdded ==
    ASSUME NEW x
    PROVE  SignOn(NothingRead, x) =
              [value |-> 0, minus |-> x, precision |-> 0, scale |-> 0, sign |-> TRUE, dot |-> FALSE, digit |-> FALSE]
  <1> DEFINE e == [NothingRead EXCEPT !.sign = TRUE, !.minus = x]
  <1>1. e.value = 0 /\ e.minus = x /\ e.precision = 0 /\ e.scale = 0 /\ e.sign = TRUE /\ e.dot = FALSE /\ e.digit = FALSE
    BY DEF NothingRead
  <1>2. DOMAIN e = {"value", "minus", "precision", "scale", "sign", "dot", "digit"} /\ e = [i \in DOMAIN e |-> e[i]]
    BY DEF NothingRead
  <1> HIDE DEF e
  <1>3. e = [value |-> 0, minus |-> x, precision |-> 0, scale |-> 0, sign |-> TRUE, dot |-> FALSE, digit |-> FALSE]
    BY <1>1, <1>2
  <1> QED
    BY <1>3 DEF e, SignOn

\* One more digit,
LEMMA DigitRead ==
    ASSUME NEW text, NEW v \in Nat, NEW k \in Nat, NEW scale \in Nat, NEW dot \in BOOLEAN, NEW c \in Digit
    PROVE  DecimalStep(DigitsRead(text, v, k, scale, dot), c) =
              DigitsRead(text, 10 * v + DigitOf[c], k + 1, IF dot THEN scale + 1 ELSE scale, dot)
  <1> DEFINE d == [ value |-> v, minus |-> Minus(text), precision |-> k, scale |-> scale,
                    sign |-> SignsOf(text) = 1, dot |-> dot, digit |-> k > 0 ]
             w == DigitOf[c]
             e == [ value |-> 10 * v + w, minus |-> Minus(text), precision |-> k + 1, scale |-> IF dot THEN scale + 1 ELSE scale,
                    sign |-> SignsOf(text) = 1, dot |-> dot, digit |-> TRUE ]
  <1>1. w \in 0 .. 9
    BY DigitsAre
  <1>2. d \in Reading
    BY DEF Reading, Minus
  <1>3. d.value = v /\ d.dot = dot /\ d.precision = k /\ d.scale = scale
    OBVIOUS
  <1>4. [d EXCEPT !.value = 10 * d.value + DigitOf[c], !.digit = TRUE,
                  !.precision = d.precision + 1, !.scale = IF d.dot THEN d.scale + 1 ELSE d.scale] = e
    <2>1. d = [ value |-> v, minus |-> Minus(text), precision |-> k, scale |-> scale,
                sign |-> SignsOf(text) = 1, dot |-> dot, digit |-> k > 0 ]
      OBVIOUS
    <2> DEFINE v2 == 10 * d.value + DigitOf[c]
               k2 == d.precision + 1
               p2 == IF d.dot THEN d.scale + 1 ELSE d.scale
               s  == SignsOf(text) = 1
               z  == k > 0
               m  == Minus(text)
    <2>2. v2 = 10 * v + w /\ k2 = k + 1 /\ p2 = IF dot THEN scale + 1 ELSE scale
      BY <1>3, Zenon
    <2>3. d = [value |-> v, minus |-> m, precision |-> k, scale |-> scale, sign |-> s, dot |-> dot, digit |-> z]
      BY <2>1, Zenon
    <2> HIDE DEF d, v2, k2, p2, s, z, m
    <2>4. DigitOn(d, v2, k2, p2) =
             [value |-> v2, minus |-> m, precision |-> k2, scale |-> p2, sign |-> s, dot |-> dot, digit |-> TRUE]
      BY <2>3, DigitAdded
    <2>5. e = [value |-> v2, minus |-> m, precision |-> k2, scale |-> p2, sign |-> s, dot |-> dot, digit |-> TRUE]
      BY <2>2, Zenon DEF m, s
    <2> QED
      BY <2>4, <2>5, Zenon DEF v2, k2, p2, DigitOn
  <1>5. DecimalStep(d, c) = IF 10 * d.value + DigitOf[c] <= DecimalMax
                            THEN [d EXCEPT !.value = 10 * d.value + DigitOf[c], !.digit = TRUE,
                                           !.precision = d.precision + 1, !.scale = IF d.dot THEN d.scale + 1 ELSE d.scale]
                            ELSE Error
    BY <1>2, StepsAre, Zenon
  <1>6. DecimalStep(d, c) = IF 10 * v + w <= DecimalMax THEN e ELSE Error
    BY <1>3, <1>4, <1>5, Zenon
  <1>7. DecimalStep(Error, c) = Error
    BY DEF DecimalStep
  <1>8. v <= 10 * v + w
    <2> HIDE DEF w
    <2> QED
      BY <1>1
  <1>9. (k + 1 > 0) = TRUE
    OBVIOUS
  <1>10. DigitsRead(text, 10 * v + w, k + 1, IF dot THEN scale + 1 ELSE scale, dot) =
            IF 10 * v + w <= DecimalMax THEN e ELSE Error
    BY <1>9, Zenon DEF DigitsRead
  <1>11. DigitsRead(text, v, k, scale, dot) = IF v <= DecimalMax THEN d ELSE Error
    BY Zenon DEF DigitsRead
  <1>12. v > DecimalMax => ~(10 * v + w <= DecimalMax)
    <2> HIDE DEF w
    <2> QED
      BY <1>1, <1>8, DecimalMaxIs
  <1> HIDE DEF d, e, w
  <1>13. CASE v <= DecimalMax
    BY <1>6, <1>10, <1>11, <1>13 DEF w
  <1>14. CASE ~(v <= DecimalMax)
    <2>1. v > DecimalMax
      BY <1>14, DecimalMaxIs
    <2> QED
      BY <1>7, <1>10, <1>11, <1>12, <1>14, <2>1 DEF w
  <1> QED
    BY <1>13, <1>14

\* the point,
LEMMA PointRead ==
    ASSUME NEW text, NEW v \in Nat, NEW k \in Nat, NEW scale \in Nat
    PROVE  DecimalStep(DigitsRead(text, v, k, scale, FALSE), ".") = DigitsRead(text, v, k, scale, TRUE)
  <1> DEFINE d(b) == [ value |-> v, minus |-> Minus(text), precision |-> k, scale |-> scale,
                       sign |-> SignsOf(text) = 1, dot |-> b, digit |-> k > 0 ]
  <1>1. d(FALSE) \in Reading /\ d(FALSE).dot = FALSE
    BY DEF Reading, Minus
  <1>2. DecimalStep(d(FALSE), ".") = [d(FALSE) EXCEPT !.dot = TRUE]
    BY <1>1, StepsAre
  <1>3. [d(FALSE) EXCEPT !.dot = TRUE] = d(TRUE)
    <2> DEFINE a == d(FALSE)
    <2>1. a = [ value |-> v, minus |-> Minus(text), precision |-> k, scale |-> scale,
                sign |-> SignsOf(text) = 1, dot |-> FALSE, digit |-> k > 0 ]
      OBVIOUS
    <2> HIDE DEF a
    <2>2. [a EXCEPT !.dot = TRUE] =
             [ value |-> v, minus |-> Minus(text), precision |-> k, scale |-> scale,
               sign |-> SignsOf(text) = 1, dot |-> TRUE, digit |-> k > 0 ]
      BY <2>1, PointAdded
    <2> QED
      BY <2>2, Zenon DEF a
  <1>4. DecimalStep(Error, ".") = Error
    BY DEF DecimalStep
  <1>5. \A b : DigitsRead(text, v, k, scale, b) = IF v <= DecimalMax THEN d(b) ELSE Error
    BY Zenon DEF DigitsRead
  <1> HIDE DEF d
  <1> QED
    BY <1>2, <1>3, <1>4, <1>5

\* and the sign.
LEMMA SignRead ==
    ASSUME NEW text
    PROVE  /\ SignsOf(text) = 0 => NothingRead = DigitsRead(text, 0, 0, 0, FALSE)
           /\ SignsOf(text) = 1 => DecimalStep(NothingRead, text[1]) = DigitsRead(text, 0, 0, 0, FALSE)
  <1>1. 0 <= DecimalMax
    BY DecimalMaxIs
  <1>2. DigitsRead(text, 0, 0, 0, FALSE) =
           [ value |-> 0, minus |-> Minus(text), precision |-> 0, scale |-> 0,
             sign |-> SignsOf(text) = 1, dot |-> FALSE, digit |-> 0 > 0 ]
    BY <1>1, Zenon DEF DigitsRead
  <1>3. (0 > 0) = FALSE
    OBVIOUS
  <1>4. ASSUME SignsOf(text) = 0
        PROVE  NothingRead = DigitsRead(text, 0, 0, 0, FALSE)
    <2>1. Minus(text) = FALSE
      BY <1>4 DEF SignsOf, Minus
    <2>2. (SignsOf(text) = 1) = FALSE
      BY <1>4
    <2> QED
      BY <1>2, <1>3, <2>1, <2>2 DEF NothingRead
  <1>5. ASSUME SignsOf(text) = 1
        PROVE  DecimalStep(NothingRead, text[1]) = DigitsRead(text, 0, 0, 0, FALSE)
    <2> DEFINE c == text[1]
    <2>1. c \in {"+", "-"} /\ text # << >>
      BY <1>5 DEF SignsOf
    <2>2. Minus(text) = (c = "-")
      BY <2>1 DEF Minus
    <2>3. (SignsOf(text) = 1) = TRUE
      BY <1>5
    <2>4. NothingRead \in Reading /\ ~NothingRead.sign /\ ~NothingRead.dot /\ ~NothingRead.digit
      BY DEF NothingRead, Reading
    <2>5. DecimalStep(NothingRead, c) = [NothingRead EXCEPT !.sign = TRUE, !.minus = (c = "-")]
      BY <2>1, <2>4, StepsAre, Zenon
    <2> HIDE DEF c
    <2>6. [NothingRead EXCEPT !.sign = TRUE, !.minus = (c = "-")] =
             [value |-> 0, minus |-> (c = "-"), precision |-> 0, scale |-> 0, sign |-> TRUE, dot |-> FALSE, digit |-> FALSE]
      <3> DEFINE x == (c = "-")
      <3> HIDE DEF x
      <3>2. SignOn(NothingRead, x) =
               [value |-> 0, minus |-> x, precision |-> 0, scale |-> 0, sign |-> TRUE, dot |-> FALSE, digit |-> FALSE]
        BY SignAdded, Zenon
      <3> QED
        BY <3>2, Zenon DEF x, SignOn
    <2> QED
      BY <1>2, <1>3, <2>2, <2>3, <2>5, <2>6, Zenon DEF c
  <1> QED
    BY <1>4, <1>5

\* A decimal is read as its value and the digits behind the point, if the
\* integer holds the value.
LEMMA DecimalRead ==
    ASSUME NEW C, NEW text \in Seq(C), NEW q, Pointed(text, q)
    PROVE  LET u == Unsign(Unpointed(text))
           IN  ToDecimal(text) =
                  IF ValueOf(u) <= DecimalMax
                  THEN [value |-> ValueOf(u), minus |-> Minus(text) /\ ValueOf(u) # 0, precision |-> Len(u), scale |-> After(text)]
                  ELSE Error
  <1> DEFINE n == Len(text)
             g == SignsOf(text)
             u == Unsign(Unpointed(text))
             x == IF q <= n THEN 1 ELSE 0
             c(i)   == i - g - (IF i >= q THEN 1 ELSE 0)
             sc(i)  == IF i >= q THEN i - q ELSE 0
             dot(i) == IF i >= q THEN TRUE ELSE FALSE
             N(k)   == ValueOf(SubSeq(u, 1, k))
             closed(i) == DigitsRead(text, N(c(i)), c(i), sc(i), dot(i))
  <1>1. n \in Nat /\ g \in {0, 1} /\ g <= n
    <2>1. SignsOf(text) \in {0, 1} /\ SignsOf(text) <= Len(text)
      BY Unsigning, Zenon
    <2> QED
      BY <2>1
  <1>2. q \in Nat /\ g + 1 <= q /\ q <= n + 1
    <2>1. q \in g + 1 .. n + 1
      BY DEF Pointed
    <2> QED
      BY <1>1, <2>1
  <1>3. \A j \in g + 1 .. n : IF j = q THEN text[j] = "." ELSE text[j] \in Digit
    BY DEF Pointed
  <1>4. /\ u \in Seq(Digit) /\ Len(u) = n - g - x /\ n - g - x \in Nat
        /\ \A k \in 1 .. n - g - x : u[k] = text[IF k + g < q THEN k + g ELSE k + g + 1]
    BY PointedDigits
  <1>5. After(text) = IF q <= n THEN n - q ELSE 0
    BY PointTaken
  <1>6. PICK f : /\ ReadTo(f, text, n)
                 /\ ToDecimal(text) =
                       IF f[n] = Error THEN Error
                       ELSE [value |-> f[n].value, minus |-> f[n].minus /\ f[n].value # 0,
                             precision |-> f[n].precision, scale |-> f[n].scale]
    BY DecimalUnfolds, Zenon
  <1> HIDE DEF n, g, u
  <1>7. ASSUME NEW i \in g .. n
        PROVE  c(i) \in 0 .. Len(u) /\ c(i) \in Nat /\ sc(i) \in Nat /\ dot(i) \in BOOLEAN /\ N(c(i)) \in Nat
    <2>1. c(i) \in 0 .. Len(u) /\ c(i) \in Nat /\ sc(i) \in Nat
      BY <1>1, <1>2, <1>4
    <2>2. N(c(i)) \in Nat
      <3> HIDE DEF c
      <3> QED
        BY <1>4, <2>1, ValueWithin
    <2> QED
      BY <2>1, <2>2
  <1> DEFINE S == {i \in Nat : i >= g => f[i] = closed(i)}
  <1>8. f[0] = NothingRead
    <2>1. 0 \in 0 .. n
      BY <1>1
    <2> QED
      BY <1>6, <2>1 DEF ReadTo
  <1>9. closed(g) = DigitsRead(text, 0, 0, 0, FALSE)
    <2>1. c(g) = 0 /\ sc(g) = 0 /\ dot(g) = FALSE
      <3>1. ~(g >= q) /\ g - g - 0 = 0
        BY <1>1, <1>2
      <3> QED
        BY <3>1, Zenon
    <2>2. N(0) = 0
      BY <1>4, ValueMore
    <2> HIDE DEF c, sc, dot, N
    <2> QED
      BY <2>1, <2>2
  <1>10. 0 \in S
    <2>1. ASSUME 0 >= g
          PROVE  f[0] = closed(0)
      <3>1. g = 0
        BY <1>1, <2>1
      <3>2. NothingRead = DigitsRead(text, 0, 0, 0, FALSE)
        BY <3>1, SignRead DEF g
      <3> HIDE DEF closed
      <3> QED
        BY <1>8, <1>9, <3>1, <3>2
    <2> HIDE DEF closed
    <2> QED
      BY <2>1
  <1>11. ASSUME NEW i \in 0 .. n, i \in S, i < n
         PROVE  i + 1 \in S
    <2> DEFINE m == i + 1
    <2>1. m \in 1 .. n /\ m \in 0 .. n /\ m # 0 /\ m - 1 = i /\ i \in Nat /\ m \in Nat
      BY <1>1, <1>11
    <2>2. f[m] = DecimalStep(f[i], text[m])
      BY <1>6, <2>1 DEF ReadTo
    <2>3. CASE m < g
      BY <1>1, <2>1, <2>3
    <2>4. CASE m = g
      <3>1. g = 1 /\ i = 0 /\ m = 1
        BY <1>1, <2>1, <2>4
      <3>2. DecimalStep(NothingRead, text[1]) = DigitsRead(text, 0, 0, 0, FALSE)
        BY <3>1, SignRead DEF g
      <3> HIDE DEF closed
      <3>3. f[m] = closed(m)
        BY <1>8, <1>9, <2>2, <3>1, <3>2
      <3> QED
        BY <2>1, <3>3
    <2>5. CASE m > g
      <3>1. i \in g .. n /\ m \in g .. n /\ i >= g /\ m \in g + 1 .. n
        BY <1>1, <2>1, <2>5
      <3>2. f[i] = closed(i)
        BY <1>11, <3>1
      <3>3. c(i) \in Nat /\ c(i) \in 0 .. Len(u) /\ sc(i) \in Nat /\ dot(i) \in BOOLEAN /\ N(c(i)) \in Nat
        BY <1>7, <3>1
      <3>4. CASE m = q
        <4>1. text[m] = "."
          BY <1>3, <3>1, <3>4
        <4>2. c(m) = c(i) /\ sc(m) = sc(i) /\ dot(i) = FALSE /\ dot(m) = TRUE
          BY <1>1, <1>2, <2>1, <3>4
        <4> HIDE DEF c, sc, dot, N
        <4>3. DecimalStep(DigitsRead(text, N(c(i)), c(i), sc(i), FALSE), ".") = DigitsRead(text, N(c(i)), c(i), sc(i), TRUE)
          BY <3>3, PointRead
        <4>4. f[m] = closed(m)
          BY <2>2, <3>2, <4>1, <4>2, <4>3
        <4> HIDE DEF closed
        <4> QED
          BY <2>1, <4>4
      <3>5. CASE m # q
        <4> DEFINE k == c(i) + 1
        <4>1. text[m] \in Digit
          BY <1>3, <3>1, <3>5
        <4>2. c(m) = c(i) + 1 /\ sc(m) = (IF dot(i) THEN sc(i) + 1 ELSE sc(i)) /\ dot(m) = dot(i)
          BY <1>1, <1>2, <2>1, <3>5
        <4>3. k \in 1 .. n - g - x /\ m = (IF k + g < q THEN k + g ELSE k + g + 1) /\ c(i) < Len(u)
          BY <1>1, <1>2, <1>4, <2>1, <3>1, <3>5
        <4>4. u[k] = text[m]
          <5> HIDE DEF k, m, x
          <5> QED
            BY <1>4, <4>3
        <4> HIDE DEF c, sc, dot
        <4>5. N(c(i) + 1) = 10 * N(c(i)) + DigitOf[u[c(i) + 1]]
          BY <1>4, <3>3, <4>3, ValueMore
        <4> HIDE DEF N
        <4>6. DecimalStep(DigitsRead(text, N(c(i)), c(i), sc(i), dot(i)), text[m]) =
                 DigitsRead(text, 10 * N(c(i)) + DigitOf[text[m]], c(i) + 1, IF dot(i) THEN sc(i) + 1 ELSE sc(i), dot(i))
          <5> DEFINE N0 == N(c(i))
                     k0 == c(i)
                     s0 == sc(i)
                     d0 == dot(i)
                     c0 == text[m]
          <5>1. N0 \in Nat /\ k0 \in Nat /\ s0 \in Nat /\ d0 \in BOOLEAN /\ c0 \in Digit
            BY <3>3, <4>1
          <5> HIDE DEF N0, k0, s0, d0, c0
          <5>2. DecimalStep(DigitsRead(text, N0, k0, s0, d0), c0) =
                   DigitsRead(text, 10 * N0 + DigitOf[c0], k0 + 1, IF d0 THEN s0 + 1 ELSE s0, d0)
            BY <5>1, DigitRead
          <5> QED
            BY <5>2, Zenon DEF N0, k0, s0, d0, c0
        <4>7. f[m] = closed(m)
          BY <2>2, <3>2, <4>2, <4>4, <4>5, <4>6, Zenon
        <4> HIDE DEF closed
        <4> QED
          BY <2>1, <4>7
      <3> QED
        BY <3>4, <3>5
    <2>6. m < g \/ m = g \/ m > g
      BY <1>1, <2>1
    <2> HIDE DEF S
    <2> QED
      BY <2>3, <2>4, <2>5, <2>6
  <1> HIDE DEF S
  <1>12. n \in S
    <2>1. \A i \in 0 .. n : i \in S
      BY <1>1, <1>10, <1>11, Onward
    <2> QED
      BY <1>1, <2>1
  <1>13. f[n] = closed(n)
    BY <1>1, <1>12 DEF S
  <1>14. c(n) = Len(u) /\ sc(n) = After(text)
    BY <1>1, <1>2, <1>4, <1>5
  <1>15. N(Len(u)) = ValueOf(u)
    <2>1. SubSeq(u, 1, Len(u)) = u
      BY <1>4
    <2> QED
      BY <2>1
  <1> DEFINE v == ValueOf(u)
             d == [ value |-> v, minus |-> Minus(text), precision |-> Len(u), scale |-> After(text),
                    sign |-> SignsOf(text) = 1, dot |-> dot(n), digit |-> Len(u) > 0 ]
  <1>16. f[n] = IF v <= DecimalMax THEN d ELSE Error
    <2> HIDE DEF c, sc, dot, N
    <2>1. f[n] = DigitsRead(text, v, Len(u), After(text), dot(n))
      BY <1>13, <1>14, <1>15
    <2> QED
      BY <2>1, Zenon DEF DigitsRead
  <1>17. d # Error
    <2>1. d \in Reading
      <3>1. n \in g .. n
        BY <1>1
      <3>2. c(n) \in Nat /\ sc(n) \in Nat /\ dot(n) \in BOOLEAN /\ N(c(n)) \in Nat
        BY <1>7, <3>1
      <3>3. v \in Nat /\ Len(u) \in Nat /\ After(text) \in Nat
        BY <1>14, <1>15, <3>2
      <3> HIDE DEF v, dot
      <3> QED
        BY <3>2, <3>3 DEF Reading, Minus
    <2> QED
      BY <2>1, ErrorAssumption DEF Reading
  <1>18. d.value = v /\ d.minus = Minus(text) /\ d.precision = Len(u) /\ d.scale = After(text)
    OBVIOUS
  <1> HIDE DEF d, v, dot
  <1>19. ToDecimal(text) = IF v <= DecimalMax
                           THEN [value |-> v, minus |-> Minus(text) /\ v # 0, precision |-> Len(u), scale |-> After(text)]
                           ELSE Error
    <2>1. CASE v <= DecimalMax
      <3>1. f[n] = d /\ f[n] # Error
        BY <1>16, <1>17, <2>1
      <3> QED
        BY <1>6, <1>18, <2>1, <3>1, Zenon
    <2>2. CASE ~(v <= DecimalMax)
      BY <1>6, <1>16, <2>2
    <2> QED
      BY <2>1, <2>2
  <1> QED
    BY <1>19 DEF v, u

-----------------------------------------------------------------------------
(* Decimals as values of an SQL_NUMERIC_STRUCT.                             *)

\* To another scale, a number stays a natural one, and zero stays zero.
LEMMA CutIs ==
    ASSUME NEW n \in Nat, NEW from \in Nat, NEW to \in Int
    PROVE  Cut(n, from, to) \in Nat /\ (Cut(n, from, to) # 0 => n # 0) /\ (to = from => Cut(n, from, to) = n)
  <1>1. \A k \in Nat : Power(10, k) \in Nat /\ Power(10, k) > 0
    BY PowerPositive
  <1>2. Power(10, 0) = 1
    BY PowerSteps
  <1>3. CASE to >= from
    <2> DEFINE t == Power(10, to - from)
    <2>1. to - from \in Nat /\ (to = from => to - from = 0)
      BY <1>3
    <2>2. t \in Nat /\ (to = from => t = 1)
      BY <1>1, <1>2, <2>1
    <2>3. Cut(n, from, to) = n * t
      BY <1>3 DEF Cut, TenTo
    <2> HIDE DEF t
    <2>4. n * t \in Nat /\ (n = 0 => n * t = 0) /\ (t = 1 => n * t = n)
      <3>1. n * t \in Nat
        BY <2>2, Multiplied
      <3> QED
        BY <2>2, <3>1
    <2> QED
      BY <2>2, <2>3, <2>4
  <1>4. CASE ~(to >= from)
    <2> DEFINE t == Power(10, from - to)
    <2>1. from - to \in Nat
      BY <1>4
    <2>2. t \in Nat /\ t > 0
      BY <1>1, <2>1
    <2>3. Cut(n, from, to) = n \div t
      BY <1>4 DEF Cut, TenTo
    <2> HIDE DEF t
    <2>4. n \div t \in Nat /\ (n = 0 => n \div t = 0)
      BY <2>2
    <2> QED
      BY <1>4, <2>3, <2>4
  <1> QED
    BY <1>3, <1>4

\* The value of a decimal of another scale.
LEMMA RescaledIs ==
    ASSUME NEW n \in Nat, NEW minus \in BOOLEAN, NEW len \in Nat, NEW from \in Nat, NEW to \in Int
    PROVE  Rescaled([value |-> n, minus |-> minus, precision |-> len, scale |-> from], to) =
              IF Cut(n, from, to) > DecimalMax THEN Error
              ELSE [value |-> Cut(n, from, to), minus |-> minus, precision |-> len, scale |-> to]
  <1> DEFINE d == [value |-> n, minus |-> minus, precision |-> len, scale |-> from]
             v == IF to <= from THEN n \div TenTo(from - to) ELSE n * TenTo(to - from)
  <1>1. d.value = n /\ d.scale = from
    OBVIOUS
  <1>2. Rescaled(d, to) = IF v > DecimalMax THEN Error ELSE [d EXCEPT !.value = v, !.scale = to]
    BY <1>1, Zenon DEF Rescaled
  <1>3. v = Cut(n, from, to)
    <2>1. CASE to = from
      <3>1. v = n \div TenTo(from - to) /\ from - to = 0 /\ TenTo(0) = 1
        BY <2>1, PowerSteps DEF TenTo
      <3>2. n \div TenTo(from - to) = n
        BY <3>1
      <3> QED
        BY <2>1, <3>1, <3>2, CutIs
    <2>2. CASE to < from
      BY <2>2 DEF Cut
    <2>3. CASE to > from
      BY <2>3 DEF Cut
    <2> QED
      BY <2>1, <2>2, <2>3
  <1> HIDE DEF v
  <1>4. [d EXCEPT !.value = v, !.scale = to] = [value |-> v, minus |-> minus, precision |-> len, scale |-> to]
    <2> DEFINE e == [d EXCEPT !.value = v, !.scale = to]
    <2>1. e.value = v /\ e.minus = minus /\ e.precision = len /\ e.scale = to
      OBVIOUS
    <2>2. DOMAIN e = {"value", "minus", "precision", "scale"} /\ e = [i \in DOMAIN e |-> e[i]]
      OBVIOUS
    <2> HIDE DEF e
    <2>3. e = [value |-> v, minus |-> minus, precision |-> len, scale |-> to]
      BY <2>1, <2>2
    <2> QED
      BY <2>3 DEF e
  <1> QED
    BY <1>2, <1>3, <1>4

\* An SQL_NUMERIC_STRUCT has the bytes of the number to the scale asked for,
\* and every number of the precision asked for that the integer holds has one.
LEMMA NumericIs ==
    ASSUME NEW n \in Nat, NEW minus \in BOOLEAN, NEW len \in Nat, n < TenTo(len), NEW from \in Nat,
           NEW precision \in Nat, NEW scale \in Int,
           NEW d, d = [value |-> n, minus |-> minus, precision |-> len, scale |-> from]
    PROVE  LET p == IF precision = 0 THEN len ELSE precision
               s == IF precision = 0 THEN from ELSE scale
               e == Cut(n, from, s)
               num == ToNumeric(d, precision, scale)
           IN  /\ num # Error => e <= DecimalMax /\ num = [precision |-> p, scale |-> s, minus |-> minus, val |-> BytesOf(e)]
               /\ e <= DecimalMax /\ precision >= scale /\ (precision # 0 => e < TenTo(precision)) => num # Error
  <1> DEFINE p   == IF precision = 0 THEN len ELSE precision
             s   == IF precision = 0 THEN from ELSE scale
             e   == Cut(n, from, s)
             val == BytesOf(e)
             num == ToNumeric(d, precision, scale)
             r   == Rescaled(d, s)
             x   == [precision |-> p, scale |-> s, minus |-> minus, val |-> val]
  <1>1. d.value = n /\ d.minus = minus /\ d.precision = len /\ d.scale = from
    OBVIOUS
  <1>2. p \in Nat /\ s \in Int
    OBVIOUS
  <1>3. e \in Nat
    BY <1>2, CutIs
  <1>4. r = IF e > DecimalMax THEN Error ELSE [value |-> e, minus |-> minus, precision |-> len, scale |-> s]
    BY <1>2, RescaledIs
  <1>5. e <= DecimalMax => r # Error /\ r.value = e
    <2>1. [value |-> e, minus |-> minus, precision |-> len, scale |-> s] # Error
      BY <1>2, <1>3, ErrorAssumption
    <2>2. e <= DecimalMax => ~(e > DecimalMax)
      BY <1>3, DecimalMaxIs
    <2> HIDE DEF e, s
    <2> QED
      BY <1>4, <2>1, <2>2
  <1>6. e > DecimalMax => r = Error
    BY <1>4
  <1>7. DecimalMax \in Nat /\ (e <= DecimalMax \/ e > DecimalMax)
    BY <1>3, DecimalMaxIs
  <1>8. num = IF precision < scale \/ r = Error THEN Error
              ELSE IF Len(BytesOf(r.value)) > ValLength \/ Len(BytesOf(r.value)) > p + 1 THEN Error
              ELSE [precision |-> p, scale |-> s, minus |-> minus, val |-> BytesOf(r.value)]
    BY <1>1, Zenon DEF ToNumeric
  <1>9. Len(val) = Places(e, Byte) /\ val \in Seq(Nat)
    BY <1>3, BytesAre
  <1>10. x # Error
    <2> HIDE DEF val, p, s
    <2> QED
      BY <1>2, <1>9, ErrorAssumption
  <1>11. Byte \in Nat /\ Byte >= 10 /\ Byte >= 2
    BY ConversionAssumption
  <1>12. ASSUME e <= DecimalMax
         PROVE  Len(val) <= ValLength
    <2>1. DecimalMax < Power(2, DecimalBits) /\ Power(Byte, ValLength) >= Power(2, DecimalBits) /\ ValLength \in Nat
      BY DecimalMaxIs, ConversionAssumption
    <2>2. Power(2, DecimalBits) \in Nat /\ Power(Byte, ValLength) \in Nat
      <3>1. \A k \in Nat : Power(Byte, k) \in Nat
        <4>1. Byte > 0
          BY <1>11
        <4> QED
          BY <1>11, <4>1, PowerPositive
      <3> QED
        BY <2>1, <3>1, DecimalMaxIs
    <2>3. e < Power(Byte, ValLength)
      <3> HIDE DEF e
      <3> QED
        BY <1>3, <1>7, <1>12, <2>1, <2>2
    <2> HIDE DEF e
    <2>4. Places(e, Byte) <= ValLength
      BY <1>3, <1>11, <2>1, <2>3, PlacesFew
    <2> QED
      BY <1>9, <2>4
  <1>13. ASSUME precision # 0 => e < TenTo(precision)
         PROVE  ~(Len(val) > p + 1)
    <2>1. e < Power(10, p)
      <3>1. CASE precision = 0
        <4>1. e = n /\ p = len
          BY <3>1, CutIs
        <4> QED
          BY <4>1 DEF TenTo
      <3>2. CASE precision # 0
        BY <1>13, <3>2 DEF TenTo
      <3> QED
        BY <3>1, <3>2
    <2> HIDE DEF p, e
    <2>2. Power(10, p) <= Power(Byte, p) /\ Power(10, p) \in Nat /\ Power(Byte, p) \in Nat
      <3>1. Power(10, p) <= Power(Byte, p)
        BY <1>2, <1>11, PowerLarger
      <3>2. Power(10, p) \in Nat
        BY <1>2, PowerPositive
      <3>3. Power(Byte, p) \in Nat
        <4>1. Byte > 0
          BY <1>11
        <4> QED
          BY <1>2, <1>11, <4>1, PowerPositive
      <3> QED
        BY <3>1, <3>2, <3>3
    <2>3. e < Power(Byte, p)
      BY <1>3, <2>1, <2>2
    <2>4. Places(e, Byte) <= p
      BY <1>2, <1>3, <1>11, <2>3, PlacesFew
    <2>5. Places(e, Byte) \in Nat
      BY <1>3, <1>11, PlacesAre
    <2> QED
      BY <1>2, <1>9, <2>4, <2>5
  <1> HIDE DEF e, p, s, r
  <1>14. ASSUME num # Error
         PROVE  e <= DecimalMax /\ num = x
    <2>1. r # Error
      BY <1>8, <1>14, Zenon
    <2>2. e <= DecimalMax
      BY <1>6, <1>7, <2>1
    <2>3. r.value = e
      BY <1>5, <2>2
    <2> QED
      BY <1>8, <1>14, <2>2, <2>3, Zenon
  <1>15. ASSUME e <= DecimalMax, precision >= scale, precision # 0 => e < TenTo(precision)
         PROVE  num # Error
    <2>1. ~(precision < scale) /\ r # Error /\ r.value = e
      BY <1>5, <1>15
    <2>2. ~(Len(val) > ValLength) /\ ~(Len(val) > p + 1)
      <3>1. Len(val) <= ValLength /\ Len(val) \in Nat /\ ValLength \in Nat
        BY <1>9, <1>12, <1>15, ConversionAssumption
      <3> HIDE DEF val
      <3> QED
        BY <1>13, <1>15, <3>1
    <2>3. num = x
      BY <1>8, <2>1, <2>2, Zenon
    <2> QED
      BY <1>10, <2>3
  <1> QED
    BY <1>14, <1>15 DEF e, p, s

\* One more byte, as from_value<SQL_NUMERIC_STRUCT> adds it.
ByteAdded(n, b) ==
    IF n = Error \/ DecimalMax \div Byte < n \/ DecimalMax - b < n * Byte THEN Error ELSE n * Byte + b

\* What has been read of bytes, from the highest one.
BytesTo(g, val, size) ==
    g = [i \in 0 .. size |-> IF i = 0 THEN 0 ELSE ByteAdded(g[i - 1], val[size + 1 - i])]

\* A byte is added if the integer holds the number with it.
LEMMA BytesAdded ==
    ASSUME NEW n \in Nat, NEW b \in Nat, Byte * n + b <= DecimalMax
    PROVE  ByteAdded(n, b) = Byte * n + b
  <1>1. Byte \in Nat /\ Byte > 0 /\ DecimalMax \in Nat
    BY ConversionAssumption, DecimalMaxIs
  <1> DEFINE w == Byte * n
             m == DecimalMax
  <1>2. w \in Nat /\ n * Byte = w
    <2>1. w \in Nat
      BY <1>1, Multiplied
    <2>2. n * Byte = w
      BY <1>1
    <2> QED
      BY <2>1, <2>2
  <1>3. n # Error
    BY ErrorAssumption
  <1>4. ~(m - b < w) /\ w <= m
    <2> HIDE DEF w, m
    <2>1. m \in Nat
      BY <1>1 DEF m
    <2>2. w + b <= m
      BY DEF w, m
    <2> QED
      BY <1>2, <2>1, <2>2
  <1>5. ~(m \div Byte < n)
    <2>1. m \in Nat
      BY <1>1
    <2> HIDE DEF m
    <2>2. /\ m \div Byte \in Int /\ m % Byte \in Int /\ m % Byte < Byte
          /\ m = Byte * (m \div Byte) + (m % Byte)
      BY <1>1, <2>1, Divided
    <2> DEFINE q == m \div Byte
               r == m % Byte
    <2>3. ASSUME q < n
          PROVE  FALSE
      <3>1. q \in Nat
        BY <1>1, <2>1
      <3>2. q \in Int /\ r \in Int /\ r < Byte /\ m = Byte * q + r
        BY <2>2
      <3> HIDE DEF q, r
      <3>3. q + 1 \in Nat /\ q + 1 <= n
        BY <2>3, <3>1
      <3>4. Byte * (q + 1) <= Byte * n
        BY <1>1, <3>3, Multiplied
      <3>5. Byte * (q + 1) = Byte * q + Byte
        BY <1>1, <3>1
      <3>6. Byte * q \in Nat
        BY <1>1, <3>1, Multiplied
      <3> DEFINE y == Byte * q
      <3>7. y \in Nat /\ y + Byte <= w /\ m = y + r /\ w <= m
        BY <1>4, <3>2, <3>4, <3>5, <3>6
      <3> HIDE DEF w, y
      <3> QED
        BY <1>1, <1>2, <2>1, <3>2, <3>7
    <2>4. q \in Int
      BY <2>2
    <2> HIDE DEF q
    <2>5. ~(q < n)
      BY <2>3
    <2> QED
      BY <2>5 DEF q
  <1> QED
    BY <1>2, <1>3, <1>4, <1>5, Zenon DEF ByteAdded

\* The higher bytes of a value are the value of fewer bytes.
LEMMA HigherBytes ==
    ASSUME NEW v \in Nat, v <= DecimalMax
    PROVE  LET k == Places(v, Byte)
           IN  /\ k \in Nat /\ v \div Power(Byte, k) = 0 /\ v \div Power(Byte, 0) = v
               /\ \A i \in 1 .. k : ByteAdded(v \div Power(Byte, k - (i - 1)), BytesOf(v)[k + 1 - i]) = v \div Power(Byte, k - i)
  <1> DEFINE k == Places(v, Byte)
  <1>1. Byte \in Nat /\ Byte > 0 /\ Byte >= 2 /\ DecimalMax \in Nat
    BY ConversionAssumption, DecimalMaxIs
  <1>2. k \in Nat /\ v < Power(Byte, k)
    BY <1>1, PlacesAre
  <1> HIDE DEF k
  <1>3. \A i \in Nat : Power(Byte, i) \in Nat /\ Power(Byte, i) > 0
    BY <1>1, PowerPositive
  <1>4. v \div Power(Byte, k) = 0
    <2> DEFINE t == Power(Byte, k)
    <2>1. t \in Nat /\ t > 0 /\ v < t
      BY <1>2, <1>3
    <2> HIDE DEF t
    <2>2. v = t * 0 + v
      BY <2>1
    <2>3. v \div t = 0
      BY <2>1, <2>2, DividedOnce
    <2> QED
      BY <2>3 DEF t
  <1>5. v \div Power(Byte, 0) = v
    <2>1. Power(Byte, 0) = 1
      BY <1>1, PowerSteps
    <2> QED
      BY <2>1
  <1>6. ASSUME NEW i \in 1 .. k
        PROVE  ByteAdded(v \div Power(Byte, k - (i - 1)), BytesOf(v)[k + 1 - i]) = v \div Power(Byte, k - i)
    <2> DEFINE j == k - i
               t == Power(Byte, j)
               q == v \div t
               a == q \div Byte
               b == q % Byte
    <2>1. j \in Nat /\ k - (i - 1) = j + 1 /\ k + 1 - i = j + 1 /\ j + 1 \in 1 .. k /\ (j + 1) - 1 = j
      BY <1>2
    <2>2. t \in Nat /\ t > 0
      BY <1>3, <2>1
    <2>3. Power(Byte, j + 1) = t * Byte
      <3>1. Power(Byte, j + 1) = Byte * t
        <4> HIDE DEF j
        <4> QED
          BY <1>1, <2>1, PowerSteps
      <3> HIDE DEF t
      <3> QED
        BY <1>1, <2>2, <3>1
    <2>4. BytesOf(v)[j + 1] = b
      <3>1. BytesOf(v) = [m \in 1 .. k |-> (v \div Power(Byte, m - 1)) % Byte]
        BY DEF BytesOf, k
      <3> HIDE DEF j
      <3> QED
        BY <2>1, <3>1
    <2> HIDE DEF t, j
    <2>5. v \div (t * Byte) = a
      BY <1>1, <2>2, DividedTwice
    <2>6. q \in Nat /\ q <= v
      <3>1. v = t * q + (v % t) /\ v % t \in Nat /\ q \in Int
        BY <2>2, Divided
      <3>2. q \in Nat
        BY <2>2
      <3> DEFINE r == v % t
      <3>3. v = t * q + r /\ r \in Nat
        BY <3>1
      <3> HIDE DEF q, r
      <3>4. 1 * q <= t * q /\ t * q \in Nat /\ 1 * q = q
        <4>1. 1 * q <= t * q /\ t * q \in Nat
          BY <2>2, <3>2, Multiplied
        <4> QED
          BY <3>2, <4>1
      <3> DEFINE w == t * q
      <3>5. q <= w /\ w \in Nat /\ v = w + r
        BY <3>3, <3>4
      <3> HIDE DEF w
      <3> QED
        BY <3>2, <3>3, <3>5
    <2> HIDE DEF q
    <2>7. a \in Nat /\ b \in Nat /\ q = Byte * a + b
      <3>1. a \in Nat
        BY <1>1, <2>6
      <3> QED
        BY <1>1, <2>6, <3>1, Divided
    <2> HIDE DEF a, b
    <2>8. Byte * a + b <= DecimalMax
      <3>1. q <= DecimalMax
        <4> DEFINE m == DecimalMax
        <4>1. m \in Nat /\ v <= m
          BY <1>1
        <4> HIDE DEF m
        <4>2. q <= m
          BY <2>6, <4>1
        <4> QED
          BY <4>2 DEF m
      <3> QED
        BY <2>7, <3>1
    <2>9. ByteAdded(a, b) = q
      BY <2>7, <2>8, BytesAdded
    <2>10. v \div Power(Byte, k - (i - 1)) = a /\ BytesOf(v)[k + 1 - i] = b /\ v \div Power(Byte, k - i) = q
      BY <2>1, <2>3, <2>4, <2>5 DEF q, t, j
    <2> QED
      BY <2>9, <2>10
  <1> QED
    BY <1>2, <1>4, <1>5, <1>6 DEF k

\* The bytes of a value are read as the value.
LEMMA NumericRead ==
    ASSUME NEW v \in Nat, v <= DecimalMax, NEW p, NEW s, NEW minus,
           NEW num, num = [precision |-> p, scale |-> s, minus |-> minus, val |-> BytesOf(v)]
    PROVE  FromNumeric(num, p, s) = [value |-> v, minus |-> minus, precision |-> p, scale |-> s]
  <1> DEFINE k   == Places(v, Byte)
             val == BytesOf(v)
             w(i) == v \div Power(Byte, k - i)
             g   == CHOOSE g : BytesTo(g, val, k)
             h   == [i \in 0 .. k |-> w(i)]
  <1>1. /\ k \in Nat /\ v \div Power(Byte, k) = 0 /\ v \div Power(Byte, 0) = v
        /\ \A i \in 1 .. k : ByteAdded(v \div Power(Byte, k - (i - 1)), val[k + 1 - i]) = v \div Power(Byte, k - i)
    BY HigherBytes
  <1>2. Len(val) = k
    BY BytesAre
  <1> HIDE DEF k, val
  <1>3. w(0) = 0 /\ w(k) = v /\ \A i \in 1 .. k : ByteAdded(w(i - 1), val[k + 1 - i]) = w(i)
    <2>1. k - 0 = k /\ k - k = 0
      BY <1>1
    <2> QED
      BY <1>1, <2>1
  <1> HIDE DEF w
  <1>4. \E x : BytesTo(x, val, k)
    <2>1. \A i \in 0 .. k : i # 0 => i \in 1 .. k /\ i - 1 \in 0 .. k
      BY <1>1
    <2>2. \A i \in 0 .. k : h[i] = IF i = 0 THEN 0 ELSE ByteAdded(h[i - 1], val[k + 1 - i])
      BY <1>3, <2>1
    <2>3. h = [i \in 0 .. k |-> h[i]]
      OBVIOUS
    <2> HIDE DEF h
    <2>4. h = [i \in 0 .. k |-> IF i = 0 THEN 0 ELSE ByteAdded(h[i - 1], val[k + 1 - i])]
      BY <2>2, <2>3
    <2> QED
      BY <2>4 DEF BytesTo
  <1>5. BytesTo(g, val, k)
    BY <1>4
  <1>6. FromNumeric(num, p, s) =
           IF g[k] = Error THEN Error ELSE [value |-> g[k], minus |-> minus, precision |-> p, scale |-> s]
    <2>1. num.val = val /\ num.minus = minus /\ Len(num.val) = k
      BY <1>2 DEF val
    <2>2. FromNumeric(num, p, s) =
             LET x == CHOOSE x : BytesTo(x, num.val, Len(num.val))
             IN  IF x[Len(num.val)] = Error THEN Error
                 ELSE [value |-> x[Len(num.val)], minus |-> num.minus, precision |-> p, scale |-> s]
      BY Zenon DEF FromNumeric, BytesTo, ByteAdded
    <2> QED
      BY <2>1, <2>2, Zenon
  <1> HIDE DEF g
  <1> DEFINE S == {i \in Nat : g[i] = w(i)}
  <1>7. 0 \in S
    <2>1. 0 \in 0 .. k
      BY <1>1
    <2> QED
      BY <1>3, <1>5, <2>1 DEF BytesTo
  <1>8. ASSUME NEW i \in 0 .. k, i \in S, i < k
        PROVE  i + 1 \in S
    <2> DEFINE m == i + 1
    <2>1. m \in 0 .. k /\ m \in 1 .. k /\ m # 0 /\ m - 1 = i /\ m \in Nat
      BY <1>1, <1>8
    <2> HIDE DEF m
    <2>2. g[m] = ByteAdded(g[i], val[k + 1 - m])
      BY <1>5, <2>1 DEF BytesTo
    <2>3. ByteAdded(w(i), val[k + 1 - m]) = w(m)
      BY <1>3, <2>1
    <2>4. g[i] = w(i)
      BY <1>8
    <2>5. m \in S
      BY <2>1, <2>2, <2>3, <2>4
    <2> QED
      BY <2>5 DEF m
  <1> HIDE DEF S
  <1>9. k \in S
    <2>1. \A i \in 0 .. k : i \in S
      BY <1>1, <1>7, <1>8, Onward
    <2> QED
      BY <1>1, <2>1
  <1>10. g[k] = v
    BY <1>3, <1>9 DEF S
  <1>11. v # Error
    BY ErrorAssumption
  <1> QED
    BY <1>6, <1>10, <1>11

\* A text followed by another.
LEMMA OneAfterOther ==
    ASSUME NEW C, NEW a \in Seq(C), NEW b \in Seq(C), NEW m, Len(a) = m, NEW n, Len(b) = n
    PROVE  /\ a \o b \in Seq(C) /\ Len(a \o b) = m + n
           /\ \A i \in 1 .. m : (a \o b)[i] = a[i]
           /\ \A i \in 1 .. n : (a \o b)[m + i] = b[i]
  OBVIOUS

\* The text of a sign, digits and a point before the last of them.
SignText(minus) == IF minus THEN << "-" >> ELSE << >>
PointText(s)    == IF s > 0 THEN << "." >> ELSE << >>
PointedText(digits, minus, s) ==
    SignText(minus) \o SubSeq(digits, 1, Len(digits) - s) \o PointText(s)
    \o SubSeq(digits, Len(digits) - s + 1, Len(digits))

\* Its characters.
Spelled(text, digits, minus, s) ==
    LET g == IF minus THEN 1 ELSE 0
        x == IF s > 0 THEN 1 ELSE 0
        a == Len(digits) - s
    IN  /\ Len(text) = g + Len(digits) + x
        /\ g = 1 => text[1] = "-"
        /\ x = 1 => text[g + a + 1] = "."
        /\ \A k \in 1 .. Len(digits) : text[IF k <= a THEN k + g ELSE k + g + x] = digits[k]

\* Where the digits of a written number stand.
LEMMA PointedCharacters ==
    ASSUME NEW C, NEW digits \in Seq(C), NEW minus \in BOOLEAN, NEW s \in 0 .. Len(digits), "-" \in C, "." \in C,
           NEW text, text = PointedText(digits, minus, s)
    PROVE  text \in Seq(C) /\ Spelled(text, digits, minus, s)
  <1> DEFINE g == IF minus THEN 1 ELSE 0
             x == IF s > 0 THEN 1 ELSE 0
             n == Len(digits)
             a == n - s
             A == SubSeq(digits, 1, a)
             B == SubSeq(digits, a + 1, n)
             G == SignText(minus)
             X == PointText(s)
             t1 == G \o A
             t2 == t1 \o X
  <1>1. n \in Nat /\ a \in 0 .. n /\ s \in Nat /\ n - a = s
    OBVIOUS
  <1>2. A \in Seq(C) /\ Len(A) = a /\ \A k \in 1 .. a : A[k] = digits[k]
    BY <1>1
  <1>3. B \in Seq(C) /\ Len(B) = n - a /\ \A k \in 1 .. n - a : B[k] = digits[k + a]
    BY <1>1
  <1>4. G \in Seq(C) /\ Len(G) = g /\ (g = 1 => G[1] = "-")
    <2>1. CASE minus
      <3>1. << "-" >> \in Seq(C) /\ Len(<< "-" >>) = 1 /\ << "-" >>[1] = "-"
        OBVIOUS
      <3> QED
        BY <2>1, <3>1 DEF SignText
    <2>2. CASE ~minus
      BY <2>2 DEF SignText
    <2> QED
      BY <2>1, <2>2
  <1>5. X \in Seq(C) /\ Len(X) = x /\ (x = 1 => X[1] = ".")
    <2>1. CASE s > 0
      <3>1. << "." >> \in Seq(C) /\ Len(<< "." >>) = 1 /\ << "." >>[1] = "."
        OBVIOUS
      <3> QED
        BY <2>1, <3>1 DEF PointText
    <2>2. CASE ~(s > 0)
      BY <2>2 DEF PointText
    <2> QED
      BY <2>1, <2>2
  <1>6. g \in {0, 1} /\ x \in {0, 1}
    OBVIOUS
  <1>7. text = t2 \o B
    BY Zenon DEF PointedText
  <1> HIDE DEF A, B, G, X, g, x, a, n
  <1>8. /\ t1 \in Seq(C) /\ Len(t1) = g + a
        /\ g = 1 => t1[1] = "-"
        /\ \A k \in 1 .. a : t1[k + g] = digits[k]
    <2>1. /\ t1 \in Seq(C) /\ Len(t1) = g + a
          /\ \A i \in 1 .. g : t1[i] = G[i]
          /\ \A i \in 1 .. a : t1[g + i] = A[i]
      BY <1>2, <1>4, OneAfterOther
    <2>2. g = 1 => t1[1] = "-"
      <3>1. g = 1 => 1 \in 1 .. g
        OBVIOUS
      <3> HIDE DEF t1
      <3> QED
        BY <1>4, <2>1, <3>1
    <2>3. ASSUME NEW k \in 1 .. a
          PROVE  t1[k + g] = digits[k]
      <3>1. g + k = k + g
        BY <1>1, <1>6
      <3> QED
        BY <1>2, <2>1, <3>1
    <2> QED
      BY <2>1, <2>2, <2>3
  <1> HIDE DEF t1
  <1>9. /\ t2 \in Seq(C) /\ Len(t2) = g + a + x
        /\ g = 1 => t2[1] = "-"
        /\ x = 1 => t2[g + a + 1] = "."
        /\ \A k \in 1 .. a : t2[k + g] = digits[k]
    <2>1. t2 \in Seq(C) /\ Len(t2) = (g + a) + x
      BY <1>5, <1>8, OneAfterOther
    <2>2. \A i \in 1 .. g + a : t2[i] = t1[i]
      BY <1>5, <1>8, OneAfterOther
    <2>6. \A i \in 1 .. x : t2[(g + a) + i] = X[i]
      BY <1>5, <1>8, OneAfterOther
    <2>3. g = 1 => t2[1] = "-"
      <3>1. g = 1 => 1 \in 1 .. g + a
        BY <1>1
      <3> QED
        BY <1>8, <2>2, <3>1
    <2>4. x = 1 => t2[g + a + 1] = "."
      <3>1. x = 1 => 1 \in 1 .. x
        OBVIOUS
      <3> HIDE DEF t2
      <3>2. x = 1 => t2[(g + a) + 1] = X[1]
        BY <2>6, <3>1, Zenon
      <3> QED
        BY <1>5, <3>2
    <2>5. ASSUME NEW k \in 1 .. a
          PROVE  t2[k + g] = digits[k]
      <3>1. k + g \in 1 .. g + a
        BY <1>1, <1>6
      <3> QED
        BY <1>8, <2>2, <3>1
    <2> QED
      BY <2>1, <2>3, <2>4, <2>5
  <1> HIDE DEF t2
  <1> DEFINE j == t2 \o B
             y == g + a + x
             z == n - a
  <1>16. y \in Nat /\ z \in Nat /\ y + z = g + n + x
    BY <1>1, <1>6
  <1>17. /\ j \in Seq(C) /\ Len(j) = y + z
         /\ \A i \in 1 .. y : j[i] = t2[i]
         /\ \A i \in 1 .. z : j[y + i] = B[i]
    <2>1. Len(t2) = y /\ Len(B) = z
      BY <1>3, <1>9
    <2> HIDE DEF y, z
    <2> QED
      BY <1>3, <1>9, <2>1, OneAfterOther, SMTT(30)
  <1> HIDE DEF j
  <1>10. text \in Seq(C) /\ Len(text) = g + n + x
    BY <1>7, <1>16, <1>17 DEF j
  <1>11. \A i \in 1 .. g + a + x : text[i] = t2[i]
    BY <1>7, <1>17 DEF j
  <1>12. \A k \in 1 .. n - a : text[g + a + x + k] = B[k]
    BY <1>7, <1>17 DEF j
  <1>13. g = 1 => text[1] = "-"
    <2>1. g = 1 => 1 \in 1 .. g + a + x
      BY <1>1, <1>6
    <2> QED
      BY <1>9, <1>11, <2>1
  <1>14. x = 1 => text[g + a + 1] = "."
    <2>1. x = 1 => g + a + 1 \in 1 .. g + a + x
      BY <1>1, <1>6
    <2> QED
      BY <1>9, <1>11, <2>1
  <1>15. ASSUME NEW k \in 1 .. n
         PROVE  text[IF k <= a THEN k + g ELSE k + g + x] = digits[k]
    <2>1. CASE k <= a
      <3>1. k \in 1 .. a /\ k + g \in 1 .. g + a + x
        BY <1>1, <1>6, <2>1
      <3>2. text[k + g] = digits[k]
        BY <1>9, <1>11, <3>1
      <3> QED
        BY <2>1, <3>2
    <2>2. CASE ~(k <= a)
      <3>1. k - a \in 1 .. n - a /\ g + a + x + (k - a) = k + g + x /\ (k - a) + a = k
        BY <1>1, <1>6, <2>2
      <3>2. text[k + g + x] = B[k - a] /\ B[k - a] = digits[k]
        BY <1>3, <1>12, <3>1
      <3> QED
        BY <2>2, <3>2
    <2> QED
      BY <2>1, <2>2
  <1> QED
    BY <1>10, <1>13, <1>14, <1>15 DEF g, x, a, n, Spelled

\* Such a text is read as its digits, with so many of them behind the point.
LEMMA PointedRead ==
    ASSUME NEW digits \in Seq(Digit), digits # << >>, NEW minus \in BOOLEAN, NEW s \in 0 .. Len(digits),
           NEW text, text = PointedText(digits, minus, s),
           ValueOf(digits) <= DecimalMax
    PROVE  ToDecimal(text) = [ value |-> ValueOf(digits), minus |-> minus /\ ValueOf(digits) # 0,
                               precision |-> Len(digits), scale |-> s ]
  <1> DEFINE C == Digit \cup {"-", "."}
             g == IF minus THEN 1 ELSE 0
             x == IF s > 0 THEN 1 ELSE 0
             n == Len(digits)
             a == n - s
             q == g + a + 1
             u == Unsign(Unpointed(text))
  <1>1. n \in Nat /\ n > 0 /\ a \in 0 .. n /\ s \in Nat /\ n - a = s /\ g \in {0, 1} /\ x \in {0, 1} /\ (s > 0 <=> x = 1)
    OBVIOUS
  <1>14. g = 1 <=> minus
    OBVIOUS
  <1>2. digits \in Seq(C) /\ "-" \in C /\ "." \in C
    <2>1. Digit \subseteq C /\ "-" \in C /\ "." \in C
      OBVIOUS
    <2> HIDE DEF C
    <2>2. digits \in Seq(C)
      BY <2>1, Widened
    <2> QED
      BY <2>1, <2>2
  <1> HIDE DEF C
  <1>3. /\ text \in Seq(C) /\ Len(text) = g + n + x
        /\ g = 1 => text[1] = "-"
        /\ x = 1 => text[g + a + 1] = "."
        /\ \A k \in 1 .. n : text[IF k <= a THEN k + g ELSE k + g + x] = digits[k]
    <2>1. text \in Seq(C) /\ Spelled(text, digits, minus, s)
      BY <1>2, PointedCharacters
    <2> QED
      BY <2>1 DEF Spelled
  <1> HIDE DEF g, x, a, n
  <1>15. Len(text) = g + n + x /\ Len(text) \in Nat
    BY <1>1, <1>3
  <1>4. \A k \in 1 .. n : digits[k] \in Digit
    BY DEF n
  <1>5. g = 0 => text[1] \in Digit \cup {"."}
    <2>1. CASE g = 0 /\ a > 0
      <3>1. 1 \in 1 .. n /\ 1 <= a /\ 1 + g = 1
        BY <1>1, <2>1
      <3>2. text[1] = digits[1]
        BY <1>3, <3>1
      <3> QED
        BY <1>4, <3>1, <3>2
    <2>2. CASE g = 0 /\ ~(a > 0)
      <3>1. x = 1 /\ g + a + 1 = 1
        BY <1>1, <2>2
      <3> QED
        BY <1>3, <3>1
    <2> QED
      BY <2>1, <2>2
  <1>6. text # << >>
    <2>1. Len(text) > 0
      BY <1>1, <1>15
    <2> QED
      BY <2>1
  <1>7. SignsOf(text) = g /\ (Minus(text) <=> minus)
    <2>1. CASE g = 1
      <3>1. minus
        BY <1>14, <2>1
      <3> QED
        BY <1>3, <1>6, <2>1, <3>1 DEF SignsOf, Minus
    <2>2. CASE g = 0
      <3>1. ~minus
        BY <1>14, <2>2
      <3>2. text[1] \notin {"+", "-"}
        BY <1>5, <2>2, DigitsAre
      <3> QED
        BY <2>2, <3>1, <3>2 DEF SignsOf, Minus
    <2> QED
      BY <1>1, <2>1, <2>2
  <1>8. Pointed(text, q)
    <2>1. q \in g + 1 .. Len(text) + 1
      BY <1>1, <1>15
    <2>2. ASSUME NEW j \in g + 1 .. Len(text)
          PROVE  IF j = q THEN text[j] = "." ELSE text[j] \in Digit
      <3>1. CASE j < q
        <4>1. j - g \in 1 .. n /\ j - g <= a /\ (j - g) + g = j
          BY <1>1, <1>15, <3>1
        <4>2. text[j] = digits[j - g]
          BY <1>3, <4>1
        <4> QED
          BY <1>4, <3>1, <4>1, <4>2
      <3>2. CASE j = q
        <4>1. x = 1
          BY <1>1, <1>15, <3>2
        <4> QED
          BY <1>3, <3>2, <4>1
      <3>3. CASE j > q
        <4>1. x = 1 /\ j - g - 1 \in 1 .. n /\ ~(j - g - 1 <= a) /\ (j - g - 1) + g + 1 = j
          BY <1>1, <1>15, <3>3
        <4>2. text[j] = digits[j - g - 1]
          BY <1>3, <4>1
        <4> QED
          BY <1>4, <3>3, <4>1, <4>2
      <3>4. j < q \/ j = q \/ j > q
        BY <1>1
      <3> QED
        BY <3>1, <3>2, <3>3, <3>4
    <2> HIDE DEF q
    <2> QED
      BY <1>7, <2>1, <2>2 DEF Pointed
  <1>9. (q <= Len(text)) = (s > 0) /\ (IF q <= Len(text) THEN 1 ELSE 0) = x
    <2>1. q <= Len(text) <=> s > 0
      BY <1>1, <1>15
    <2> QED
      BY <1>1, <2>1
  <1>10. u = digits
    <2>1. /\ u \in Seq(Digit) /\ Len(u) = Len(text) - g - x
          /\ \A k \in 1 .. Len(text) - g - x : u[k] = text[IF k + g < q THEN k + g ELSE k + g + 1]
      <3> HIDE DEF q
      <3> QED
        BY <1>3, <1>7, <1>8, <1>9, PointedDigits
    <2> HIDE DEF u
    <2>2. Len(text) - g - x = n
      BY <1>1, <1>15
    <2>3. ASSUME NEW k \in 1 .. n
          PROVE  u[k] = digits[k]
      <3>1. u[k] = text[IF k + g < q THEN k + g ELSE k + g + 1]
        BY <2>1, <2>2
      <3>2. (IF k + g < q THEN k + g ELSE k + g + 1) = (IF k <= a THEN k + g ELSE k + g + x)
        <4>1. k + g < q <=> k <= a
          BY <1>1
        <4>2. ~(k <= a) => x = 1
          BY <1>1
        <4> QED
          BY <1>1, <4>1, <4>2
      <3> QED
        BY <1>3, <3>1, <3>2
    <2> QED
      BY <1>1, <2>1, <2>2, <2>3 DEF n
  <1>11. After(text) = s
    <2>1. After(text) = IF q <= Len(text) THEN Len(text) - q ELSE 0
      <3> HIDE DEF q
      <3> QED
        BY <1>3, <1>8, PointTaken
    <2>2. s > 0 => Len(text) - q = s
      BY <1>1, <1>15
    <2> QED
      BY <1>1, <1>9, <2>1, <2>2
  <1>12. ToDecimal(text) =
            IF ValueOf(u) <= DecimalMax
            THEN [value |-> ValueOf(u), minus |-> Minus(text) /\ ValueOf(u) # 0, precision |-> Len(u), scale |-> After(text)]
            ELSE Error
    <2> HIDE DEF q
    <2> QED
      BY <1>3, <1>8, DecimalRead, Zenon
  <1> HIDE DEF u
  <1>13. (Minus(text) /\ ValueOf(digits) # 0) = (minus /\ ValueOf(digits) # 0)
    BY <1>7
  <1> QED
    BY <1>10, <1>11, <1>12, <1>13

\* A decimal as a text is that decimal.
ReadBack(r, v, minus, s) ==
    /\ r.value = v /\ r.scale = s /\ (r.minus <=> minus /\ v # 0) /\ r.minus \in BOOLEAN
    /\ r = [i \in DOMAIN r |-> r[i]]

\* A record with a number read back.
LEMMA RecordReadBack ==
    ASSUME NEW v, NEW minus \in BOOLEAN, NEW s, NEW l, NEW r,
           r = [value |-> v, minus |-> minus /\ v # 0, precision |-> l, scale |-> s]
    PROVE  ReadBack(r, v, minus, s)
  BY DEF ReadBack

\* A number that is written is read back.
LEMMA DecimalWritten ==
    ASSUME NEW v \in Nat, v <= DecimalMax, NEW minus \in BOOLEAN, NEW p, NEW s \in Nat,
           NEW d, d = [value |-> v, minus |-> minus, precision |-> p, scale |-> s]
    PROVE  ReadBack(ToDecimal(DecimalText(d)), v, minus, s)
  <1> DEFINE digits == DigitsOf(v, s)
             text   == DecimalText(d)
             m      == IF minus /\ v # 0 THEN TRUE ELSE FALSE
  <1>1. d.value = v /\ d.minus = minus /\ d.scale = s
    OBVIOUS
  <1>2. /\ digits \in Seq(Digit) /\ ValueOf(digits) = v /\ Len(digits) >= s
        /\ v # 0 \/ s # 0 => digits # << >>
        /\ v = 0 /\ s = 0 => digits = << >>
    BY DigitsBack
  <1>3. text = CASE s < 0                      -> Error
                 [] s >= 0 /\ digits = << >>   -> << "0" >>
                 [] OTHER ->
                      (IF minus /\ v # 0 THEN << "-" >> ELSE << >>) \o SubSeq(digits, 1, Len(digits) - s)
                      \o (IF s > 0 THEN << "." >> ELSE << >>) \o SubSeq(digits, Len(digits) - s + 1, Len(digits))
    BY <1>1, Zenon DEF DecimalText
  <1>4. ~(s < 0) /\ s >= 0
    OBVIOUS
  <1>5. m \in BOOLEAN /\ m = (minus /\ v # 0)
    OBVIOUS
  <1>6. CASE digits # << >>
    <2>1. SignText(m) = (IF minus /\ v # 0 THEN << "-" >> ELSE << >>)
      BY DEF SignText
    <2> HIDE DEF digits, text, m
    <2>2. text = (IF minus /\ v # 0 THEN << "-" >> ELSE << >>) \o SubSeq(digits, 1, Len(digits) - s)
                      \o (IF s > 0 THEN << "." >> ELSE << >>) \o SubSeq(digits, Len(digits) - s + 1, Len(digits))
      BY <1>3, <1>4, <1>6, Zenon
    <2>3. text = PointedText(digits, m, s)
      BY <2>1, <2>2, Zenon DEF PointText, PointedText
    <2>4. s \in 0 .. Len(digits)
      BY <1>2
    <2>5. ToDecimal(text) = [value |-> ValueOf(digits), minus |-> m /\ ValueOf(digits) # 0, precision |-> Len(digits), scale |-> s]
      BY <1>2, <1>5, <1>6, <2>3, <2>4, PointedRead
    <2>6. (m /\ v # 0) = (minus /\ v # 0)
      BY <1>5
    <2>7. ToDecimal(text) = [value |-> v, minus |-> minus /\ v # 0, precision |-> Len(digits), scale |-> s]
      BY <1>2, <2>5, <2>6
    <2> QED
      BY <1>5, <2>7, RecordReadBack DEF text
  <1>7. CASE digits = << >>
    <2>1. v = 0 /\ s = 0
      BY <1>2, <1>7
    <2> DEFINE z == << "0" >>
    <2>2. text = z
      <3> HIDE DEF digits, text
      <3> QED
        BY <1>3, <1>4, <1>7, Zenon
    <2>3. z \in Seq(Digit) /\ z # << >> /\ Len(z) = 1 /\ ValueOf(z) = 0
      BY ZeroText, SMTT(30)
    <2> HIDE DEF z, text, digits
    <2>4. z = PointedText(z, FALSE, 0)
      <3>1. SignText(FALSE) = << >> /\ PointText(0) = << >>
        BY DEF SignText, PointText
      <3>2. SubSeq(z, 1, Len(z) - 0) = z /\ SubSeq(z, Len(z) - 0 + 1, Len(z)) = << >>
        BY <2>3
      <3>3. << >> \o z = z /\ z \o << >> = z
        BY <2>3
      <3> QED
        BY <3>1, <3>2, <3>3 DEF PointedText
    <2>5. 0 \in 0 .. Len(z) /\ 0 <= DecimalMax
      BY <2>3, DecimalMaxIs
    <2>6. ToDecimal(z) = [value |-> ValueOf(z), minus |-> FALSE /\ ValueOf(z) # 0, precision |-> Len(z), scale |-> 0]
      BY <2>3, <2>4, <2>5, PointedRead
    <2>7. (FALSE /\ ValueOf(z) # 0) = (minus /\ v # 0)
      BY <2>1
    <2>8. ToDecimal(text) = [value |-> v, minus |-> minus /\ v # 0, precision |-> Len(z), scale |-> s]
      BY <2>1, <2>2, <2>3, <2>6, <2>7
    <2> QED
      BY <1>5, <2>8, RecordReadBack DEF text
  <1> QED
    BY <1>6, <1>7

\* A number fetched, and given back as a parameter.
Fetched(text, p, s) == IF ToDecimal(text) = Error THEN Error ELSE ToNumeric(ToDecimal(text), p, s)
GivenBack(num)      == IF num = Error THEN Error ELSE FromNumericBuffer(num, num.precision, num.scale)

\* What DecimalsExact says of one of them: which texts are refused, what is
\* fetched and given back, and which texts are not refused.
Number(text)        == Magnitude(IntegerIn(Unpointed(text)))
ScaleAsked(text, p, s) == IF p = 0 THEN After(text) ELSE s
NumberAsked(text, p, s) == Cut(Number(text), After(text), ScaleAsked(text, p, s))
FetchedExactly(text, p, s, num) ==
    /\ InBytes(num.val) = NumberAsked(text, p, s) /\ num.scale = ScaleAsked(text, p, s)
    /\ num.minus <=> Minus(text) /\ Number(text) # 0
    /\ ScaleAsked(text, p, s) >= 0 => ToDecimal(GivenBack(num)) =
          [ToDecimal(GivenBack(num)) EXCEPT !.value = NumberAsked(text, p, s), !.scale = ScaleAsked(text, p, s),
                                            !.minus = Minus(text) /\ NumberAsked(text, p, s) # 0]
PrecisionHolds(text, p, s) == p # 0 => NumberAsked(text, p, s) < TenTo(p)
Holdable(text, p, s) ==
    /\ Number(text) <= DecimalMax /\ Magnitude(NumberAsked(text, p, s)) <= DecimalMax
    /\ p >= s /\ PrecisionHolds(text, p, s)

\* A number that is fetched is the one its text names.
LEMMA NumberFetched ==
    ASSUME NEW C, NEW text \in Seq(C), NEW p \in Nat, NEW s \in Int, IsDecimal(text), NEW num, num = Fetched(text, p, s)
    PROVE  (num # Error => FetchedExactly(text, p, s, num)) /\ (Holdable(text, p, s) => num # Error)
  <1> DEFINE n == Number(text)
             a == After(text)
             k == ScaleAsked(text, p, s)
             e == NumberAsked(text, p, s)
             u == Unsign(Unpointed(text))
             m == Minus(text) /\ n # 0
             l == Len(u)
             d == [value |-> n, minus |-> m, precision |-> l, scale |-> a]
  <1>1. PICK q : Pointed(text, q)
    BY DecimalsPointed
  <1>2. u \in Seq(Digit) /\ Magnitude(IntegerIn(Unpointed(text))) = ValueOf(u)
    BY <1>1, PointedDigits
  <1>3. n = ValueOf(u) /\ n \in Nat /\ n < TenTo(l) /\ l \in Nat
    <2> HIDE DEF u
    <2>1. n = ValueOf(u)
      BY <1>2 DEF Number
    <2>2. ValueOf(u) \in Nat /\ ValueOf(u) < TenTo(Len(u)) /\ Len(u) \in Nat
      <3>1. u \in Seq(Digit)
        BY <1>2
      <3>2. ValueOf(u) \in Nat /\ ValueOf(u) < TenTo(Len(u))
        BY <3>1, ValueIs, Zenon
      <3> QED
        BY <3>1, <3>2
    <2> HIDE DEF n
    <2> QED
      BY <2>1, <2>2
  <1>4. a \in Nat
    <2>1. After(text) = IF q <= Len(text) THEN Len(text) - q ELSE 0
      BY <1>1, PointTaken
    <2>2. q \in SignsOf(text) + 1 .. Len(text) + 1 /\ SignsOf(text) \in {0, 1} /\ Len(text) \in Nat
      <3>1. SignsOf(text) \in {0, 1}
        BY Unsigning, Zenon
      <3> QED
        BY <1>1, <3>1 DEF Pointed
    <2> QED
      BY <2>1, <2>2
  <1>5. ToDecimal(text) = IF ValueOf(u) <= DecimalMax
                          THEN [value |-> ValueOf(u), minus |-> Minus(text) /\ ValueOf(u) # 0, precision |-> Len(u), scale |-> After(text)]
                          ELSE Error
    BY <1>1, DecimalRead, Zenon
  <1>6. ToDecimal(text) = IF n <= DecimalMax THEN d ELSE Error
    <2> HIDE DEF u
    <2> QED
      BY <1>3, <1>5
  <1>7. m \in BOOLEAN /\ (m <=> Minus(text) /\ n # 0)
    OBVIOUS
  <1>8. k \in Int /\ e = Cut(n, a, k) /\ e \in Nat /\ (e # 0 => n # 0)
    <2>1. k \in Int
      BY <1>4 DEF ScaleAsked
    <2>2. e = Cut(n, a, k)
      BY Zenon DEF NumberAsked
    <2> HIDE DEF n, a, k, e
    <2> QED
      BY <1>3, <1>4, <2>1, <2>2, CutIs
  <1>9. Magnitude(e) = e
    <2> HIDE DEF e
    <2> QED
      BY <1>8 DEF Magnitude
  <1>10. CASE ~(n <= DecimalMax)
    <2>1. num = Error
      BY <1>6, <1>10 DEF Fetched
    <2>2. ~Holdable(text, p, s)
      BY <1>10 DEF Holdable
    <2> QED
      BY <2>1, <2>2
  <1>11. CASE n <= DecimalMax
    <2>1. ToDecimal(text) = d
      BY <1>6, <1>11
    <2> DEFINE pp == IF p = 0 THEN l ELSE p
    <2> HIDE DEF n, a, e, u, m, l
    <2>2. d # Error
      BY <1>3, <1>4, <1>7, ErrorAssumption
    <2>3. num = ToNumeric(d, p, s)
      <3> HIDE DEF d
      <3> QED
        BY <2>1, <2>2 DEF Fetched
    <2>4. k = IF p = 0 THEN a ELSE s
      BY DEF ScaleAsked, a
    <2> HIDE DEF k
    <2>5. /\ num # Error => e <= DecimalMax /\ num = [precision |-> pp, scale |-> k, minus |-> m, val |-> BytesOf(e)]
          /\ e <= DecimalMax /\ p >= s /\ (p # 0 => e < TenTo(p)) => num # Error
      <3> DEFINE kk == IF p = 0 THEN a ELSE s
                 ee == Cut(n, a, kk)
      <3>1. /\ num # Error => ee <= DecimalMax /\ num = [precision |-> pp, scale |-> kk, minus |-> m, val |-> BytesOf(ee)]
            /\ ee <= DecimalMax /\ p >= s /\ (p # 0 => ee < TenTo(p)) => num # Error
        <4> HIDE DEF d
        <4>1. d = [value |-> n, minus |-> m, precision |-> l, scale |-> a]
          BY DEF d
        <4> QED
          BY <1>3, <1>4, <1>7, <2>3, <4>1, NumericIs
      <3>2. kk = k /\ ee = e
        BY <1>8, <2>4
      <3> HIDE DEF kk, ee, pp
      <3> QED
        BY <3>1, <3>2
    <2>6. Holdable(text, p, s) => num # Error
      <3>1. Holdable(text, p, s) => e <= DecimalMax /\ p >= s /\ (p # 0 => e < TenTo(p))
        BY <1>9 DEF Holdable, PrecisionHolds, e
      <3> QED
        BY <2>5, <3>1
    <2>7. ASSUME num # Error
          PROVE  FetchedExactly(text, p, s, num)
      <3>1. e <= DecimalMax /\ num = [precision |-> pp, scale |-> k, minus |-> m, val |-> BytesOf(e)]
        BY <2>5, <2>7
      <3> HIDE DEF pp
      <3>2. num.val = BytesOf(e) /\ num.scale = k /\ num.minus = m /\ num.precision = pp
        BY <3>1
      <3>3. InBytes(num.val) = e
        BY <1>8, <3>2, BytesAre
      <3>4. num.minus <=> Minus(text) /\ n # 0
        BY <1>7, <3>2
      <3>5. ASSUME k >= 0
            PROVE  ToDecimal(GivenBack(num)) =
                      [ToDecimal(GivenBack(num)) EXCEPT !.value = e, !.scale = k, !.minus = Minus(text) /\ e # 0]
        <4> DEFINE back == GivenBack(num)
                   f == [value |-> e, minus |-> m, precision |-> pp, scale |-> k]
        <4>1. FromNumeric(num, pp, k) = f
          BY <1>8, <3>1, NumericRead
        <4>2. back = DecimalText(f)
          <5> HIDE DEF f
          <5> QED
            BY <2>7, <3>2, <4>1, Zenon DEF GivenBack, FromNumericBuffer
        <4>3. k \in Nat
          BY <1>8, <3>5
        <4> DEFINE r == ToDecimal(back)
                   b == Minus(text) /\ e # 0
        <4>4. ReadBack(r, e, m, k)
          <5>1. f = [value |-> e, minus |-> m, precision |-> pp, scale |-> k]
            OBVIOUS
          <5>2. e \in Nat /\ e <= DecimalMax /\ m \in BOOLEAN /\ k \in Nat
            BY <1>7, <1>8, <3>1, <4>3
          <5> HIDE DEF f
          <5>3. ReadBack(ToDecimal(DecimalText(f)), e, m, k)
            BY <5>1, <5>2, DecimalWritten
          <5> QED
            BY <4>2, <5>3
        <4>5. r.minus = b
          BY <1>7, <1>8, <4>4 DEF ReadBack
        <4>6. r.value = e /\ r.scale = k /\ r = [i \in DOMAIN r |-> r[i]]
          BY <4>4 DEF ReadBack
        <4> HIDE DEF r, b
        <4>7. r = [r EXCEPT !.value = e, !.scale = k, !.minus = b]
          BY <4>5, <4>6
        <4> QED
          BY <4>7 DEF r, b
      <3> QED
        BY <3>2, <3>3, <3>4, <3>5 DEF FetchedExactly, n, e, k
    <2> QED
      BY <2>6, <2>7
  <1> QED
    BY <1>10, <1>11

\* Decimals, fetched and given back.
LEMMA DecimalsAreExact ==
    ASSUME ConversionCall
    PROVE  DecimalsExact'
  <1>1. ASSUME call'.op = "numeric"
        PROVE  /\ ~IsDecimal(call'.text) /\ ToSet(call'.text) \cap Digit # {} => call'.out = Error
               /\ IsDecimal(call'.text) /\ PrecisionHolds(call'.text, call'.precision, call'.scale) /\ call'.out # Error =>
                     /\ FetchedExactly(call'.text, call'.precision, call'.scale, call'.out)
                     /\ call'.back = GivenBack(call'.out)
               /\ IsDecimal(call'.text) /\ Holdable(call'.text, call'.precision, call'.scale) => call'.out # Error
    <2>1. PICK text \in NumberText, p \in Precision, s \in Scale :
             call' = [ op |-> "numeric", text |-> text, precision |-> p, scale |-> s, out |-> Fetched(text, p, s),
                       back |-> GivenBack(Fetched(text, p, s)) ]
      <3>1. ReadNumeric
        BY <1>1, NumberCalls
      <3> QED
        BY <3>1, Zenon DEF ReadNumeric, Fetched, GivenBack
    <2> DEFINE num == Fetched(text, p, s)
    <2>2. call'.text = text /\ call'.precision = p /\ call'.scale = s /\ call'.out = num /\ call'.back = GivenBack(num)
      BY <2>1
    <2>3. text \in Seq(STRING) /\ p \in Nat /\ s \in Int
      BY ConversionAssumption
    <2>4. ASSUME ~IsDecimal(text), ToSet(text) \cap Digit # {}
          PROVE  num = Error
      <3>1. ToDecimal(text) = Error
        BY <2>3, <2>4, OthersRefused
      <3> QED
        BY <3>1 DEF Fetched
    <2>5. IsDecimal(text) => (num # Error => FetchedExactly(text, p, s, num)) /\ (Holdable(text, p, s) => num # Error)
      <3> HIDE DEF num
      <3>1. num = Fetched(text, p, s)
        BY DEF num
      <3> QED
        BY <2>3, <3>1, NumberFetched
    <2> HIDE DEF num
    <2> QED
      BY <2>2, <2>4, <2>5
  <1> QED
    BY <1>1, Zenon DEF DecimalsExact, FetchedExactly, Holdable, PrecisionHolds, Number, ScaleAsked, NumberAsked

\* from_value<std::string>: a text that is a number within the range and the
\* precision asked for is that number, one that is no number an error; what is
\* written is read back.
THEOREM NumbersAreExact == ConversionSpec => []NumbersExact
  <1>1. NotCalled => NumbersExact
    BY DEF NotCalled, Start, NumbersExact, IntegersExact, DecimalsExact
  <1>2. NumbersExact /\ [ConversionCall]_call => NumbersExact'
    <2>1. ASSUME ConversionCall
          PROVE  NumbersExact'
      <3>1. IntegersExact'
        BY <2>1, IntegersAreExact
      <3>2. DecimalsExact'
        BY <2>1, DecimalsAreExact
      <3> QED
        BY <3>1, <3>2 DEF NumbersExact
    <2>2. ASSUME NumbersExact, UNCHANGED call
          PROVE  NumbersExact'
      BY <2>2 DEF NumbersExact, IntegersExact, DecimalsExact
    <2> QED
      BY <2>1, <2>2
  <1> QED
    BY <1>1, <1>2, PTL DEF ConversionSpec
=============================================================================
