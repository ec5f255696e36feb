--------------------------- MODULE Statement_proofs ---------------------------
(***************************************************************************)
(* The invariants of a statement for any number of runs, rows, parameter   *)
(* sets and row-set sizes.                                                 *)
(*                                                                         *)
(* Every call leaves the rows alone, drops the cursor, begins a run or     *)
(* fetches (StepKinds).  The invariants about rows are proved for these    *)
(* four kinds of step, whatever call made them.                            *)
(***************************************************************************)
EXTENDS Statement, FiniteSetTheorems, SequenceTheorems, TLAPS

-----------------------------------------------------------------------------
(* What one fetch does to the queues of a result set, for any number of    *)
(* rows, any row-set size and any read-ahead.                              *)

\* A fetch takes from the stream at most what it asks for and what is there,
\* and exactly that if no row fails to decode.
LEMMA ObtainedBounds ==
    ASSUME PrefetchAssumption, NEW res \in ResultSetRecord,
           NEW queue \in Seq(Row), NEW size \in Nat
    PROVE  /\ Wanted(res, size) \in Nat
           /\ Obtained(res, queue, size) \in 0..AtMost(Wanted(res, size), Len(queue))
           /\ ~DecodeThrows(res, queue, size) =>
                 Obtained(res, queue, size) = AtMost(Wanted(res, size), Len(queue))
<1> DEFINE m == AtMost(Wanted(res, size), Len(queue))
           Taken == {i \in 1..m : \A j \in 1..(i - 1) : ~queue[j].bad}
<1>1. Wanted(res, size) \in Nat
  <2>1. res.finished \in BOOLEAN /\ Len(res.prefetched) \in Nat
    BY LenProperties DEF ResultSetRecord
  <2> QED BY <2>1 DEF Wanted, AtLeast, PrefetchAssumption
<1>2. Len(queue) \in Nat
  BY LenProperties
<1>3. m \in Nat
  BY <1>1, <1>2 DEF AtMost
<1> HIDE DEF m
<1>4. IsFiniteSet(1..m) /\ Cardinality(1..m) = m
  BY <1>3, FS_Interval
<1>5. Taken \in SUBSET (1..m)
  OBVIOUS
<1>6. Cardinality(Taken) \in Nat /\ Cardinality(Taken) <= m
  BY <1>4, <1>5, FS_Subset, FS_CardinalityType
<1>7. Obtained(res, queue, size) = Cardinality(Taken)
  BY DEF Obtained, Available, m
<1>8. ASSUME ~DecodeThrows(res, queue, size) PROVE Taken = 1..m
  <2>1. \A i \in 1..m : ~queue[i].bad
    BY <1>8 DEF DecodeThrows, Available, m
  <2> QED BY <1>3, <2>1
<1>9. Obtained(res, queue, size) \in 0..m
  BY <1>3, <1>6, <1>7
<1>10. ~DecodeThrows(res, queue, size) => Obtained(res, queue, size) = m
  BY <1>4, <1>7, <1>8
<1> QED BY <1>1, <1>9, <1>10 DEF m

\* Nothing is asked of the stream once its end was found.
LEMMA FinishedTakesNothing ==
    ASSUME PrefetchAssumption, NEW res \in ResultSetRecord,
           NEW queue \in Seq(Row), NEW size \in Nat, res.finished
    PROVE  /\ Obtained(res, queue, size) = 0
           /\ ~DecodeThrows(res, queue, size)
           /\ StreamAfter(res, queue, size) = queue
<1>1. Wanted(res, size) = 0
  BY DEF Wanted
<1>2. Len(queue) \in Nat
  BY LenProperties
<1>3. Obtained(res, queue, size) = 0
  BY <1>1, <1>2, ObtainedBounds DEF AtMost
<1>4. ~DecodeThrows(res, queue, size)
  BY <1>1, <1>2 DEF DecodeThrows, Available, AtMost
<1> QED BY <1>3, <1>4, SubSeqFull DEF StreamAfter

\* The read-ahead grows by what leaves the stream, and together they are the
\* rows they were.
LEMMA DecodedConserves ==
    ASSUME PrefetchAssumption, NEW res \in ResultSetRecord,
           NEW queue \in Seq(Row), NEW size \in Nat
    PROVE  /\ Decoded(res, queue, size) \in Seq(Row)
           /\ StreamAfter(res, queue, size) \in Seq(Row)
           /\ Len(Decoded(res, queue, size)) = Len(res.prefetched) + Obtained(res, queue, size)
           /\ Len(StreamAfter(res, queue, size)) = Len(queue) - Obtained(res, queue, size)
           /\ Decoded(res, queue, size) \o StreamAfter(res, queue, size)
                = res.prefetched \o queue
<1> DEFINE n == Obtained(res, queue, size)
           taken == SubSeq(queue, 1, n)
           rest == SubSeq(queue, n + 1, Len(queue))
           ahead == res.prefetched
<1>1. Len(queue) \in Nat /\ ahead \in Seq(Row)
  BY LenProperties DEF ResultSetRecord
<1>2. n \in 0..Len(queue)
  <2>1. Wanted(res, size) \in Nat /\ n \in 0..AtMost(Wanted(res, size), Len(queue))
    BY ObtainedBounds
  <2> HIDE DEF n
  <2> QED BY <1>1, <2>1 DEF AtMost
<1> HIDE DEF n
<1>3. taken \in Seq(Row) /\ Len(taken) = n
  BY <1>1, <1>2, SubSeqProperties, ElementOfSeq
<1>4. rest \in Seq(Row) /\ Len(rest) = Len(queue) - n
  <2> DEFINE k == n + 1
  <2>1. k \in Int /\ Len(queue) \in Int
    BY <1>1, <1>2
  <2>2. \A i \in k..Len(queue) : queue[i] \in Row
    BY <1>1, <1>2, ElementOfSeq
  <2> HIDE DEF k
  <2>3. /\ SubSeq(queue, k, Len(queue)) \in Seq(Row)
        /\ Len(SubSeq(queue, k, Len(queue))) =
             IF k <= Len(queue) THEN Len(queue) - k + 1 ELSE 0
    BY <2>1, <2>2, SubSeqProperties
  <2> QED BY <1>1, <1>2, <2>3 DEF k
<1>5. taken \o rest = queue
  <2>1. 1 \in 1..(Len(queue) + 1) /\ n \in (1 - 1)..Len(queue) /\ Len(queue) \in n..Len(queue)
    BY <1>1, <1>2
  <2>2. taken \o rest = SubSeq(queue, 1, Len(queue))
    BY <2>1, ConcatAdjacentSubSeq
  <2> QED BY <2>2, SubSeqFull
<1> HIDE DEF taken, rest, ahead
<1>6. (ahead \o taken) \o rest = ahead \o queue
  <2>1. (ahead \o taken) \o rest = ahead \o (taken \o rest)
    BY <1>1, <1>3, <1>4, ConcatAssociative
  <2> QED BY <2>1, <1>5
<1>7. ahead \o taken \in Seq(Row) /\ Len(ahead \o taken) = Len(ahead) + n
  BY <1>1, <1>3, ConcatProperties
<1> QED BY <1>3, <1>4, <1>6, <1>7 DEF Decoded, StreamAfter, n, taken, rest, ahead

\* Taking `count` rows off the read-ahead splits it in two.
LEMMA SplitConserves ==
    ASSUME NEW decoded \in Seq(Row), NEW count \in 0..Len(decoded)
    PROVE  /\ SubSeq(decoded, 1, count) \in Seq(Row)
           /\ Len(SubSeq(decoded, 1, count)) = count
           /\ ReadAheadLeft(decoded, count) \in Seq(Row)
           /\ Len(ReadAheadLeft(decoded, count)) = Len(decoded) - count
           /\ SubSeq(decoded, 1, count) \o ReadAheadLeft(decoded, count) = decoded
<1>1. Len(decoded) \in Nat
  BY LenProperties
<1>2. SubSeq(decoded, 1, count) \in Seq(Row) /\ Len(SubSeq(decoded, 1, count)) = count
  BY <1>1, SubSeqProperties, ElementOfSeq
<1>3. /\ SubSeq(decoded, count + 1, Len(decoded)) \in Seq(Row)
      /\ Len(SubSeq(decoded, count + 1, Len(decoded))) = Len(decoded) - count
  <2> DEFINE k == count + 1
  <2>1. k \in Int /\ Len(decoded) \in Int
    BY <1>1
  <2>2. \A i \in k..Len(decoded) : decoded[i] \in Row
    BY <1>1, ElementOfSeq
  <2> HIDE DEF k
  <2>3. /\ SubSeq(decoded, k, Len(decoded)) \in Seq(Row)
        /\ Len(SubSeq(decoded, k, Len(decoded))) =
             IF k <= Len(decoded) THEN Len(decoded) - k + 1 ELSE 0
    BY <2>1, <2>2, SubSeqProperties
  <2> QED BY <1>1, <2>3 DEF k
<1>4. SubSeq(decoded, 1, count) \o SubSeq(decoded, count + 1, Len(decoded)) = decoded
  <2>1. /\ 1 \in 1..(Len(decoded) + 1) /\ count \in (1 - 1)..Len(decoded)
        /\ Len(decoded) \in count..Len(decoded)
    BY <1>1
  <2>2. SubSeq(decoded, 1, count) \o SubSeq(decoded, count + 1, Len(decoded))
          = SubSeq(decoded, 1, Len(decoded))
    BY <2>1, ConcatAdjacentSubSeq
  <2> QED BY <2>2, SubSeqFull
<1> QED BY <1>2, <1>3, <1>4 DEF ReadAheadLeft

-----------------------------------------------------------------------------
(* The state of a statement.                                               *)

RowsTyped ==
    /\ stream \in Seq(Row)
    /\ rs \in ResultSetRecord \cup {NoResultSet}
    /\ rowCount \in Nat
    /\ run \in Nat
    /\ delivered \in Seq(Row)

ControlTyped ==
    /\ isPrepared \in BOOLEAN /\ isExecuted \in BOOLEAN /\ isForward \in BOOLEAN
    /\ nextParamSet \in Nat
    /\ paramSetSize \in Nat
    /\ attempts \in Seq(Attempt)
    /\ closed \in Nat

\* A result that waits to be reported is that of a prepared, executed query.
ForwardInv ==
    /\ isForward => isPrepared /\ isExecuted
    /\ credit = IF isForward THEN 1 ELSE 0

Kept == UNCHANGED <<rs, stream, delivered, rowCount, run>>

Dropped ==
    /\ rs' = NoResultSet /\ delivered' = <<>>
    /\ stream' = stream /\ run' = run
    /\ rowCount' \in Nat

\* `before` are the rows the new ones are appended to.
Began(n, columns, before, bad) ==
    /\ run' = run + 1
    /\ stream' = before \o RowsOf(run + 1, bad)
    /\ rs' = NewResultSet(run + 1, columns, n)
    /\ delivered' = <<>>
    /\ rowCount' \in Nat

Leftover(rows) == rows = stream \/ rows = <<>>

BeganSome ==
    \E n \in Nat, columns \in BOOLEAN, before \in Seq(Row) :
        \E bad \in [1..n -> BOOLEAN] :
            Leftover(before) /\ Began(n, columns, before, bad)

\* The rows of a run, as the server sends them.
LEMMA RowsOfRun ==
    ASSUME NEW r \in Nat, NEW n \in Nat, NEW bad \in [1..n -> BOOLEAN]
    PROVE  /\ Len(bad) = n
           /\ RowsOf(r, bad) \in Seq(Row)
           /\ Len(RowsOf(r, bad)) = n
           /\ \A i \in 1..n : RowsOf(r, bad)[i].run = r /\ RowsOf(r, bad)[i].pos = i
<1>1. bad \in Seq(BOOLEAN)
  BY SeqDef
<1>2. Len(bad) = n
  BY <1>1, LenProperties
<1>3. RowsOf(r, bad) \in [1..n -> Row]
  BY <1>2 DEF RowsOf, Row
<1>4. RowsOf(r, bad) \in Seq(Row)
  BY <1>3, SeqDef
<1>5. Len(RowsOf(r, bad)) = n
  BY <1>3, <1>4, LenProperties
<1> QED BY <1>2, <1>4, <1>5 DEF RowsOf

\* A run without rows.
LEMMA NoRows == <<>> \in [1..0 -> BOOLEAN]
<1>1. <<>> \in Seq(BOOLEAN) /\ Len(<<>>) = 0
  BY EmptySeq
<1> QED BY <1>1, LenProperties

\* What a call does with the rows: one of four things.
LEMMA StepKinds ==
    ASSUME StatementAssumption, RowsTyped, Next
    PROVE  Kept \/ Dropped \/ BeganSome \/ \E size \in RowSetSizes : Fetch(size)
<1>1. ASSUME NEW idx, NEW earlier, NEW answer \in Answers, Answered(idx, earlier, answer)
      PROVE  BeganSome
  <2>1. PICK n \in 0..MaxRows : answer.bad \in [1..n -> BOOLEAN] \/ (answer.bad = <<>> /\ n = 0)
    BY DEF Answers, StatementAssumption
  <2>2. n \in Nat /\ answer.bad \in [1..n -> BOOLEAN]
    <3>1. n \in Nat
      BY DEF StatementAssumption
    <3>2. CASE answer.bad = <<>> /\ n = 0
      BY <3>1, <3>2, NoRows, Zenon
    <3> QED BY <2>1, <3>1, <3>2
  <2>3. Len(answer.bad) = n
    BY <2>2, RowsOfRun
  <2>4. Began(n, answer.kind = "rows", stream, answer.bad)
    BY <1>1, <2>3 DEF Answered, Began
  <2>5. stream \in Seq(Row) /\ Leftover(stream)
    BY DEF RowsTyped, Leftover
  <2> QED BY <2>2, <2>4, <2>5 DEF BeganSome
<1>2. ASSUME NEW idx, NEW earlier, NEW answer, Refused(idx, earlier, answer)
      PROVE  BeganSome
  <2>1. <<>> \in [1..0 -> BOOLEAN]
    BY NoRows
  <2>2. RowsOf(run + 1, <<>>) \in Seq(Row) /\ Len(RowsOf(run + 1, <<>>)) = 0
    <3>1. run + 1 \in Nat /\ 0 \in Nat
      BY DEF RowsTyped
    <3> QED BY <2>1, <3>1, RowsOfRun, Zenon
  <2>3. <<>> \o RowsOf(run + 1, <<>>) = <<>>
    BY <2>2, EmptySeq, ConcatEmptySeq
  <2>4. Began(0, FALSE, <<>>, <<>>)
    BY <1>2, <2>3 DEF Refused, Began
  <2>5. <<>> \in Seq(Row) /\ Leftover(<<>>) /\ 0 \in Nat /\ FALSE \in BOOLEAN
    BY EmptySeq DEF Leftover
  <2> QED BY <2>1, <2>4, <2>5, Zenon DEF BeganSome
<1>3. ASSUME NEW idx, NEW earlier, NEW answer,
             NothingLeft(idx, earlier) \/ NotSent(idx, earlier, answer)
      PROVE  Dropped
  BY <1>3 DEF NothingLeft, NotSent, Dropped, RowsTyped
<1>4. ASSUME NEW idx, NEW earlier, NEW answer \in Answers,
             Served(idx, earlier, answer) \/ Failed(idx, earlier, answer)
      PROVE  Dropped \/ BeganSome
  BY <1>1, <1>2, <1>3, <1>4 DEF Served, Failed
<1>5. CASE CloseCursor \/ \E parses \in BOOLEAN : Prepare(parses)
  BY <1>5 DEF CloseCursor, Prepare, CloseCursorState, Dropped, RowsTyped
<1>6. CASE ExecuteForwarded
  BY <1>6 DEF ExecuteForwarded, Kept
<1>7. ASSUME NEW answer \in Answers,
             Execute(answer) \/ ExecDirect(answer) \/ ForwardExecute(answer)
      PROVE  Dropped \/ BeganSome
  BY <1>4, <1>7 DEF Execute, ExecDirect, ForwardExecute
<1>8. ASSUME NEW answer \in Answers, MoreResults(answer) PROVE Dropped \/ BeganSome
  <2>1. CASE rs' = NoResultSet /\ delivered' = <<>> /\ rowCount' = 0
              /\ UNCHANGED <<nextParamSet, attempts, stream, run>>
    BY <2>1 DEF Dropped
  <2> QED BY <2>1, <1>1, <1>4, <1>8 DEF MoreResults, Served, Failed
<1>9. ASSUME NEW n \in 1..MaxRows, GetTypeInfo(n) PROVE BeganSome
  <2> DEFINE bad == [i \in 1..n |-> FALSE]
  <2>1. n \in Nat /\ bad \in [1..n -> BOOLEAN]
    BY DEF StatementAssumption
  <2>2. Began(n, TRUE, stream, bad)
    BY <1>9 DEF GetTypeInfo, Began, RowsTyped
  <2>3. stream \in Seq(Row) /\ Leftover(stream)
    BY DEF RowsTyped, Leftover
  <2> QED BY <2>1, <2>2, <2>3 DEF BeganSome
<1>10. ASSUME NEW n \in 0..MaxParamSets, SetParamSetSize(n) PROVE Kept
  BY <1>10 DEF SetParamSetSize, Kept
<1> QED BY <1>5, <1>6, <1>7, <1>8, <1>9, <1>10 DEF Next
-----------------------------------------------------------------------------
(* One fetch.                                                              *)

\* What a fetch that throws changes.
LEMMA FetchThrowsEffect ==
    ASSUME StatementAssumption, RowsTyped, NEW size \in RowSetSizes, Fetch(size),
           DecodeThrows(rs, stream, size)
    PROVE  /\ rs \in ResultSetRecord /\ rs' \in ResultSetRecord
           /\ ~rs.finished /\ ~rs'.finished
           /\ rs'.run = rs.run /\ rs'.total = rs.total /\ rs'.columns = rs.columns
           /\ rs'.affected = rs.affected
           /\ rs'.rowSet = <<>> /\ rs'.position = rs.position + Len(rs.rowSet)
           /\ stream' \in Seq(Row)
           /\ rs'.prefetched \o stream' = rs.prefetched \o stream
           /\ delivered' = delivered /\ rowCount' = rowCount /\ run' = run
<1>1. rs \in ResultSetRecord /\ stream \in Seq(Row) /\ size \in Nat
  BY DEF Fetch, HasResultSet, RowsTyped, StatementAssumption
<1>2. ~rs.finished
  BY <1>1, FinishedTakesNothing, PrefetchAssumption
<1>3. /\ rs' = [rs EXCEPT !.rowSet = <<>>, !.position = @ + Len(rs.rowSet),
                          !.prefetched = Decoded(rs, stream, size)]
      /\ stream' = StreamAfter(rs, stream, size)
      /\ delivered' = delivered /\ rowCount' = rowCount /\ run' = run
  BY <1>1 DEF Fetch, FetchThrows, RetireRowSet, ResultSetRecord
<1>4. /\ Decoded(rs, stream, size) \in Seq(Row) /\ StreamAfter(rs, stream, size) \in Seq(Row)
      /\ Decoded(rs, stream, size) \o StreamAfter(rs, stream, size) = rs.prefetched \o stream
  BY <1>1, DecodedConserves, PrefetchAssumption
<1>5. rs.position + Len(rs.rowSet) \in Nat /\ <<>> \in Seq(Row)
  <2>1. rs.position \in Nat /\ rs.rowSet \in Seq(Row)
    BY <1>1 DEF ResultSetRecord
  <2>2. Len(rs.rowSet) \in Nat
    BY <2>1, LenProperties
  <2> QED BY <2>1, <2>2, EmptySeq
<1>6. rs' \in ResultSetRecord
  BY <1>1, <1>3, <1>4, <1>5 DEF ResultSetRecord
<1> QED BY <1>6, <1>1, <1>2, <1>3, <1>4, <1>5 DEF ResultSetRecord

\* What a fetch that answers changes; `count` rows enter the row set.
LEMMA FetchAnswersEffect ==
    ASSUME StatementAssumption, RowsTyped, NEW size \in RowSetSizes, Fetch(size),
           ~DecodeThrows(rs, stream, size)
    PROVE  \E count \in Nat :
           /\ rs \in ResultSetRecord /\ rs' \in ResultSetRecord
           /\ rs'.run = rs.run /\ rs'.total = rs.total /\ rs'.columns = rs.columns
           /\ rs'.affected = rs.affected + count
           /\ Len(rs'.rowSet) = count
           /\ rs'.position = IF count = 0 THEN 0
                             ELSE AtLeast(rs.position + Len(rs.rowSet), 1)
           /\ rs'.rowPosition = rs'.position
           /\ stream' \in Seq(Row)
           /\ rs'.rowSet \o (rs'.prefetched \o stream') = rs.prefetched \o stream
           /\ rs.finished => rs'.finished /\ stream' = stream
           /\ ~rs.finished /\ rs'.finished => stream' = <<>>
           /\ rs.finished /\ rs.prefetched = <<>> => count = 0
           /\ count = 0 => rs'.finished /\ rs'.prefetched = <<>>
           /\ delivered' = delivered \o rs'.rowSet
           /\ rowCount' = IF rs'.rowSet = <<>> THEN rs'.affected ELSE rowCount
           /\ run' = run
<1> DEFINE decoded == Decoded(rs, stream, size)
           count == AtMost(size, Len(decoded))
           front == SubSeq(decoded, 1, count)
           left == ReadAheadLeft(decoded, count)
           after == StreamAfter(rs, stream, size)
           wanted == Wanted(rs, size)
           obtained == Obtained(rs, stream, size)
           finished == rs.finished \/ wanted > Len(stream)
           position == IF count = 0 THEN 0 ELSE AtLeast(rs.position + Len(rs.rowSet), 1)
<1>1. rs \in ResultSetRecord /\ stream \in Seq(Row) /\ size \in Nat \ {0}
  <2>1. size \in Nat /\ size > 0
    BY DEF Fetch, StatementAssumption
  <2>2. size \in Nat \ {0}
    BY <2>1
  <2> QED BY <2>2 DEF Fetch, HasResultSet, RowsTyped
<1>2. /\ Len(rs.rowSet) \in Nat /\ Len(stream) \in Nat /\ Len(rs.prefetched) \in Nat
      /\ rs.position \in Nat /\ rs.affected \in Nat /\ rs.finished \in BOOLEAN
  BY <1>1, LenProperties DEF ResultSetRecord
<1>3. /\ decoded \in Seq(Row) /\ after \in Seq(Row)
      /\ Len(decoded) = Len(rs.prefetched) + obtained
      /\ Len(after) = Len(stream) - obtained
      /\ decoded \o after = rs.prefetched \o stream
  BY <1>1, DecodedConserves, PrefetchAssumption
<1>4. wanted \in Nat /\ obtained = AtMost(wanted, Len(stream))
  BY <1>1, ObtainedBounds, PrefetchAssumption
<1>5. rs.finished => obtained = 0 /\ after = stream
  BY <1>1, FinishedTakesNothing, PrefetchAssumption
<1>6. rs' = [rs EXCEPT
              !.finished = finished, !.prefetched = left,
              !.rowSet = front, !.affected = rs.affected + count,
              !.position = position, !.rowPosition = position]
  BY <1>1 DEF Fetch, FetchRowSet, FindsEnd, AffectedAfter, RetireRowSet, ResultSetRecord
<1>7. /\ stream' = after /\ delivered' = delivered \o rs'.rowSet /\ run' = run
      /\ rowCount' = IF rs'.rowSet = <<>> THEN rs'.affected ELSE rowCount
  BY DEF Fetch
<1>8. obtained \in Nat /\ Len(decoded) \in Nat
  BY <1>1, <1>2, <1>4, ObtainedBounds, PrefetchAssumption, <1>3 DEF AtMost
<1> HIDE DEF decoded, after, wanted, obtained
<1>9. count \in Nat /\ count \in 0..Len(decoded) /\ (count = 0 => Len(decoded) = 0)
  BY <1>1, <1>8 DEF AtMost
<1>10. position \in Nat /\ finished \in BOOLEAN
  BY <1>2, <1>8 DEF AtLeast
<1> HIDE DEF count, position, finished
<1>11. /\ front \in Seq(Row) /\ Len(front) = count
       /\ left \in Seq(Row) /\ Len(left) = Len(decoded) - count
       /\ front \o left = decoded
  BY <1>3, <1>9, SplitConserves
<1>12. front \o (left \o after) = rs.prefetched \o stream
  <2> HIDE DEF front, left
  <2>1. (front \o left) \o after = front \o (left \o after)
    <3>1. front \in Seq(Row) /\ left \in Seq(Row) /\ after \in Seq(Row)
      BY <1>3, <1>11
    <3> QED BY <3>1, ConcatAssociative
  <2> QED BY <2>1, <1>3, <1>11
<1>13. rs.finished /\ rs.prefetched = <<>> => count = 0
  <2>1. rs.prefetched = <<>> => Len(rs.prefetched) = 0
    BY EmptySeq
  <2> QED BY <2>1, <1>3, <1>5, <1>8, <1>9
<1>14. count = 0 => (rs.finished \/ wanted > Len(stream)) /\ left = <<>>
  <2>1. ASSUME count = 0 PROVE left = <<>>
    BY <2>1, <1>9, <1>11, EmptySeq
  <2>2. ASSUME count = 0, ~rs.finished PROVE wanted > Len(stream)
    <3>1. Len(rs.prefetched) = 0 /\ obtained = 0
      BY <2>2, <1>2, <1>3, <1>8, <1>9
    <3>2. wanted > 0
      BY <3>1, <2>2, <1>1, PrefetchAssumption DEF wanted, Wanted, AtLeast, PrefetchAssumption
    <3> QED BY <3>1, <3>2, <1>2, <1>4 DEF AtMost
  <2> QED BY <2>1, <2>2, <1>2
<1>15. wanted > Len(stream) => after = <<>>
  BY <1>2, <1>3, <1>4, EmptySeq DEF AtMost
<1> HIDE DEF front, left
<1>16. rs' \in ResultSetRecord
  <2> DEFINE affected == rs.affected + count
  <2>1. affected \in Nat
    BY <1>2, <1>9
  <2>2. left \in Seq(Row) /\ front \in Seq(Row)
    BY <1>11
  <2> HIDE DEF affected
  <2>3. rs' = [rs EXCEPT
                !.finished = finished, !.prefetched = left, !.rowSet = front,
                !.affected = affected, !.position = position, !.rowPosition = position]
    BY <1>6 DEF affected
  <2> QED BY <1>1, <1>10, <2>1, <2>2, <2>3 DEF ResultSetRecord
<1>17. /\ rs'.run = rs.run /\ rs'.total = rs.total /\ rs'.columns = rs.columns
       /\ rs'.finished = finished /\ rs'.prefetched = left
       /\ rs'.rowSet = front /\ rs'.affected = rs.affected + count
       /\ rs'.position = position /\ rs'.rowPosition = position
  BY <1>1, <1>6 DEF ResultSetRecord
<1>18. rs.finished => rs'.finished /\ stream' = stream
  BY <1>5, <1>7, <1>17 DEF finished
<1>19. ~rs.finished /\ rs'.finished => stream' = <<>>
  BY <1>7, <1>15, <1>17 DEF finished
<1>20. rs'.rowSet \o (rs'.prefetched \o stream') = rs.prefetched \o stream
  BY <1>7, <1>12, <1>17
<1>21. Len(rs'.rowSet) = count /\ stream' \in Seq(Row)
  BY <1>3, <1>7, <1>11, <1>17
<1>22. count = 0 => rs'.finished /\ rs'.prefetched = <<>>
  BY <1>14, <1>17 DEF finished
<1> QED BY <1>1, <1>7, <1>9, <1>13, <1>16, <1>17, <1>18, <1>19, <1>20, <1>21, <1>22 DEF position
-----------------------------------------------------------------------------
(* The position, the counters and the end of the result set.               *)

\* Before the first row, inside the result set, or past its end.
AtStart == delivered = <<>> /\ rs.rowSet = <<>> /\ rs.position = 0
Inside == rs.position + Len(rs.rowSet) = Len(delivered) + 1
PastEnd == rs.finished /\ rs.prefetched = <<>> /\ rs.rowSet = <<>>

ReaderInv ==
    HasResultSet =>
        /\ rs.columns /\ rs.finished => stream = <<>>
        /\ rs.affected = Len(delivered)
        /\ rs.rowSet # <<>> => rs.rowPosition = rs.position
        /\ AtStart \/ Inside \/ PastEnd
        /\ rs.columns /\ PastEnd => rowCount = rs.affected

\* A fetch, whether it answers or throws, keeps the types of the queues.
LEMMA FetchTyped ==
    ASSUME StatementAssumption, RowsTyped, NEW size \in RowSetSizes, Fetch(size)
    PROVE  RowsTyped'
<1>1. CASE DecodeThrows(rs, stream, size)
  BY <1>1, FetchThrowsEffect DEF RowsTyped
<1>2. CASE ~DecodeThrows(rs, stream, size)
  <2>1. /\ rs' \in ResultSetRecord /\ stream' \in Seq(Row) /\ run' = run
        /\ delivered' = delivered \o rs'.rowSet
        /\ rowCount' = IF rs'.rowSet = <<>> THEN rs'.affected ELSE rowCount
    BY <1>2, FetchAnswersEffect
  <2>2. delivered' \in Seq(Row) /\ rowCount' \in Nat
    BY <2>1, ConcatProperties DEF RowsTyped, ResultSetRecord
  <2> QED BY <2>1, <2>2 DEF RowsTyped
<1> QED BY <1>1, <1>2

\* A run begins with an empty result set, whose number and size are the run's.
LEMMA BeganTyped ==
    ASSUME RowsTyped, NEW n \in Nat, NEW columns \in BOOLEAN,
           NEW before \in Seq(Row), NEW bad \in [1..n -> BOOLEAN],
           Began(n, columns, before, bad)
    PROVE  /\ RowsTyped' /\ rs' \in ResultSetRecord
           /\ rs'.run = run + 1 /\ rs'.total = n /\ rs'.columns = columns
           /\ rs'.finished = ~columns /\ rs'.affected = 0 /\ rs'.position = 0
           /\ rs'.prefetched = <<>> /\ rs'.rowSet = <<>>
<1>1. run + 1 \in Nat /\ <<>> \in Seq(Row)
  BY EmptySeq DEF RowsTyped
<1>2. RowsOf(run + 1, bad) \in Seq(Row)
  BY <1>1, RowsOfRun
<1>3. stream' \in Seq(Row)
  BY <1>1, <1>2, ConcatProperties DEF Began
<1>4. rs' \in ResultSetRecord
  BY <1>1 DEF Began, NewResultSet, ResultSetRecord
<1>5. /\ rs'.run = run + 1 /\ rs'.total = n /\ rs'.columns = columns
      /\ rs'.finished = ~columns /\ rs'.affected = 0 /\ rs'.position = 0
      /\ rs'.prefetched = <<>> /\ rs'.rowSet = <<>>
  BY DEF Began, NewResultSet
<1>6. RowsTyped'
  BY <1>1, <1>3, <1>4 DEF RowsTyped, Began
<1> QED BY <1>4, <1>5, <1>6

\* Every call keeps the types of the queues a row passes through.
LEMMA RowsTypedNext ==
    ASSUME StatementAssumption, RowsTyped, [Next]_vars
    PROVE  RowsTyped'
<1>1. CASE Kept \/ UNCHANGED vars
  BY <1>1 DEF Kept, RowsTyped, vars
<1>2. CASE Dropped
  BY <1>2, EmptySeq DEF Dropped, RowsTyped
<1>3. CASE BeganSome
  BY <1>3, BeganTyped DEF BeganSome
<1>4. ASSUME NEW size \in RowSetSizes, Fetch(size) PROVE RowsTyped'
  BY <1>4, FetchTyped
<1> QED BY <1>1, <1>2, <1>3, <1>4, StepKinds

\* Every call keeps the position, the counters and the end of the result set.
LEMMA ReaderNext ==
    ASSUME StatementAssumption, RowsTyped, ReaderInv, [Next]_vars
    PROVE  ReaderInv'
<1>1. CASE Kept \/ UNCHANGED vars
  BY <1>1 DEF Kept, vars, ReaderInv, HasResultSet, AtStart, Inside, PastEnd
<1>2. CASE Dropped
  BY <1>2 DEF Dropped, ReaderInv, HasResultSet
<1>3. ASSUME NEW n \in Nat, NEW columns \in BOOLEAN,
             NEW before \in Seq(Row), NEW bad \in [1..n -> BOOLEAN],
             Began(n, columns, before, bad)
      PROVE  ReaderInv'
  <2>1. delivered' = <<>> /\ Len(<<>>) = 0
    BY <1>3, EmptySeq DEF Began
  <2>2. /\ rs'.columns = columns /\ rs'.finished = ~columns /\ rs'.affected = 0
        /\ rs'.position = 0 /\ rs'.rowSet = <<>>
    BY <1>3, BeganTyped
  <2>3. ~(rs'.columns /\ rs'.finished)
    BY <2>2
  <2> QED BY <2>1, <2>2, <2>3 DEF ReaderInv, AtStart, PastEnd
<1>4. ASSUME NEW size \in RowSetSizes, Fetch(size), DecodeThrows(rs, stream, size)
      PROVE  ReaderInv'
  <2>1. /\ rs \in ResultSetRecord /\ ~rs.finished /\ ~rs'.finished
        /\ rs'.affected = rs.affected /\ rs'.rowSet = <<>>
        /\ rs'.position = rs.position + Len(rs.rowSet) /\ delivered' = delivered
    BY <1>4, FetchThrowsEffect
  <2>2. HasResultSet
    BY <1>4 DEF Fetch
  <2>3. Len(<<>>) = 0 /\ rs.position \in Nat /\ Len(rs.rowSet) \in Nat /\ Len(delivered) \in Nat
    BY <2>1, EmptySeq, LenProperties DEF ResultSetRecord, RowsTyped
  <2>4. (AtStart \/ Inside)'
    <3>1. CASE AtStart
      BY <3>1, <2>1, <2>3 DEF AtStart
    <3>2. CASE Inside
      BY <3>2, <2>1, <2>3 DEF Inside
    <3> QED BY <3>1, <3>2, <2>1, <2>2 DEF ReaderInv, PastEnd
  <2> QED BY <2>1, <2>2, <2>4 DEF ReaderInv, PastEnd
<1>5. ASSUME NEW size \in RowSetSizes, Fetch(size), ~DecodeThrows(rs, stream, size)
      PROVE  ReaderInv'
  <2>1. HasResultSet
    BY <1>5 DEF Fetch
  <2>2. PICK count \in Nat :
           /\ rs \in ResultSetRecord /\ rs' \in ResultSetRecord
           /\ rs'.columns = rs.columns
           /\ rs'.affected = rs.affected + count
           /\ Len(rs'.rowSet) = count
           /\ rs'.position = IF count = 0 THEN 0
                             ELSE AtLeast(rs.position + Len(rs.rowSet), 1)
           /\ rs'.rowPosition = rs'.position
           /\ rs.finished => rs'.finished /\ stream' = stream
           /\ ~rs.finished /\ rs'.finished => stream' = <<>>
           /\ rs.finished /\ rs.prefetched = <<>> => count = 0
           /\ count = 0 => rs'.finished /\ rs'.prefetched = <<>>
           /\ delivered' = delivered \o rs'.rowSet
           /\ rowCount' = IF rs'.rowSet = <<>> THEN rs'.affected ELSE rowCount
    BY <1>5, FetchAnswersEffect
  <2>3. /\ rs.position \in Nat /\ Len(rs.rowSet) \in Nat /\ Len(delivered) \in Nat
        /\ delivered \in Seq(Row) /\ rs'.rowSet \in Seq(Row) /\ rs.rowSet \in Seq(Row)
    BY <2>2, LenProperties DEF ResultSetRecord, RowsTyped
  <2>4. Len(delivered') = Len(delivered) + count
    BY <2>2, <2>3, ConcatProperties
  <2>5. count = 0 <=> rs'.rowSet = <<>>
    BY <2>2, <2>3, EmptySeq
  <2>6. rs'.columns /\ rs'.finished => stream' = <<>>
    BY <2>1, <2>2 DEF ReaderInv
  <2>7. rs'.affected = Len(delivered')
    BY <2>1, <2>2, <2>4 DEF ReaderInv
  <2>8. (Inside \/ PastEnd)'
    <3>1. CASE count = 0
      BY <3>1, <2>2, <2>5 DEF PastEnd
    <3>2. CASE count # 0 /\ AtStart
      <4>1. Len(delivered) = 0 /\ rs.position + Len(rs.rowSet) = 0
        BY <3>2, EmptySeq DEF AtStart
      <4>2. rs'.position = 1
        BY <4>1, <3>2, <2>2 DEF AtLeast
      <4> QED BY <4>1, <4>2, <2>2, <2>4 DEF Inside
    <3>3. CASE count # 0 /\ Inside
      <4>1. rs'.position = Len(delivered) + 1
        BY <3>3, <2>2, <2>3 DEF Inside, AtLeast
      <4> QED BY <4>1, <2>2, <2>3, <2>4 DEF Inside
    <3>4. CASE count # 0 /\ PastEnd
      BY <3>4, <2>2 DEF PastEnd
    <3> QED BY <3>1, <3>2, <3>3, <3>4, <2>1 DEF ReaderInv
  <2> QED BY <2>2, <2>6, <2>7, <2>8 DEF ReaderInv, PastEnd
<1> QED BY <1>1, <1>2, <1>3, <1>4, <1>5, StepKinds DEF BeganSome
-----------------------------------------------------------------------------
(* The rows between the server and the application.                        *)

Flying == IF HasResultSet THEN InFlight ELSE stream

NoneNewer(rows, r) == \A i \in 1..Len(rows) : rows[i].run <= r

\* Without a result set the leftovers are still in order, and none is newer
\* than the last run: the next run's rows come after them.
FlightInv ==
    /\ Ascending(Flying) /\ NoneNewer(Flying, run)
    /\ HasResultSet => rs.run = run
    /\ OwnRowsLast

\* What is left of the rows in flight keeps their order.
LEMMA SuffixInOrder ==
    ASSUME NEW a \in Seq(Row), NEW b \in Seq(Row), NEW r \in Nat,
           Ascending(a \o b), NoneNewer(a \o b, r)
    PROVE  Ascending(b) /\ NoneNewer(b, r)
<1>1. Len(a) \in Nat /\ Len(b) \in Nat /\ Len(a \o b) = Len(a) + Len(b)
  BY LenProperties, ConcatProperties
<1>2. \A i \in 1..Len(b) : Len(a) + i \in 1..Len(a \o b) /\ (a \o b)[Len(a) + i] = b[i]
  <2> TAKE i \in 1..Len(b)
  <2>1. Len(a) + i \in 1..(Len(a) + Len(b)) /\ ~(Len(a) + i <= Len(a)) /\ Len(a) + i - Len(a) = i
    BY <1>1
  <2> QED BY <1>1, <2>1, ConcatProperties
<1>3. NoneNewer(b, r)
  BY <1>2 DEF NoneNewer
<1>4. ASSUME NEW i \in 1..Len(b), NEW j \in 1..Len(b), i < j
      PROVE  \/ b[i].run < b[j].run
             \/ b[i].run = b[j].run /\ b[i].pos < b[j].pos
  <2> DEFINE ab == a \o b
             k == Len(a) + i
             l == Len(a) + j
  <2>1. k < l
    BY <1>1, <1>4
  <2>2. k \in 1..Len(ab) /\ ab[k] = b[i] /\ l \in 1..Len(ab) /\ ab[l] = b[j]
    BY <1>2
  <2>3. Ascending(ab)
    OBVIOUS
  <2> HIDE DEF ab, k, l
  <2>4. \/ ab[k].run < ab[l].run
        \/ ab[k].run = ab[l].run /\ ab[k].pos < ab[l].pos
    BY <2>1, <2>2, <2>3 DEF Ascending
  <2> QED BY <2>2, <2>4
<1> QED BY <1>3, <1>4 DEF Ascending

\* `rows` are the rows of `before`, then those of `new`.
Joined(rows, before, new) ==
    /\ Len(rows) = Len(before) + Len(new)
    /\ \A i \in 1..(Len(before) + Len(new)) :
          rows[i] = IF i <= Len(before) THEN before[i] ELSE new[i - Len(before)]

\* The last rows are the `n` rows of run `r`, and all others are older.
EndsWithRun(rows, r, n) ==
    \E older \in Nat :
        /\ Len(rows) = older + n
        /\ \A i \in 1..older : rows[i].run < r
        /\ \A i \in 1..n : rows[older + i].run = r /\ rows[older + i].pos = i

WholeRun(new, r) == \A i \in 1..Len(new) : new[i].run = r /\ new[i].pos = i

\* A run appended to older rows keeps the order, and is the tail of them all.
LEMMA RunAppended ==
    ASSUME NEW before \in Seq(Row), NEW new \in Seq(Row), NEW rows \in Seq(Row),
           NEW r \in Nat, WholeRun(new, r + 1), Joined(rows, before, new),
           Ascending(before), NoneNewer(before, r)
    PROVE  /\ Ascending(rows) /\ NoneNewer(rows, r + 1)
           /\ EndsWithRun(rows, r + 1, Len(new))
<1> DEFINE n == Len(new)
<1>1. r + 1 \in Nat /\ Len(before) \in Nat /\ n \in Nat
  BY LenProperties
<1>2. /\ Len(rows) = Len(before) + n
      /\ \A i \in 1..(Len(before) + n) :
            rows[i] = IF i <= Len(before) THEN before[i] ELSE new[i - Len(before)]
      /\ \A i \in 1..n : new[i].run = r + 1 /\ new[i].pos = i
  BY DEF Joined, WholeRun
<1> HIDE DEF n
<1>3. \A i \in 1..Len(before) : rows[i] = before[i] /\ rows[i].run <= r
  BY <1>1, <1>2 DEF NoneNewer
<1>4. \A i \in (Len(before) + 1)..(Len(before) + n) :
         rows[i].run = r + 1 /\ rows[i].pos = i - Len(before)
  <2> TAKE i \in (Len(before) + 1)..(Len(before) + n)
  <2>1. i - Len(before) \in 1..n /\ rows[i] = new[i - Len(before)]
    BY <1>1, <1>2
  <2> QED BY <1>2, <2>1
<1>5. \A i \in 1..Len(before) : before[i].run \in Nat
  <2> TAKE i \in 1..Len(before)
  <2>1. before[i] \in Row
    BY ElementOfSeq
  <2> QED BY <2>1 DEF Row
<1>6. \A i \in 1..Len(before) : rows[i].run < r + 1
  BY <1>3, <1>5
<1>7. \A i \in 1..n : rows[Len(before) + i].run = r + 1 /\ rows[Len(before) + i].pos = i
  <2> TAKE i \in 1..n
  <2> DEFINE k == Len(before) + i
  <2>1. k \in (Len(before) + 1)..(Len(before) + n) /\ k - Len(before) = i
    BY <1>1
  <2> HIDE DEF k
  <2>2. rows[k].run = r + 1 /\ rows[k].pos = i
    BY <1>4, <2>1
  <2> QED BY <2>2 DEF k
<1>8. NoneNewer(rows, r + 1)
  BY <1>1, <1>2, <1>4, <1>6, <1>3, <1>5 DEF NoneNewer
<1>9. ASSUME NEW i \in 1..Len(rows), NEW j \in 1..Len(rows), i < j
      PROVE  \/ rows[i].run < rows[j].run
             \/ rows[i].run = rows[j].run /\ rows[i].pos < rows[j].pos
  <2>1. CASE j <= Len(before)
    <3>1. i \in 1..Len(before) /\ j \in 1..Len(before)
      BY <1>1, <1>2, <1>9, <2>1
    <3> QED BY <3>1, <1>3, <1>9 DEF Ascending
  <2>2. CASE i <= Len(before) /\ ~(j <= Len(before))
    <3>1. i \in 1..Len(before) /\ j \in (Len(before) + 1)..(Len(before) + n)
      BY <1>1, <1>2, <2>2
    <3> QED BY <3>1, <1>4, <1>6
  <2>3. CASE ~(i <= Len(before))
    <3>1. /\ i \in (Len(before) + 1)..(Len(before) + n)
          /\ j \in (Len(before) + 1)..(Len(before) + n)
          /\ i - Len(before) < j - Len(before)
      BY <1>1, <1>2, <1>9, <2>3
    <3> QED BY <3>1, <1>4
  <2> QED BY <1>1, <1>2, <2>1, <2>2, <2>3
<1>10. EndsWithRun(rows, r + 1, n)
  BY <1>1, <1>2, <1>6, <1>7 DEF EndsWithRun
<1>11. Ascending(rows)
  BY <1>9 DEF Ascending
<1> QED BY <1>8, <1>10, <1>11 DEF n

\* What is in the stream is in order, cursor or not.
LEMMA LeftoversInOrder ==
    ASSUME RowsTyped, FlightInv
    PROVE  Ascending(stream) /\ NoneNewer(stream, run)
<1>1. CASE ~HasResultSet
  BY <1>1 DEF FlightInv, Flying
<1>2. CASE HasResultSet
  <2> DEFINE taken == delivered \o rs.prefetched
  <2>1. taken \in Seq(Row) /\ stream \in Seq(Row) /\ run \in Nat
    BY <1>2, ConcatProperties DEF RowsTyped, HasResultSet, ResultSetRecord
  <2>2. Ascending(taken \o stream) /\ NoneNewer(taken \o stream, run)
    BY <1>2 DEF FlightInv, Flying, InFlight
  <2> HIDE DEF taken
  <2> QED BY <2>1, <2>2, SuffixInOrder
<1> QED BY <1>1, <1>2

\* Three queues in a row, however they are grouped.
LEMMA Regrouped ==
    ASSUME NEW a, NEW b, NEW c, a \in Seq(Row), b \in Seq(Row), c \in Seq(Row)
    PROVE  (a \o b) \o c = a \o (b \o c)
<1> HIDE DEF Row
<1> QED BY ConcatAssociative

\* A fetch moves rows from queue to queue; all of them stay in flight.
LEMMA FetchConserves ==
    ASSUME StatementAssumption, RowsTyped, NEW size \in RowSetSizes, Fetch(size)
    PROVE  /\ InFlight' = InFlight
           /\ HasResultSet /\ HasResultSet' /\ run' = run
           /\ rs'.run = rs.run /\ rs'.total = rs.total
<1>1. HasResultSet /\ rs \in ResultSetRecord /\ delivered \in Seq(Row) /\ stream \in Seq(Row)
  BY DEF Fetch, RowsTyped, HasResultSet
<1>2. rs.prefetched \in Seq(Row)
  BY <1>1 DEF ResultSetRecord
<1>3. (delivered \o rs.prefetched) \o stream = delivered \o (rs.prefetched \o stream)
  <2> DEFINE ahead == rs.prefetched
  <2>1. ahead \in Seq(Row)
    BY <1>2
  <2> HIDE DEF ahead
  <2>2. (delivered \o ahead) \o stream = delivered \o (ahead \o stream)
    BY <1>1, <2>1, Regrouped
  <2> QED BY <2>2 DEF ahead
<1>4. \A r \in ResultSetRecord : r # NoResultSet
  BY DEF ResultSetRecord, NoResultSet
<1>5. CASE DecodeThrows(rs, stream, size)
  <2>1. /\ rs' \in ResultSetRecord /\ stream' \in Seq(Row) /\ delivered' = delivered
        /\ rs'.prefetched \o stream' = rs.prefetched \o stream
        /\ rs'.run = rs.run /\ rs'.total = rs.total /\ run' = run
    BY <1>5, FetchThrowsEffect
  <2>2. rs'.prefetched \in Seq(Row)
    BY <2>1 DEF ResultSetRecord
  <2>3. (delivered \o rs'.prefetched) \o stream' = delivered \o (rs'.prefetched \o stream')
    <3> DEFINE ahead == rs'.prefetched
               rest == stream'
    <3>1. ahead \in Seq(Row) /\ rest \in Seq(Row)
      BY <2>1, <2>2
    <3> HIDE DEF ahead, rest
    <3>2. (delivered \o ahead) \o rest = delivered \o (ahead \o rest)
      BY <1>1, <3>1, Regrouped
    <3> QED BY <3>2 DEF ahead, rest
  <2> QED BY <1>1, <1>3, <1>4, <2>1, <2>3 DEF InFlight, HasResultSet
<1>6. CASE ~DecodeThrows(rs, stream, size)
  <2>1. /\ rs' \in ResultSetRecord /\ stream' \in Seq(Row)
        /\ delivered' = delivered \o rs'.rowSet
        /\ rs'.rowSet \o (rs'.prefetched \o stream') = rs.prefetched \o stream
        /\ rs'.run = rs.run /\ rs'.total = rs.total /\ run' = run
    BY <1>6, FetchAnswersEffect
  <2>2. rs'.prefetched \in Seq(Row) /\ rs'.rowSet \in Seq(Row)
    BY <2>1 DEF ResultSetRecord
  <2> DEFINE ahead == rs'.prefetched
             front == rs'.rowSet
             rest == stream'
  <2>3. ahead \in Seq(Row) /\ front \in Seq(Row) /\ rest \in Seq(Row)
    BY <2>1, <2>2
  <2> HIDE DEF ahead, front, rest
  <2>4. ((delivered \o front) \o ahead) \o rest = delivered \o (front \o (ahead \o rest))
    <3>0. delivered \in Seq(Row)
      BY <1>1
    <3>1. ahead \o rest \in Seq(Row) /\ delivered \o front \in Seq(Row)
      BY <2>3, <3>0, ConcatProperties
    <3>2. ((delivered \o front) \o ahead) \o rest = (delivered \o front) \o (ahead \o rest)
      BY <2>3, <3>1, Regrouped
    <3>3. (delivered \o front) \o (ahead \o rest) = delivered \o (front \o (ahead \o rest))
      BY <2>3, <3>0, <3>1, Regrouped
    <3> QED BY <3>2, <3>3
  <2>5. InFlight' = InFlight
    BY <1>3, <2>1, <2>4 DEF InFlight, ahead, front, rest
  <2> QED BY <1>1, <1>4, <2>1, <2>5 DEF HasResultSet
<1> QED BY <1>5, <1>6

\* No step loses, repeats or reorders a row in flight.
LEMMA FlightNext ==
    ASSUME StatementAssumption, RowsTyped, FlightInv, [Next]_vars
    PROVE  FlightInv'
<1>1. CASE Kept \/ UNCHANGED vars
  BY <1>1 DEF Kept, vars, FlightInv, Flying, InFlight, HasResultSet, OwnRowsLast
<1>2. CASE Dropped
  BY <1>2, LeftoversInOrder DEF Dropped, FlightInv, Flying, HasResultSet, OwnRowsLast
<1>3. ASSUME NEW n \in Nat, NEW columns \in BOOLEAN,
             NEW before \in Seq(Row), NEW bad \in [1..n -> BOOLEAN],
             Leftover(before), Began(n, columns, before, bad)
      PROVE  FlightInv'
  <2>1. /\ RowsTyped' /\ rs' \in ResultSetRecord
        /\ rs'.run = run + 1 /\ rs'.total = n /\ rs'.prefetched = <<>>
    BY <1>3, BeganTyped
  <2>2. /\ run' = run + 1 /\ delivered' = <<>> /\ stream' = before \o RowsOf(run + 1, bad)
    BY <1>3 DEF Began
  <2>3. Ascending(before) /\ NoneNewer(before, run) /\ run \in Nat
    <3>1. CASE before = stream
      BY <3>1, LeftoversInOrder DEF RowsTyped
    <3>2. CASE before = <<>>
      <4>1. <<>> \in Seq(Row) /\ 1..Len(<<>>) = {} /\ run \in Nat
        BY EmptySeq DEF RowsTyped
      <4>2. Ascending(<<>>) /\ NoneNewer(<<>>, run)
        BY <4>1 DEF Ascending, NoneNewer
      <4> QED BY <3>2, <4>1, <4>2, Zenon
    <3> QED BY <1>3, <3>1, <3>2 DEF Leftover
  <2>4. Ascending(stream') /\ NoneNewer(stream', run + 1) /\ EndsWithRun(stream', run + 1, n)
    <3> DEFINE new == RowsOf(run + 1, bad)
               rows == before \o new
    <3>1. new \in Seq(Row) /\ Len(new) = n /\ WholeRun(new, run + 1)
      <4>1. run + 1 \in Nat
        BY <2>3
      <4>2. /\ new \in Seq(Row) /\ Len(new) = n
            /\ \A i \in 1..n : new[i].run = run + 1 /\ new[i].pos = i
        BY <4>1, RowsOfRun
      <4> QED BY <4>2 DEF WholeRun
    <3> HIDE DEF new
    <3>2. rows \in Seq(Row) /\ Joined(rows, before, new)
      BY <3>1, ConcatProperties DEF Joined
    <3>3. rows = stream'
      BY <2>2 DEF new
    <3> HIDE DEF rows
    <3>4. /\ Ascending(rows) /\ NoneNewer(rows, run + 1)
          /\ EndsWithRun(rows, run + 1, Len(new))
      BY <2>3, <3>1, <3>2, RunAppended
    <3> QED BY <3>1, <3>3, <3>4
  <2>5. InFlight' = stream'
    <3>1. stream' \in Seq(Row) /\ <<>> \in Seq(Row)
      BY <2>1, EmptySeq DEF RowsTyped
    <3>2. <<>> \o <<>> = <<>> /\ <<>> \o stream' = stream'
      BY <3>1, ConcatEmptySeq
    <3>3. InFlight' = (<<>> \o <<>>) \o stream'
      BY <2>1, <2>2, Zenon DEF InFlight
    <3> QED BY <3>2, <3>3
  <2>6. HasResultSet'
    BY <2>1 DEF HasResultSet, ResultSetRecord, NoResultSet
  <2>7. OwnRowsLast'
    <3>1. PICK older \in Nat :
             /\ Len(InFlight') = older + rs'.total
             /\ \A i \in 1..older : InFlight'[i].run < rs'.run
             /\ \A i \in 1..rs'.total :
                   InFlight'[older + i].run = rs'.run /\ InFlight'[older + i].pos = i
      BY <2>1, <2>4, <2>5 DEF EndsWithRun
    <3>2. older = Len(InFlight') - rs'.total /\ older >= 0
      BY <2>1, <3>1
    <3> QED BY <3>1, <3>2 DEF OwnRowsLast
  <2> QED BY <2>1, <2>2, <2>4, <2>5, <2>6, <2>7 DEF FlightInv, Flying
<1>4. ASSUME NEW size \in RowSetSizes, Fetch(size) PROVE FlightInv'
  BY <1>4, FetchConserves DEF FlightInv, Flying, OwnRowsLast
<1> QED BY <1>1, <1>2, <1>3, <1>4, StepKinds DEF BeganSome
-----------------------------------------------------------------------------
(* The flags, the parameter sets and the forward execution.                *)

\* Whatever becomes of a submission, the attempts stay a list of attempts.
LEMMA SubmissionTyped ==
    ASSUME RowsTyped, NEW idx \in Nat, NEW earlier \in Seq(Attempt), NEW answer,
           Served(idx, earlier, answer) \/ Failed(idx, earlier, answer)
    PROVE  nextParamSet' \in Nat /\ attempts' \in Seq(Attempt)
<1>1. run + 1 \in Nat /\ idx + 1 \in Nat
  BY DEF RowsTyped
<1>2. \A ok \in BOOLEAN : [set |-> idx, run |-> run + 1, ok |-> ok] \in Attempt
  BY <1>1 DEF Attempt
<1>3. \A a \in Attempt : Append(earlier, a) \in Seq(Attempt)
  OBVIOUS
<1>4. CASE NothingLeft(idx, earlier) \/ NotSent(idx, earlier, answer)
  BY <1>4 DEF NothingLeft, NotSent
<1>5. CASE Answered(idx, earlier, answer)
  BY <1>5, <1>1, <1>2, <1>3 DEF Answered
<1>6. CASE Refused(idx, earlier, answer)
  BY <1>6, <1>2, <1>3 DEF Refused
<1> QED BY <1>4, <1>5, <1>6 DEF Served, Failed

\* Every call leaves the flags consistent, and a forward execution waits to be
\* reported exactly while is_forward_executed is set.
LEMMA ControlNext ==
    ASSUME StatementAssumption, RowsTyped, ControlTyped, ForwardInv, [Next]_vars
    PROVE  ControlTyped' /\ ForwardInv'
<1>1. CASE UNCHANGED vars
  BY <1>1 DEF vars, ControlTyped, ForwardInv
<1>2. CASE CloseCursor
  BY <1>2 DEF CloseCursor, CloseCursorState, ControlTyped, ForwardInv, RowsTyped
<1>3. ASSUME NEW parses \in BOOLEAN, Prepare(parses) PROVE ControlTyped' /\ ForwardInv'
  BY <1>3 DEF Prepare, CloseCursorState, ControlTyped, ForwardInv
<1>4. CASE ExecuteForwarded
  <2>1. isForward /\ credit = 1
    BY <1>4, Zenon DEF ExecuteForwarded, ForwardInv
  <2>2. credit' = 0 /\ isForward' = FALSE
    BY <1>4, <2>1 DEF ExecuteForwarded
  <2>3. UNCHANGED <<isPrepared, isExecuted, nextParamSet, paramSetSize, attempts, closed>>
    BY <1>4 DEF ExecuteForwarded
  <2> QED BY <2>2, <2>3 DEF ControlTyped, ForwardInv
<1>5. <<>> \in Seq(Attempt) /\ 0 \in Nat
  BY EmptySeq
<1>6. ASSUME NEW answer \in Answers, Execute(answer) PROVE ControlTyped' /\ ForwardInv'
  <2>1. nextParamSet' \in Nat /\ attempts' \in Seq(Attempt)
    BY <1>5, <1>6, SubmissionTyped DEF Execute
  <2> QED BY <1>6, <2>1 DEF Execute, ControlTyped, ForwardInv
<1>7. ASSUME NEW answer \in Answers, ExecDirect(answer) PROVE ControlTyped' /\ ForwardInv'
  <2>1. nextParamSet' \in Nat /\ attempts' \in Seq(Attempt)
    BY <1>5, <1>7, SubmissionTyped DEF ExecDirect
  <2> QED BY <1>7, <2>1 DEF ExecDirect, ControlTyped, ForwardInv
<1>8. ASSUME NEW answer \in Answers, ForwardExecute(answer) PROVE ControlTyped' /\ ForwardInv'
  <2>1. nextParamSet' \in Nat /\ attempts' \in Seq(Attempt)
    BY <1>5, <1>8, SubmissionTyped DEF ForwardExecute
  <2>2. isPrepared /\ ~isForward /\ credit = 0
    BY <1>8, Zenon DEF ForwardExecute, ForwardInv
  <2>3. CASE isExecuted' = TRUE /\ isForward' = TRUE /\ credit' = credit + 1
    <3>1. credit' = 1
      BY <2>2, <2>3
    <3>2. UNCHANGED <<isPrepared, paramSetSize, closed>>
      BY <1>8 DEF ForwardExecute
    <3> QED BY <2>1, <2>2, <2>3, <3>1, <3>2 DEF ControlTyped, ForwardInv
  <2>4. CASE UNCHANGED <<isExecuted, isForward, credit>>
    BY <1>8, <2>1, <2>4 DEF ForwardExecute, ControlTyped, ForwardInv
  <2> QED BY <1>8, <2>3, <2>4 DEF ForwardExecute
<1>9. ASSUME NEW answer \in Answers, MoreResults(answer) PROVE ControlTyped' /\ ForwardInv'
  <2>1. nextParamSet' \in Nat /\ attempts' \in Seq(Attempt)
    BY <1>9, SubmissionTyped DEF MoreResults, ControlTyped, Served, Failed
  <2> QED BY <1>9, <2>1 DEF MoreResults, flags, ControlTyped, ForwardInv
<1>10. ASSUME NEW n \in 1..MaxRows, GetTypeInfo(n) PROVE ControlTyped' /\ ForwardInv'
  BY <1>10 DEF GetTypeInfo, flags, ControlTyped, ForwardInv
<1>11. ASSUME NEW size \in RowSetSizes, Fetch(size) PROVE ControlTyped' /\ ForwardInv'
  BY <1>11 DEF Fetch, flags, ControlTyped, ForwardInv
<1>12. ASSUME NEW n \in 0..MaxParamSets, SetParamSetSize(n) PROVE ControlTyped' /\ ForwardInv'
  BY <1>12 DEF SetParamSetSize, flags, ControlTyped, ForwardInv, StatementAssumption
<1> QED
  BY <1>1, <1>2, <1>3, <1>4, <1>6, <1>7, <1>8, <1>9, <1>10, <1>11, <1>12 DEF Next
-----------------------------------------------------------------------------
StatementInv == RowsTyped /\ ControlTyped /\ ForwardInv /\ ReaderInv /\ FlightInv

\* A fresh statement satisfies the invariant.
LEMMA StatementInit == Init => StatementInv
<1> SUFFICES ASSUME Init PROVE StatementInv
  OBVIOUS
<1>1. /\ stream = <<>> /\ rs = NoResultSet /\ rowCount = 0 /\ run = 0 /\ delivered = <<>>
      /\ attempts = <<>> /\ ~HasResultSet
  BY DEF Init, HasResultSet
<1>2. /\ <<>> \in Seq(Row) /\ <<>> \in Seq(Attempt)
      /\ Ascending(<<>>) /\ NoneNewer(<<>>, 0)
  <2>1. <<>> \in Seq(Row) /\ <<>> \in Seq(Attempt) /\ 1..Len(<<>>) = {}
    BY EmptySeq
  <2> QED BY <2>1 DEF Ascending, NoneNewer
<1>3. RowsTyped
  BY <1>1, <1>2 DEF RowsTyped
<1>4. ControlTyped /\ ForwardInv
  BY <1>2 DEF Init, ControlTyped, ForwardInv
<1>5. ReaderInv /\ FlightInv
  BY <1>1, <1>2, Zenon DEF ReaderInv, FlightInv, Flying, OwnRowsLast
<1> QED BY <1>3, <1>4, <1>5 DEF StatementInv

\* The invariant holds in every state, for any number of runs and rows.
THEOREM InvariantHolds == Spec => []StatementInv
<1>1. StatementInv /\ [Next]_vars => StatementInv'
  BY StatementAssumption, RowsTypedNext, ControlNext, ReaderNext, FlightNext DEF StatementInv
<1> QED BY StatementInit, <1>1, PTL DEF Spec

\* Every variable of a statement keeps its type.
THEOREM TypeCorrect == Spec => []TypeOK
<1>1. StatementInv => TypeOK
  <2>1. (credit = IF isForward THEN 1 ELSE 0) /\ isForward \in BOOLEAN => credit \in Nat
    OBVIOUS
  <2> QED BY <2>1 DEF StatementInv, RowsTyped, ControlTyped, ForwardInv, TypeOK
<1> QED BY <1>1, InvariantHolds, PTL

\* The rows of the current cursor are the last ones in flight, all of them.
THEOREM OwnRowsStayLast == Spec => []OwnRowsLast
<1>1. StatementInv => OwnRowsLast
  BY DEF StatementInv, FlightInv
<1> QED BY <1>1, InvariantHolds, PTL

\* The application is given rows in the order in which the server sent them,
\* those left over by earlier runs first.
THEOREM RowsInServerOrder == Spec => []InServerOrder
<1>1. StatementInv => InServerOrder
  BY DEF StatementInv, FlightInv, Flying, InServerOrder
<1> QED BY <1>1, InvariantHolds, PTL

\* A cursor read to its end leaves nothing in the stream for the next run.
THEOREM DrainedStreamIsEmpty == Spec => []DrainedLeavesNothing
<1>1. StatementInv => DrainedLeavesNothing
  BY DEF StatementInv, ReaderInv, DrainedLeavesNothing
<1> QED BY <1>1, InvariantHolds, PTL

\* Between the server and the application no row of the current cursor is lost,
\* repeated or reordered, and a drained cursor leaves nothing behind.
THEOREM NoRowLost == Spec => []RowsConserved
<1>1. OwnRowsLast /\ InServerOrder /\ DrainedLeavesNothing => RowsConserved
  BY DEF RowsConserved
<1> QED BY <1>1, OwnRowsStayLast, RowsInServerOrder, DrainedStreamIsEmpty, PTL

\* SQL_ATTR_ROW_NUMBER is the number of the first row of the row set, whatever
\* fetches failed before it.
THEOREM RowNumbersAreRight == Spec => []RowNumberRight
<1>1. ASSUME StatementInv, HasResultSet, rs.rowSet # <<>>
      PROVE  CurrentRowPosition(rs) = Len(delivered) - Len(rs.rowSet) + 1
  <2>1. rs \in ResultSetRecord /\ rs.rowSet \in Seq(Row) /\ delivered \in Seq(Row)
    BY <1>1 DEF StatementInv, RowsTyped, HasResultSet, ResultSetRecord
  <2>2. rs.position \in Nat /\ Len(rs.rowSet) \in Nat \ {0} /\ Len(delivered) \in Nat
    BY <1>1, <2>1, EmptySeq, LenProperties DEF ResultSetRecord
  <2>3. Inside /\ rs.rowPosition = rs.position
    BY <1>1 DEF StatementInv, ReaderInv, AtStart, PastEnd
  <2>4. rs.position = Len(delivered) - Len(rs.rowSet) + 1
    <3> DEFINE shown == Len(rs.rowSet)
               given == Len(delivered)
               first == rs.position
    <3>1. first + shown = given + 1
      BY <2>3 DEF Inside
    <3>2. first \in Nat /\ shown \in Nat /\ given \in Nat
      BY <2>2
    <3> HIDE DEF shown, given, first
    <3>3. first = given - shown + 1
      BY <3>1, <3>2
    <3> QED BY <3>3 DEF shown, given, first
  <2>5. rs.position \in rs.position .. (rs.position + Len(rs.rowSet) - 1)
    BY <2>2
  <2> QED BY <2>3, <2>4, <2>5 DEF CurrentRowPosition
<1>2. StatementInv => RowNumberRight
  BY <1>1 DEF RowNumberRight
<1> QED BY <1>2, InvariantHolds, PTL

\* After SQL_NO_DATA, SQLRowCount is the number of rows the application got.
THEOREM RowCountRight == Spec => []RowCountAtEnd
<1>1. StatementInv => RowCountAtEnd
  BY DEF StatementInv, ReaderInv, PastEnd, RowCountAtEnd
<1> QED BY <1>1, InvariantHolds, PTL

\* Row number and row count agree with the rows delivered.
THEOREM CountsAreRight == Spec => []CountsRight
<1>1. RowNumberRight /\ RowCountAtEnd => CountsRight
  BY DEF CountsRight
<1> QED BY <1>1, RowNumbersAreRight, RowCountRight, PTL

\* A forward execution is reported by exactly one SQLExecute.
THEOREM ForwardedOnce == Spec => []ForwardReportedOnce
<1>1. StatementInv => ForwardReportedOnce
  BY DEF StatementInv, ControlTyped, ForwardInv, ForwardReportedOnce
<1> QED BY <1>1, InvariantHolds, PTL
-----------------------------------------------------------------------------
(* Parameter sets.                                                         *)

Counted(tries, n) ==
    /\ n = Cardinality(ServedBefore(tries, Len(tries) + 1))
    /\ \A k \in 1..Len(tries) : tries[k].set = Cardinality(ServedBefore(tries, k))

\* Nothing is served of a new execution.
LEMMA NoneCounted == Counted(<<>>, 0)
<1>1. Len(<<>>) = 0 /\ 1..0 = {}
  OBVIOUS
<1>2. ServedBefore(<<>>, Len(<<>>) + 1) = {}
  BY <1>1 DEF ServedBefore
<1>3. Cardinality({}) = 0
  BY FS_EmptySet
<1> QED BY <1>1, <1>2, <1>3 DEF Counted

\* An attempt at the next set counts if it is served.
LEMMA OneMoreCounted ==
    ASSUME NEW tries \in Seq(Attempt), NEW n \in Nat, Counted(tries, n),
           NEW a \in Attempt, a.set = n, NEW m \in Nat, m = IF a.ok THEN n + 1 ELSE n
    PROVE  Counted(Append(tries, a), m)
<1> DEFINE s == Append(tries, a)
           l == Len(tries)
<1>1. /\ l \in Nat /\ s \in Seq(Attempt) /\ Len(s) = l + 1
      /\ \A i \in 1..l : s[i] = tries[i]
      /\ s[l + 1] = a
  BY LenProperties
<1> HIDE DEF s
<1>2. ASSUME NEW k \in 1..(l + 1) PROVE ServedBefore(s, k) = ServedBefore(tries, k)
  <2>1. \A i \in 1..(k - 1) : i \in 1..l
    BY <1>1
  <2> HIDE DEF l
  <2> QED BY <1>1, <2>1 DEF ServedBefore
<1>3. ASSUME NEW k \in 1..Len(s) PROVE s[k].set = Cardinality(ServedBefore(s, k))
  <2>1. k \in 1..(l + 1)
    BY <1>1
  <2>2. CASE k = l + 1
    BY <1>1, <1>2, <2>1, <2>2 DEF Counted
  <2>3. CASE k # l + 1
    <3>1. k \in 1..l
      BY <1>1, <2>1, <2>3
    <3> QED BY <1>1, <1>2, <2>1, <3>1 DEF Counted
  <2> QED BY <2>2, <2>3
<1> DEFINE S == ServedBefore(s, l + 1)
           T == ServedBefore(s, l + 2)
<1>4. IsFiniteSet(S) /\ Cardinality(S) = n
  <2>1. l + 1 \in 1..(l + 1)
    BY <1>1
  <2>2. S = ServedBefore(tries, Len(tries) + 1)
    BY <1>2, <2>1
  <2>3. IsFiniteSet(1..l) /\ S \in SUBSET (1..l)
    BY <1>1, FS_Interval DEF ServedBefore
  <2> HIDE DEF S, l
  <2> QED BY <2>2, <2>3, FS_Subset DEF Counted
<1>5. T = IF a.ok THEN S \cup {l + 1} ELSE S
  BY <1>1 DEF ServedBefore
<1>6. l + 1 \notin S
  BY <1>1 DEF ServedBefore
<1>7. Cardinality(T) = m
  <2> HIDE DEF S, T, l
  <2>1. CASE a.ok
    BY <1>4, <1>5, <1>6, <2>1, FS_AddElement
  <2>2. CASE ~a.ok
    BY <1>4, <1>5, <2>2
  <2> QED BY <2>1, <2>2
<1>8. m = Cardinality(ServedBefore(s, Len(s) + 1))
  BY <1>1, <1>7
<1>9. Counted(s, m)
  BY <1>3, <1>8 DEF Counted
<1> QED BY <1>9 DEF s

\* A submission goes on counting from where it starts.
LEMMA SubmissionCounts ==
    ASSUME RowsTyped, NEW idx \in Nat, NEW earlier \in Seq(Attempt), Counted(earlier, idx),
           NEW answer, Served(idx, earlier, answer) \/ Failed(idx, earlier, answer)
    PROVE  Counted(attempts', nextParamSet')
<1>1. CASE NothingLeft(idx, earlier) \/ NotSent(idx, earlier, answer)
  BY <1>1 DEF NothingLeft, NotSent
<1> DEFINE a(ok) == [set |-> idx, run |-> run + 1, ok |-> ok]
<1>2. a(TRUE) \in Attempt /\ a(FALSE) \in Attempt
  BY DEF Attempt, RowsTyped
<1>3. CASE Answered(idx, earlier, answer)
  <2>1. attempts' = Append(earlier, a(TRUE)) /\ nextParamSet' = idx + 1
    BY <1>3 DEF Answered
  <2>2. a(TRUE).set = idx /\ a(TRUE).ok /\ idx + 1 \in Nat
    OBVIOUS
  <2> DEFINE b == a(TRUE)
  <2>3. b \in Attempt /\ b.set = idx /\ b.ok
    BY <1>2, <2>2
  <2> HIDE DEF b
  <2>4. Counted(Append(earlier, b), idx + 1)
    BY <2>2, <2>3, OneMoreCounted
  <2> QED BY <2>1, <2>4 DEF b
<1>4. CASE Refused(idx, earlier, answer)
  <2>1. attempts' = Append(earlier, a(FALSE)) /\ nextParamSet' = idx
    BY <1>4 DEF Refused
  <2> DEFINE b == a(FALSE)
  <2>2. b \in Attempt /\ b.set = idx /\ ~b.ok
    BY <1>2
  <2> HIDE DEF b
  <2>3. Counted(Append(earlier, b), idx)
    BY <2>2, OneMoreCounted
  <2> QED BY <2>1, <2>3 DEF b
<1> QED BY <1>1, <1>3, <1>4 DEF Served, Failed

\* Every call counts on, starts over, or sends nothing.
LEMMA CountedNext ==
    ASSUME RowsTyped, ControlTyped, Counted(attempts, nextParamSet), [Next]_vars
    PROVE  Counted(attempts', nextParamSet')
<1>0. nextParamSet \in Nat /\ attempts \in Seq(Attempt) /\ <<>> \in Seq(Attempt) /\ 0 \in Nat
  BY EmptySeq DEF ControlTyped
<1>1. CASE UNCHANGED <<attempts, nextParamSet>>
  BY <1>1
<1>2. ASSUME NEW answer, Served(0, <<>>, answer) \/ Failed(0, <<>>, answer)
      PROVE  Counted(attempts', nextParamSet')
  BY <1>0, <1>2, NoneCounted, SubmissionCounts
<1>3. ASSUME NEW answer, \/ Served(nextParamSet, attempts, answer)
                         \/ Failed(nextParamSet, attempts, answer)
      PROVE  Counted(attempts', nextParamSet')
  BY <1>0, <1>3, SubmissionCounts
<1>4. CASE CloseCursor \/ (\E parses \in BOOLEAN : Prepare(parses)) \/ ExecuteForwarded
  BY <1>1, <1>4 DEF CloseCursor, Prepare, ExecuteForwarded
<1>5. ASSUME NEW answer \in Answers, Execute(answer) \/ ExecDirect(answer) \/ ForwardExecute(answer)
      PROVE  Counted(attempts', nextParamSet')
  BY <1>2, <1>5 DEF Execute, ExecDirect, ForwardExecute
<1>6. ASSUME NEW answer \in Answers, MoreResults(answer)
      PROVE  Counted(attempts', nextParamSet')
  BY <1>1, <1>3, <1>6 DEF MoreResults, Served
<1>7. CASE \/ \E n \in 1..MaxRows : GetTypeInfo(n)
           \/ \E size \in RowSetSizes : Fetch(size)
           \/ \E n \in 0..MaxParamSets : SetParamSetSize(n)
  BY <1>1, <1>7 DEF GetTypeInfo, Fetch, SetParamSetSize
<1>8. CASE UNCHANGED vars
  BY <1>1, <1>8 DEF vars
<1> QED BY <1>4, <1>5, <1>6, <1>7, <1>8 DEF Next

\* Whatever is refused, repeated or executed again, the parameter sets are
\* served in order, each once, for any number of them.
THEOREM ParamSetsAreServedOnce == Spec => []ParamSetsServedOnce
<1>1. Init => Counted(attempts, nextParamSet)
  BY NoneCounted DEF Init
<1>2. StatementInv /\ Counted(attempts, nextParamSet) /\ [Next]_vars
        => Counted(attempts, nextParamSet)'
  BY CountedNext DEF StatementInv
<1>3. Counted(attempts, nextParamSet) => ParamSetsServedOnce
  BY DEF Counted, ParamSetsServedOnce
<1> QED BY <1>1, <1>2, <1>3, InvariantHolds, PTL DEF Spec
=============================================================================
