------------------------------ MODULE Statement ------------------------------
(***************************************************************************)
(* One statement handle: its prepared/executed/forward-executed flags, the *)
(* parameter-set cursor, the stream its server callback fills, and its     *)
(* result reader.  Every action is one ODBC call, run to completion: the   *)
(* driver submits a query and waits for the last callback inside the call. *)
(*                                                                         *)
(* The server is external: a submission is answered with rows (with or     *)
(* without a signature), with an error, or never leaves the driver.  The   *)
(* application may make any call at any time; only the driver's own        *)
(* guards restrict it.                                                     *)
(***************************************************************************)
EXTENDS ResultSet

CONSTANTS MaxRuns,        \* bound: server runs and local catalog results
          MaxRows,        \* bound: rows of one run
          MaxParamSets,   \* bound: SQL_ATTR_PARAMSET_SIZE
          RowSetSizes     \* the values of SQL_ATTR_ROW_ARRAY_SIZE tried

ASSUME StatementAssumption ==
    /\ MaxRuns \in Nat
    /\ MaxRows \in Nat
    /\ MaxParamSets \in Nat \ {0}
    /\ RowSetSizes \subseteq Nat

VARIABLES
    isPrepared,     \* Statement::is_prepared
    isExecuted,     \* Statement::is_executed
    isForward,      \* Statement::is_forward_executed
    nextParamSet,   \* Statement::next_param_set_idx
    paramSetSize,   \* SQL_DESC_ARRAY_SIZE of the effective APD
    stream,         \* unread rows of cbCookie.queryResultStrm
    rs,             \* the result set of result_reader, or NoResultSet
    rowCount,       \* SQL_DIAG_ROW_COUNT of the diagnostic header
    \* Ghosts: what the properties compare the code's state with.
    run,            \* the last run that produced a result
    delivered,      \* rows that entered a row set of the current cursor
    attempts,       \* the parameter sets sent since the last Execute
    credit,         \* runs begun by Execute/forward execution not yet reported
    closed          \* the last run when SQLCloseCursor was last called

flags == <<isPrepared, isExecuted, isForward>>
vars == <<isPrepared, isExecuted, isForward, nextParamSet, paramSetSize,
          stream, rs, rowCount, run, delivered, attempts, credit,
          closed>>

Attempt == [set: Nat, run: Nat, ok: BOOLEAN]

\* What the server may answer: `bad` marks the rows the driver cannot decode.
Answers ==
    [kind: {"rows"}, bad: UNION {[1..n -> BOOLEAN] : n \in 0..MaxRows}]
        \cup [kind: {"noSignature", "error", "notSent"}, bad: {<<>>}]

RowsOf(r, bad) == [i \in 1..Len(bad) |-> [run |-> r, pos |-> i, bad |-> bad[i]]]

HasResultSet == rs # NoResultSet

Init ==
    /\ isPrepared = FALSE /\ isExecuted = FALSE /\ isForward = FALSE
    /\ nextParamSet = 0
    /\ paramSetSize = 1
    /\ stream = <<>>
    /\ rs = NoResultSet
    /\ rowCount = 0
    /\ run = 0
    /\ delivered = <<>>
    /\ attempts = <<>>
    /\ credit = 0
    /\ closed = 0

-----------------------------------------------------------------------------
(* requestNextPackOfResultSets(idx): `earlier` are the attempts made before *)
(* it in the same execution.                                               *)

\* All the parameter sets are done: only the reader goes.
NothingLeft(idx, earlier) ==
    /\ idx >= paramSetSize
    /\ rs' = NoResultSet
    /\ delivered' = <<>>
    /\ nextParamSet' = idx
    /\ attempts' = earlier
    /\ UNCHANGED <<stream, rowCount, run>>

\* A parameter cannot be converted, or the request cannot be scheduled.
NotSent(idx, earlier, answer) ==
    /\ idx < paramSetSize
    /\ answer.kind = "notSent"
    /\ rs' = NoResultSet
    /\ delivered' = <<>>
    /\ nextParamSet' = idx
    /\ rowCount' = 0
    /\ attempts' = earlier
    /\ UNCHANGED <<stream, run>>

\* The callbacks append the rows to whatever the stream already holds.
Answered(idx, earlier, answer) ==
    /\ idx < paramSetSize
    /\ answer.kind \in {"rows", "noSignature"}
    /\ run < MaxRuns
    /\ run' = run + 1
    /\ stream' = stream \o RowsOf(run', answer.bad)
    /\ rs' = NewResultSet(run', answer.kind = "rows", Len(answer.bad))
    /\ delivered' = <<>>
    /\ nextParamSet' = idx + 1
    /\ rowCount' = 0
    /\ attempts' = Append(earlier, [set |-> idx, run |-> run', ok |-> TRUE])

\* The error is found after the parameter-set cursor has moved.
Refused_Fault(idx, earlier, answer) ==
    /\ idx < paramSetSize
    /\ answer.kind = "error"
    /\ run < MaxRuns
    /\ run' = run + 1
    /\ stream' = <<>>
    /\ rs' = NewResultSet(run', FALSE, 0)
    /\ delivered' = <<>>
    /\ nextParamSet' = idx + 1
    /\ rowCount' = 0
    /\ attempts' = Append(earlier, [set |-> idx, run |-> run', ok |-> FALSE])

\* The reader is made before the error flag is looked at, and stays.
Refused(idx, earlier, answer) ==
    /\ idx < paramSetSize
    /\ answer.kind = "error"
    /\ run < MaxRuns
    /\ run' = run + 1
    /\ stream' = <<>>
    /\ rs' = NewResultSet(run', FALSE, 0)
    /\ delivered' = <<>>
    /\ nextParamSet' = idx
    /\ rowCount' = 0
    /\ attempts' = Append(earlier, [set |-> idx, run |-> run', ok |-> FALSE])

Served(idx, earlier, answer) ==
    NothingLeft(idx, earlier) \/ Answered(idx, earlier, answer)

Failed(idx, earlier, answer) ==
    NotSent(idx, earlier, answer) \/ Refused(idx, earlier, answer)
-----------------------------------------------------------------------------
(* The ODBC calls.                                                         *)

\* closeCursor: the stream is left as it is.
CloseCursorState ==
    /\ rs' = NoResultSet
    /\ delivered' = <<>>
    /\ isExecuted' = FALSE
    /\ isForward' = FALSE

\* SQLCloseCursor, SQLCancel and SQLFreeStmt(SQL_CLOSE).
CloseCursor ==
    /\ CloseCursorState
    /\ credit' = 0
    /\ closed' = run
    /\ UNCHANGED <<isPrepared, nextParamSet, paramSetSize, stream, rowCount,
                   run, attempts>>

\* SQLPrepare; the parameter scan may throw after the cursor is closed.
Prepare(parses) ==
    /\ CloseCursorState
    /\ isPrepared' = parses
    /\ credit' = 0
    /\ UNCHANGED <<nextParamSet, paramSetSize, stream, rowCount, run, attempts,
                   closed>>

\* is_forward_executed is not cleared.
ExecuteForwarded_Fault ==
    /\ isPrepared /\ isExecuted /\ isForward
    /\ credit' = credit - 1
    /\ UNCHANGED <<flags, nextParamSet, paramSetSize, stream, rs, rowCount, run,
                   delivered, attempts, closed>>

\* SQLExecute after a forward execution: the result is already there.
ExecuteForwarded ==
    /\ isPrepared /\ isExecuted /\ isForward
    /\ isForward' = FALSE
    /\ credit' = credit - 1
    /\ UNCHANGED <<isPrepared, isExecuted, nextParamSet, paramSetSize, stream,
                   rs, rowCount, run, delivered, attempts, closed>>

\* SQLExecute; a run begun here is reported at once, so credit is even.
Execute(answer) ==
    /\ isPrepared
    /\ ~(isExecuted /\ isForward)
    /\ \/ Served(0, <<>>, answer) /\ isExecuted' = TRUE
       \/ Failed(0, <<>>, answer) /\ UNCHANGED isExecuted
    /\ UNCHANGED <<isPrepared, isForward, paramSetSize, credit, closed>>

\* SQLExecDirect and the catalog functions: prepare, then execute.
ExecDirect(answer) ==
    /\ isPrepared' = TRUE
    /\ isForward' = FALSE
    /\ \/ Served(0, <<>>, answer) /\ isExecuted' = TRUE
       \/ Failed(0, <<>>, answer) /\ isExecuted' = FALSE
    /\ credit' = 0
    /\ UNCHANGED <<paramSetSize, closed>>

\* SQLNumResultCols on a prepared statement executes it ahead of time.
ForwardExecute(answer) ==
    /\ isPrepared /\ ~isExecuted
    /\ \/ /\ Served(0, <<>>, answer)
          /\ isExecuted' = TRUE /\ isForward' = TRUE /\ credit' = credit + 1
       \/ /\ Failed(0, <<>>, answer)
          /\ UNCHANGED <<isExecuted, isForward, credit>>
    /\ UNCHANGED <<isPrepared, paramSetSize, closed>>

\* SQLMoreResults: the current result set goes, the next set is sent.
MoreResults(answer) ==
    /\ isExecuted
    /\ \/ /\ nextParamSet >= paramSetSize
          /\ rs' = NoResultSet /\ delivered' = <<>>
          /\ rowCount' = 0
          /\ UNCHANGED <<nextParamSet, attempts, stream, run>>
       \/ Answered(nextParamSet, attempts, answer)
       \/ Failed(nextParamSet, attempts, answer)
    /\ UNCHANGED <<flags, paramSetSize, credit, closed>>

\* SQLGetTypeInfo writes its rows to the same stream.
GetTypeInfo(n) ==
    /\ run < MaxRuns
    /\ run' = run + 1
    /\ stream' = stream \o RowsOf(run', [i \in 1..n |-> FALSE])
    /\ rs' = NewResultSet(run', TRUE, n)
    /\ delivered' = <<>>
    /\ UNCHANGED <<flags, nextParamSet, paramSetSize, rowCount, attempts,
                   credit, closed>>

\* SQLFetch and SQLFetchScroll(SQL_FETCH_NEXT) with a row array of `size`.
\* Any other orientation, a size of 0 and a missing result set change nothing.
Fetch(size) ==
    /\ HasResultSet /\ size > 0
    /\ stream' = StreamAfter(rs, stream, size)
    /\ IF DecodeThrows(rs, stream, size)
       THEN /\ rs' = FetchThrows(rs, stream, size)
            /\ UNCHANGED <<rowCount, delivered>>
       ELSE /\ rs' = FetchRowSet(rs, stream, size)
            /\ delivered' = delivered \o rs'.rowSet
            /\ rowCount' = IF rs'.rowSet = <<>> THEN rs'.affected ELSE rowCount
    /\ UNCHANGED <<flags, nextParamSet, paramSetSize, run, attempts, credit,
                   closed>>

\* SQLSetStmtAttr(SQL_ATTR_PARAMSET_SIZE).
SetParamSetSize(n) ==
    /\ paramSetSize' = n
    /\ UNCHANGED <<flags, nextParamSet, stream, rs, rowCount, run, delivered,
                   attempts, credit, closed>>

Next ==
    \/ CloseCursor
    \/ \E parses \in BOOLEAN : Prepare(parses)
    \/ ExecuteForwarded
    \/ \E answer \in Answers :
          \/ Execute(answer)
          \/ ExecDirect(answer)
          \/ ForwardExecute(answer)
          \/ MoreResults(answer)
    \/ \E n \in 1..MaxRows : GetTypeInfo(n)
    \/ \E size \in RowSetSizes : Fetch(size)
    \/ \E n \in 0..MaxParamSets : SetParamSetSize(n)

Spec == Init /\ [][Next]_vars
-----------------------------------------------------------------------------
TypeOK ==
    /\ isPrepared \in BOOLEAN /\ isExecuted \in BOOLEAN /\ isForward \in BOOLEAN
    /\ nextParamSet \in Nat
    /\ paramSetSize \in Nat
    /\ stream \in Seq(Row)
    /\ rs \in ResultSetRecord \cup {NoResultSet}
    /\ rowCount \in Nat
    /\ run \in Nat
    /\ delivered \in Seq(Row)
    /\ attempts \in Seq(Attempt)
    /\ credit \in Nat
    /\ closed \in Nat

\* All the rows on their way to the application, oldest first.
InFlight == delivered \o rs.prefetched \o stream

\* The rows of the current cursor are the last ones in flight, all of them.
OwnRowsLast ==
    HasResultSet =>
        LET older == Len(InFlight) - rs.total
        IN  /\ older >= 0
            /\ \A i \in 1..older : InFlight[i].run < rs.run
            /\ \A i \in 1..rs.total :
                  InFlight[older + i].run = rs.run /\ InFlight[older + i].pos = i

\* The order in which the server sent the rows.
Ascending(rows) ==
    \A i, j \in 1..Len(rows) :
        i < j => \/ rows[i].run < rows[j].run
                 \/ rows[i].run = rows[j].run /\ rows[i].pos < rows[j].pos

\* Rows left over by earlier runs can only come before the cursor's own rows,
\* and all come in the order in which the server sent them.
InServerOrder == HasResultSet => Ascending(InFlight)

\* A cursor that was read to its end leaves nothing for the next run.
DrainedLeavesNothing ==
    HasResultSet /\ rs.columns /\ rs.finished => stream = <<>>

\* Between the server and the application no row of the current cursor is
\* lost, repeated or reordered, whatever was read ahead, whatever failed to
\* decode and whatever an earlier run left in the stream; and a cursor read
\* to its end leaves nothing to the next.
RowsConserved == OwnRowsLast /\ InServerOrder /\ DrainedLeavesNothing

\* SQL_ATTR_ROW_NUMBER counts the rows the application was given: the first
\* row of the row set is the one after all the rows of the earlier row sets,
\* also when a fetch in between failed on a row it could not decode.
RowNumberRight ==
    HasResultSet /\ rs.rowSet # <<>> =>
        CurrentRowPosition(rs) = Len(delivered) - Len(rs.rowSet) + 1

\* Once SQLFetch has answered SQL_NO_DATA, SQLRowCount reports the number of
\* rows the application was given.
RowCountAtEnd ==
    HasResultSet /\ rs.columns /\ rs.finished
        /\ rs.prefetched = <<>> /\ rs.rowSet = <<>>
    => rowCount = Len(delivered)

\* What the driver reports of a cursor agrees with the rows it delivered: the
\* row number at any time, the row count at the end.
CountsRight == RowNumberRight /\ RowCountAtEnd

\* A forward execution is reported by exactly one SQLExecute: no run is
\* reported twice, and none is begun while another waits to be reported.
ForwardReportedOnce ==
    /\ credit \in 0..1
    /\ credit = 1 <=> isForward

\* The attempts before the k-th whose parameter set was served.
ServedBefore(tries, k) == {i \in 1..(k - 1) : tries[i].ok}

\* Every attempt since the last execution, served or refused, was of the first
\* parameter set not served yet: the sets served are 0, 1, ... in order, each
\* once, and next_param_set_idx is the one after them.
ParamSetsServedOnce ==
    /\ nextParamSet = Cardinality(ServedBefore(attempts, Len(attempts) + 1))
    /\ \A k \in 1..Len(attempts) :
          attempts[k].set = Cardinality(ServedBefore(attempts, k))

\* A client that keeps fetching sees every cursor it leaves open come to
\* SQL_NO_DATA.
AtEnd == HasResultSet => rs.finished /\ rs.prefetched = <<>> /\ rs.rowSet = <<>>
FetchLoop == \E size \in RowSetSizes \ {0} : Fetch(size)
FairSpec == Spec /\ WF_vars(FetchLoop)
FetchLoopEnds == HasResultSet ~> AtEnd

-----------------------------------------------------------------------------
(* What the comments of the code say, and the code does not do.            *)

\* "Close the cursor, ignore the remaining results" (odbc.cpp): no row of a run
\* from before the close is shown after it.
CloseIgnoresRemaining == \A i \in 1..Len(delivered) : delivered[i].run > closed
=============================================================================
