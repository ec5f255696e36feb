------------------------------ MODULE ResultSet ------------------------------
(***************************************************************************)
(* The result set of a statement: rows the server callback has written to  *)
(* the statement's text stream are decoded into `prefetched`, moved from   *)
(* there into the current row set, and retired by the next fetch.          *)
(*                                                                         *)
(* Kept: every queue a row passes through, the read-ahead, the end of the  *)
(* stream, the row-set position, and a row whose decoding (or whose        *)
(* mutator) throws.  Abstracted: the fields of a row, column metadata.  A  *)
(* row carries the run of the server that produced it and its position in  *)
(* that run, which the code does not store.                                *)
(***************************************************************************)
EXTENDS Integers, Sequences, FiniteSets

CONSTANT PrefetchAtLeast   \* rows read ahead by one fetch (100 in the code)

ASSUME PrefetchAssumption == PrefetchAtLeast \in Nat \ {0}

Row == [run: Nat, pos: Nat \ {0}, bad: BOOLEAN]

\* `total`, the number of rows the server sent in this run, is a ghost.
ResultSetRecord ==
    [run: Nat, columns: BOOLEAN, total: Nat, finished: BOOLEAN,
     prefetched: Seq(Row), rowSet: Seq(Row), position: Nat,
     rowPosition: Nat, affected: Nat]

NoResultSet == [run |-> "none"]

\* Without columns in the signature there is nothing to read.
NewResultSet(run, columns, total) ==
    [run |-> run, columns |-> columns, total |-> total,
     finished |-> ~columns, prefetched |-> <<>>, rowSet |-> <<>>,
     position |-> 0, rowPosition |-> 0, affected |-> 0]

-----------------------------------------------------------------------------
(* Operators named ..._Fault are not part of the model: each is the next    *)
(* definition with a plausible slip, to see that a property notices it.     *)

AtMost(a, b) == IF a <= b THEN a ELSE b
AtLeast(a, b) == IF a >= b THEN a ELSE b

\* How many rows tryPrefetchRows asks the stream for in a fetch of `size` rows.
Wanted(rs, size) ==
    IF rs.finished \/ Len(rs.prefetched) >= size
    THEN 0
    ELSE AtLeast(size, PrefetchAtLeast) - Len(rs.prefetched)

\* The positions in the stream of the rows it can have.
Available(rs, stream, size) == 1..AtMost(Wanted(rs, size), Len(stream))

DecodeThrows(rs, stream, size) ==
    \E i \in Available(rs, stream, size) : stream[i].bad

\* How many rows leave the stream: those before which none has thrown.
Obtained(rs, stream, size) ==
    Cardinality({i \in Available(rs, stream, size) :
                    \A j \in 1..(i - 1) : ~stream[j].bad})

\* readNextRow finds the end of the stream.
FindsEnd_Fault(rs, stream, size) == FALSE
FindsEnd(rs, stream, size) == Wanted(rs, size) > Len(stream)

StreamAfter(rs, stream, size) ==
    SubSeq(stream, Obtained(rs, stream, size) + 1, Len(stream))

\* The read-ahead queue once the rows are decoded; a half-decoded row stays.
Decoded(rs, stream, size) ==
    rs.prefetched \o SubSeq(stream, 1, Obtained(rs, stream, size))

\* The rows of the old row set are retired before anything can throw.
RetireRowSet_Fault(rs) == [rs EXCEPT !.rowSet = <<>>]
RetireRowSet(rs) == [rs EXCEPT !.rowSet = <<>>,
                               !.position = @ + Len(rs.rowSet)]

\* An exception out of readNextRow or out of the mutator.
FetchThrows(rs, stream, size) ==
    [RetireRowSet(rs) EXCEPT !.prefetched = Decoded(rs, stream, size)]

\* What stays in the read-ahead queue when `count` of the decoded rows go.
ReadAheadLeft_Fault(decoded, count) == <<>>
ReadAheadLeft(decoded, count) == SubSeq(decoded, count + 1, Len(decoded))

\* affected_row_count counts rows, not fetches.
AffectedAfter(rs, count) == rs.affected + count

FetchRowSet(rs, stream, size) ==
    LET decoded  == Decoded(rs, stream, size)
        count    == AtMost(size, Len(decoded))
        position == IF count = 0 THEN 0 ELSE AtLeast(RetireRowSet(rs).position, 1)
    IN  [rs EXCEPT
            !.finished    = @ \/ FindsEnd(rs, stream, size),
            !.prefetched  = ReadAheadLeft(decoded, count),
            !.rowSet      = SubSeq(decoded, 1, count),
            !.affected    = AffectedAfter(rs, count),
            !.position    = position,
            !.rowPosition = position]

\* SQL_ATTR_ROW_NUMBER; 0 when there is no current row, and then SQLGetData
\* reports 24000.
CurrentRowPosition(rs) ==
    IF rs.rowPosition \in rs.position .. (rs.position + Len(rs.rowSet) - 1)
    THEN rs.rowPosition
    ELSE 0
=============================================================================
