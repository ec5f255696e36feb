----------------------------- MODULE Descriptor -----------------------------
(***************************************************************************)
(* A descriptor: SQL_DESC_COUNT and a vector of records, which may hold    *)
(* more records than the count says, left from earlier bindings.  Record 0 *)
(* is the bookmark, which nothing reads, and is left out; the header       *)
(* fields are those of Statement and HandleRegistry.  A record is whatever *)
(* the module that extends this one says it is.                            *)
(***************************************************************************)
EXTENDS Integers, Sequences

Larger(a, b) == IF a >= b THEN a ELSE b
Smaller(a, b) == IF a <= b THEN a ELSE b

NewDescriptor == [count |-> 0, records |-> <<>>]

\* Descriptor::getRecord(num), which makes the record: those past the count
\* are initialized again (`blank`) on the way.
GetRecord_Fault(d, num, blank) ==
    [count   |-> Larger(d.count, num),
     records |-> [i \in 1..Larger(Len(d.records), Larger(d.count, num)) |->
        IF i <= Len(d.records) THEN d.records[i] ELSE blank]]
GetRecord_Bookmark(d, num, blank) ==
    [GetRecord_Fault(d, num, blank) EXCEPT !.count = Larger(d.count, Len(d.records) + 1)]
GetRecord(d, num, blank) ==
    IF num = 0 THEN d ELSE
    [count   |-> Larger(d.count, num),
     records |-> [i \in 1..Larger(Len(d.records), Larger(d.count, num)) |->
        IF i <= Len(d.records) /\ i \notin (d.count + 1)..num THEN d.records[i] ELSE blank]]

SetCount(d, n) == [d EXCEPT !.count = n]
SetRecord(d, num, r) == [d EXCEPT !.records[num] = r]

\* The record that is in effect: one the vector does not hold yet is blank.
RecordAt(d, num, blank) ==
    IF num <= d.count /\ num <= Len(d.records) THEN d.records[num] ELSE blank

\* The number of the highest record below num that `bound` holds of; 0 if none.
HighestBelow(d, num, bound(_)) ==
    LET below == {i \in 1..(num - 1) : i <= d.count /\ bound(d.records[i])}
    IN  IF below = {} THEN 0 ELSE CHOOSE i \in below : \A j \in below : j <= i
=============================================================================
