---------------------------- MODULE ColumnBinding ----------------------------
(***************************************************************************)
(* The application row descriptors and the column bindings in them, as     *)
(* SQLBindCol, SQLFreeStmt(SQL_UNBIND), SQLSetDescField, SQLSetDescRec,    *)
(* SQLCopyDesc, SQLGetData and the fetches leave them.  Each descriptor is *)
(* the effective one of any number of statements.                          *)
(*                                                                         *)
(* Kept: the count, the records and the stale ones past it, the type of a  *)
(* record with its effect on the data pointer, failures half-way.          *)
(* Abstracted: SQL_DESC_OCTET_LENGTH_PTR and SQL_DESC_INDICATOR_PTR are    *)
(* one pointer; lengths and precisions go with the type.                   *)
(***************************************************************************)
EXTENDS Descriptor

CONSTANTS Desc, MaxColumn,
          CType,             \* types a column can be bound as, besides Default
          Buffer,            \* addresses of the application
          Null, Default

Column == 1..MaxColumn
BlankRecord == [type |-> Default, data |-> Null, size |-> Null]
Type == CType \cup {Default}
Pointer == Buffer \cup {Null}
Record == [type: Type, data: Pointer, size: Pointer]

ASSUME ColumnBindingAssumption ==
    /\ MaxColumn \in Nat
    /\ Null \notin Buffer /\ Default \notin CType

VARIABLES
    desc,      \* the descriptors
    asked,     \* ghost: the bindings the application has asked for
    reopened,  \* ghost: columns it has exposed by raising the count itself
    broken,    \* ghost: columns whose last SQLBindCol failed
    dressed    \* ghost: descriptors it has written to as descriptors

vars == <<desc, asked, reopened, broken, dressed>>
ghosts == <<asked, reopened, broken, dressed>>

IsBound(r) == r.data # Null \/ r.size # Null

\* The records in effect, to which a fetch writes where they are bound.
InEffect(d, c) == RecordAt(desc[d], c, BlankRecord)
-----------------------------------------------------------------------------
Init ==
    /\ desc = [d \in Desc |-> NewDescriptor]
    /\ asked = [d \in Desc |-> [c \in Column |-> BlankRecord]]
    /\ reopened = [d \in Desc |-> {}]
    /\ broken = [d \in Desc |-> {}]
    /\ dressed = [d \in Desc |-> FALSE]

\* DescriptorRecord::onAttrChange: a new type takes the data pointer away.
SetType(r, t) ==
    IF r.type = t THEN r ELSE [r EXCEPT !.type = t, !.data = Null]

Ask(d, c, r) ==
    /\ asked' = [asked EXCEPT ![d][c] = r]
    /\ reopened' = [reopened EXCEPT ![d] = @ \ {c}]
    /\ broken' = [broken EXCEPT ![d] = @ \ {c}]

\* SQLBindCol with two null pointers at or past the highest record: the count
\* goes down to the highest column still bound.
HighestLeft_Fault(d, c) == Smaller(desc[d].count, c - 1)
HighestLeft(d, c) ==
    HighestBelow(GetRecord(desc[d], desc[d].count, BlankRecord),
                 Smaller(desc[d].count + 1, c), IsBound)

Unbind(d, c) ==
    /\ c >= desc[d].count
    /\ desc' = [desc EXCEPT ![d] =
          SetCount(IF c > 1 THEN GetRecord(@, @.count, BlankRecord) ELSE @,
                   HighestLeft(d, c))]
    /\ asked' = [asked EXCEPT ![d] = [k \in Column |->
                    IF k > HighestLeft(d, c) THEN BlankRecord ELSE @[k]]]
    /\ reopened' = [reopened EXCEPT ![d] = @ \cap 1..HighestLeft(d, c)]
    /\ broken' = [broken EXCEPT ![d] = @ \cap 1..HighestLeft(d, c)]
    /\ UNCHANGED dressed

\* SQLBindCol otherwise.
Bind(d, c, type, data, size) ==
    /\ ~(data = Null /\ size = Null /\ c >= desc[d].count)
    /\ LET found == GetRecord(desc[d], c, BlankRecord)
           typed == SetType(found.records[c], type)
       IN  desc' = [desc EXCEPT ![d] =
              SetRecord(found, c, [typed EXCEPT !.data = data, !.size = size])]
    /\ Ask(d, c, [type |-> type, data |-> data, size |-> size])
    /\ UNCHANGED dressed

\* It throws for a negative length after it has set the type, and puts the
\* count back.
BindFails(d, c, type, data, size) ==
    /\ ~(data = Null /\ size = Null /\ c >= desc[d].count)
    /\ LET found == GetRecord(desc[d], c, BlankRecord)
           typed == SetType(found.records[c], type)
       IN  desc' = [desc EXCEPT ![d] =
              SetCount(SetRecord(found, c, typed), desc[d].count)]
    /\ broken' = [broken EXCEPT ![d] = IF c <= desc[d].count THEN @ \cup {c} ELSE @]
    /\ UNCHANGED <<asked, reopened, dressed>>

\* SQLSetDescField(SQL_DESC_COUNT), and SQLFreeStmt(SQL_UNBIND) with n = 0.
SetDescCount(d, n) ==
    /\ desc' = [desc EXCEPT ![d] = SetCount(@, n)]
    /\ asked' = [asked EXCEPT ![d] = [k \in Column |->
                    IF k > n THEN BlankRecord ELSE @[k]]]
    /\ reopened' = [reopened EXCEPT ![d] = (@ \cap 1..n) \cup (desc[d].count + 1)..n]
    /\ broken' = [broken EXCEPT ![d] = @ \cap 1..n]

ResetColBindings(d) == SetDescCount(d, 0) /\ dressed' = [dressed EXCEPT ![d] = FALSE]
RaiseOrLowerCount(d, n) == SetDescCount(d, n) /\ dressed' = [dressed EXCEPT ![d] = TRUE]

\* SQLSetDescField of a record's field; the record is made first, and stays
\* when the type is refused (`how` leaves the record as it is).
SetDescField(d, c, how(_)) ==
    /\ LET found == GetRecord(desc[d], c, BlankRecord)
       IN  desc' = [desc EXCEPT ![d] = SetRecord(found, c, how(found.records[c]))]
    /\ asked' = [asked EXCEPT ![d][c] = how(@)]
    /\ dressed' = [dressed EXCEPT ![d] = TRUE]
    /\ UNCHANGED reopened

SetDescType(d, c, type) ==
    LET how(r) == SetType(r, type) IN SetDescField(d, c, how) /\ UNCHANGED broken
SetDescTypeFails(d, c) == LET how(r) == r IN SetDescField(d, c, how) /\ UNCHANGED broken
SetDescSizePtr(d, c, size) ==
    LET how(r) == [r EXCEPT !.size = size] IN SetDescField(d, c, how) /\ UNCHANGED broken
\* A new data pointer ends what a failed SQLBindCol left, but for its type.
SetDescDataPtr(d, c, data) ==
    LET how(r) == [r EXCEPT !.data = data,
                            !.type = IF c \in broken[d] THEN InEffect(d, c).type ELSE @]
    IN  /\ SetDescField(d, c, how)
        /\ broken' = [broken EXCEPT ![d] = @ \ {c}]

\* SQLSetDescRec sets all of them.
SetDescRec(d, c, type, data, size) ==
    /\ LET found == GetRecord(desc[d], c, BlankRecord)
           typed == SetType(found.records[c], type)
       IN  desc' = [desc EXCEPT ![d] =
              SetRecord(found, c, [typed EXCEPT !.data = data, !.size = size])]
    /\ Ask(d, c, [type |-> type, data |-> data, size |-> size])
    /\ dressed' = [dressed EXCEPT ![d] = TRUE]

\* SQLCopyDesc copies the records past the count, too.
CopyDesc_Fault(source, target) ==
    /\ desc' = [desc EXCEPT ![target].records = desc[source].records,
                            ![target].count = Larger(@, desc[source].count)]
    /\ asked' = [asked EXCEPT ![target] = asked[source]]
    /\ reopened' = [reopened EXCEPT ![target] = reopened[source]]
    /\ broken' = [broken EXCEPT ![target] = broken[source]]
    /\ dressed' = [dressed EXCEPT ![target] = dressed[source]]
CopyDesc(source, target) ==
    /\ desc' = [desc EXCEPT ![target] = desc[source]]
    /\ asked' = [asked EXCEPT ![target] = asked[source]]
    /\ reopened' = [reopened EXCEPT ![target] = reopened[source]]
    /\ broken' = [broken EXCEPT ![target] = broken[source]]
    /\ dressed' = [dressed EXCEPT ![target] = dressed[source]]

\* SQLGetDescRec and SQLGetDescField make the record they read; a fetch makes
\* the highest one.
ReadRecord(d, c) ==
    /\ c <= desc[d].count
    /\ desc' = [desc EXCEPT ![d] = GetRecord(@, c, BlankRecord)]
    /\ UNCHANGED ghosts

\* SQLGetData with the type of the descriptor: fillBinding makes the record,
\* which raises the count.
GetData(d, c) ==
    /\ desc' = [desc EXCEPT ![d] = GetRecord(@, c, BlankRecord)]
    /\ dressed' = [dressed EXCEPT ![d] = TRUE]
    /\ UNCHANGED <<asked, reopened, broken>>

Next ==
    \E d \in Desc, c \in Column :
        \/ Unbind(d, c)
        \/ \E type \in Type, data, size \in Pointer :
              \/ Bind(d, c, type, data, size)
              \/ BindFails(d, c, type, data, size)
              \/ SetDescRec(d, c, type, data, size)
        \/ ResetColBindings(d)
        \/ \E n \in 0..MaxColumn : RaiseOrLowerCount(d, n)
        \/ \E type \in Type : SetDescType(d, c, type)
        \/ SetDescTypeFails(d, c)
        \/ \E p \in Pointer : SetDescDataPtr(d, c, p) \/ SetDescSizePtr(d, c, p)
        \/ \E source \in Desc : CopyDesc(source, d)
        \/ ReadRecord(d, c)
        \/ GetData(d, c)

Spec == Init /\ [][Next]_vars
-----------------------------------------------------------------------------
\* Descriptors never hold less than their highest reads, nor more than there
\* are columns.
TypeOK ==
    /\ desc \in [Desc -> [count: 0..MaxColumn, records: Seq(Record)]]
    /\ \A d \in Desc : Len(desc[d].records) <= MaxColumn
    /\ asked \in [Desc -> [Column -> Record]]
    /\ reopened \in [Desc -> SUBSET Column] /\ broken \in [Desc -> SUBSET Column]
    /\ dressed \in [Desc -> BOOLEAN]

\* A fetch writes to the buffers the application has asked for, each as the
\* type it was given with, and to no other; a failed SQLBindCol costs at most
\* the binding it was to replace.
WritesWhereAsked ==
    \A d \in Desc, c \in Column :
        LET r == InEffect(d, c)
        IN  \/ c \in reopened[d]
            \/ r = asked[d][c]
            \/ c \in broken[d] /\ r.data = Null /\ r.size = asked[d][c].size

\* "adjust SQL_DESC_COUNT to reflect that the highest bound column has
\* changed": a descriptor only bound and unbound ends with a bound column.
CountIsHighestBound ==
    \A d \in Desc :
        LET n == desc[d].count
        IN  ~dressed[d] /\ broken[d] = {} /\ n > 0 => IsBound(InEffect(d, n))
=============================================================================
