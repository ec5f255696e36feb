----------------------------- MODULE Diagnostics -----------------------------
(***************************************************************************)
(* The diagnostic records of every object, under the calls that write and  *)
(* read them.  Driver::call resets the diagnostics of the handle, runs the *)
(* operation and stores its return code or, if it throws, the error; a     *)
(* call made with skip_diag does neither.  Operations nest: a statement    *)
(* visits a descriptor it is given, a descriptor the one it is copied      *)
(* from, a connection fetches from a statement of its own.                 *)
(*                                                                         *)
(* Kept: the record vector with its stale tail, SQL_DIAG_NUMBER and        *)
(* SQL_DIAG_RETURNCODE, the calls in progress and the exception a nested   *)
(* call hands to its caller.  Abstracted: what the operations do besides.  *)
(***************************************************************************)
EXTENDS Integers, Sequences

CONSTANTS Connection, Statement, Descriptor,  \* handles
          State,                              \* errors: SQLSTATE and message
          ReturnCode,
          None

Handle == Connection \cup Statement \cup Descriptor

ASSUME DiagnosticsAssumption ==
    /\ Connection \cap Statement = {}
    /\ Connection \cap Descriptor = {}
    /\ Statement \cap Descriptor = {}
    /\ None \notin State
    /\ "SUCCESS" \in ReturnCode

VARIABLES
    alive,    \* handles with an object
    diag,     \* DiagnosticsContainer of each handle
    frames,   \* the calls in progress, the innermost last
    owed      \* ghost: the error the innermost nested call handed up

vars == <<alive, diag, frames, owed>>
-----------------------------------------------------------------------------
(* DiagnosticsContainer.  The header is apart; `records` are those from 1.  *)

Container == [records: Seq(State \cup {None}), number: Nat, code: ReturnCode]
Larger(a, b) == IF a >= b THEN a ELSE b
NewContainer == [records |-> <<>>, number |-> 0, code |-> "SUCCESS"]

\* getDiagStatus(num), which makes the record: those past SQL_DIAG_NUMBER are
\* left from earlier calls and are cleared on the way.
GetDiagStatus_Fault(d, num) == [d EXCEPT !.number = Larger(@, num)]
GetDiagStatus(d, num) ==
    [d EXCEPT
        !.records = [i \in 1..Larger(Len(@), num) |->
            IF i <= Len(@) /\ i \notin (d.number + 1)..num THEN @[i] ELSE None],
        !.number = Larger(@, num)]

InsertDiagStatus(d, state) ==
    [GetDiagStatus(d, d.number + 1) EXCEPT !.records[d.number + 1] = state]

SetReturnCode(d, code) == [d EXCEPT !.code = code]
FillDiag(d, code, state) == InsertDiagStatus(SetReturnCode(d, code), state)

ResetDiag_Fault(d) == [d EXCEPT !.code = "SUCCESS"]
ResetDiag(d) == [d EXCEPT !.number = 0, !.code = "SUCCESS"]

\* What the application can read.
Visible(d) == SubSeq(d.records, 1, d.number)
-----------------------------------------------------------------------------
Init ==
    /\ alive = Connection
    /\ diag = [h \in Handle |-> NewContainer]
    /\ frames = <<>>
    /\ owed = None

Idle == frames = <<>>
Top == frames[Len(frames)]
In(kind) == ~Idle /\ Top.handle \in kind /\ ~Top.skip /\ Top.ex = None /\ Top.handle \in alive

\* Driver::call finds the handle and starts the operation.
Enter(h, skip) ==
    /\ h \in alive
    /\ frames' = Append(frames, [handle |-> h, skip |-> skip, ex |-> None])
    /\ diag' = IF skip THEN diag ELSE [diag EXCEPT ![h] = ResetDiag(@)]
    /\ UNCHANGED <<alive, owed>>

\* Any call of the application but those below.
Call(h) == Idle /\ Enter(h, FALSE)

\* SQLSetStmtAttr with a descriptor handle: setDescriptorHandle.
VisitDescriptor(d) == In(Statement) /\ d \in Descriptor /\ Enter(d, TRUE)

\* SQLCopyDesc visits the source while it is in a call on the target.
VisitSource(d) == In(Descriptor) /\ d \in Descriptor /\ Enter(d, TRUE)

\* connect() asks the service a question through SQLFetch and SQLGetData.
FetchInConnect(s) == In(Connection) /\ s \in Statement /\ Enter(s, FALSE)

\* The operation returns a code: doCall stores it, unless the object is gone.
Return(code) ==
    LET call == Top
    IN  /\ ~Idle
        /\ call.ex = None
        /\ frames' = SubSeq(frames, 1, Len(frames) - 1)
        /\ diag' = IF call.skip \/ call.handle \notin alive THEN diag
                   ELSE [diag EXCEPT ![call.handle] = SetReturnCode(@, code)]
        /\ owed' = None
        /\ UNCHANGED alive

\* What a nested operation that threw leaves its caller: both of them catch
\* the exception and throw it again outside.
HandedUp_Fault(state) == frames
HandedUp(state) ==
    [frames EXCEPT ![Len(frames) - 1].ex = state]

\* The operation throws: Driver::call stores the error and the code that comes
\* with it, SQL_ERROR or (01004) SQL_SUCCESS_WITH_INFO.
Throw(code, state) ==
    LET call == Top
        up   == IF call.skip /\ Len(frames) > 1 THEN HandedUp(state) ELSE frames
    IN  /\ ~Idle
        /\ call.ex \in {None, state}
        /\ call.handle \in alive
        /\ frames' = SubSeq(up, 1, Len(frames) - 1)
        /\ diag' = IF call.skip THEN diag
                   ELSE [diag EXCEPT ![call.handle] = FillDiag(@, code, state)]
        /\ owed' = IF call.skip THEN state ELSE None
        /\ UNCHANGED alive

\* A statement or a descriptor is made by a call on its connection.
Allocate(h) ==
    /\ In(Connection)
    /\ h \in (Statement \cup Descriptor) \ alive
    /\ \A i \in 1..Len(frames) : frames[i].handle # h
    /\ alive' = alive \cup {h}
    /\ diag' = [diag EXCEPT ![h] = NewContainer]
    /\ UNCHANGED <<frames, owed>>

\* SQLFreeHandle, a call that skips diagnostics; a connection frees a statement
\* it made for itself; and SQLFreeStmt(SQL_DROP) frees the statement inside a
\* call on it, which then stores its return code where the object was.
Free(h) ==
    /\ \/ Idle
       \/ In(Connection) /\ h \in Statement
       \/ In(Statement) /\ Len(frames) = 1 /\ Top.handle = h
    /\ h \in alive \ Connection
    /\ alive' = alive \ {h}
    /\ diag' = [diag EXCEPT ![h] = NewContainer]
    /\ UNCHANGED <<frames, owed>>

\* SQLGetDiagRec and SQLGetDiagField touch the record they read; 0 is the
\* header.
ReadDiag(h, num) ==
    /\ Idle /\ h \in alive
    /\ num <= diag[h].number
    /\ diag' = [diag EXCEPT ![h] = GetDiagStatus(@, num)]
    /\ UNCHANGED <<alive, frames, owed>>

Next ==
    \/ \E h \in Handle :
          \/ Call(h)
          \/ VisitDescriptor(h)
          \/ VisitSource(h)
          \/ FetchInConnect(h)
          \/ Allocate(h)
          \/ Free(h)
          \/ \E num \in 0..1 : ReadDiag(h, num)
    \/ \E code \in ReturnCode : Return(code)
    \/ \E code \in ReturnCode \ {"SUCCESS"}, state \in State : Throw(code, state)

Spec == Init /\ [][Next]_vars
-----------------------------------------------------------------------------
\* The frames: a call inside another is a visit, or a fetch in a connect.
Frame == [handle: Handle, skip: BOOLEAN, ex: State \cup {None}]

\* The record vector always holds as many records as SQL_DIAG_NUMBER says,
\* and it never says more than one.
TypeOK ==
    /\ alive \in SUBSET Handle /\ Connection \subseteq alive
    /\ diag \in [Handle -> Container]
    /\ \A h \in Handle : diag[h].number <= Len(diag[h].records) /\ diag[h].number <= 1
    /\ frames \in Seq(Frame)
    /\ owed \in State \cup {None}

\* What the handles show, and which are in a call with diagnostics of its own.
Report == [h \in Handle |-> [code |-> diag[h].code, states |-> Visible(diag[h])]]
Active == {h \in alive : \E i \in 1..Len(frames) :
              frames[i].handle = h /\ ~frames[i].skip}

\* Every object shows the diagnostics of its own last call and nothing else,
\* though calls nest and the records of earlier calls stay in the vector.
Reports == INSTANCE CallReports WITH report <- Report, active <- Active
CallsReported == Reports!Spec

\* "We want to forward it to the current statement context unchanged": when a
\* visited descriptor failed, its caller ends with that very error.
ErrorForwarded ==
    [][owed # None /\ Len(frames') < Len(frames) =>
          Visible(diag'[Top.handle]) = <<owed>>]_vars
=============================================================================
