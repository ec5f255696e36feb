----------------------------- MODULE CallReports -----------------------------
(***************************************************************************)
(* What an application may rely on when it asks a handle for diagnostics:  *)
(* they are those of the last call on this handle that has diagnostics of  *)
(* its own, complete and unmixed.  A call that failed with an error left   *)
(* exactly that error; one that did not left none; and no call on another  *)
(* handle, nested or not, shows.                                           *)
(***************************************************************************)
EXTENDS Sequences

CONSTANTS Handle,    \* environments, connections, statements, descriptors
          State,     \* the errors, as SQLSTATE and message
          ReturnCode

Clean == [code |-> "SUCCESS", states |-> <<>>]

VARIABLES
    report,   \* what SQLGetDiagRec and SQLGetDiagField show, by handle
    active    \* the handles with such a call in progress

vars == <<report, active>>

Init ==
    /\ report = [h \in Handle |-> Clean]
    /\ active = {}

Begin(h) ==
    /\ h \notin active
    /\ active' = active \cup {h}
    /\ report' = [report EXCEPT ![h] = Clean]

Succeed(h, code) ==
    /\ h \in active
    /\ active' = active \ {h}
    /\ report' = [report EXCEPT ![h] = [code |-> code, states |-> <<>>]]

Fail(h, code, state) ==
    /\ h \in active
    /\ active' = active \ {h}
    /\ report' = [report EXCEPT ![h] = [code |-> code, states |-> <<state>>]]

\* The object goes, with the call it was in if any; or a new one takes its
\* address.
Renew(h) ==
    /\ active' = active \ {h}
    /\ report' = [report EXCEPT ![h] = Clean]

Next ==
    \E h \in Handle :
        \/ Begin(h)
        \/ \E code \in ReturnCode : Succeed(h, code)
        \/ \E code \in ReturnCode \ {"SUCCESS"}, state \in State : Fail(h, code, state)
        \/ Renew(h)

Spec == Init /\ [][Next]_vars
=============================================================================
