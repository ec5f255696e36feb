-------------------------- MODULE ParameterBinding --------------------------
(***************************************************************************)
(* The parameters of one statement: the application and the implementation *)
(* parameter descriptor (APD, IPD), which SQLBindParameter, a prepare and  *)
(* SQLFreeStmt(SQL_RESET_PARAMS) change in different ways, and the         *)
(* arguments an execution makes of them.  An execution reads this state    *)
(* and changes none of it: cbas_params_args is made anew by each, and what *)
(* it would be is the operator Arguments.                                  *)
(*                                                                         *)
(* Kept: both counts, the records and the stale ones past them, failures   *)
(* half-way, which SQL types make an argument and how many.                *)
(* Abstracted: the C type (a change of it clears the data pointer), the    *)
(* text of an argument, names, sizes, parameter sets; of the application   *)
(* writing to the descriptors themselves, which is in ColumnBinding, only  *)
(* its change of the APD's count.                                          *)
(***************************************************************************)
EXTENDS Descriptor, SequencesExt

CONSTANTS MaxParam,
          Simple,            \* SQL types an argument is made of the value for
          Direct,            \* those it is made of the bytes for: SQL_DOUBLE
          Bit, Timestamp, Other,
          Output,            \* any type, of a parameter that is not an input
          Unknown,
          Buffer, Null,
          NoValue            \* a length pointer without a data pointer

Param == 1..MaxParam
SqlType == Simple \cup Direct \cup {Bit, Timestamp, Other, Output}
Pointer == Buffer \cup {Null, NoValue}

ASSUME ParameterBindingAssumption ==
    /\ MaxParam \in Nat
    /\ Null \notin Buffer /\ NoValue \notin Buffer /\ Null # NoValue
    /\ Unknown \notin SqlType
    /\ {Bit, Other, Output} \cap (Simple \cup Direct \cup {Timestamp}) = {}
    /\ Timestamp \notin Simple \cup Direct

VARIABLES
    apd,        \* its records are the pointers
    ipd,        \* its records are the SQL types
    nparams,    \* parameters.size(): the markers of the query
    isPrepared,
    asked,      \* ghost: the parameters as the application has bound them
    loose       \* ghost: parameters whose last SQLBindParameter failed, or
                \* that the application has exposed by raising the count

vars == <<apd, ipd, nparams, isPrepared, asked, loose>>

NotBound == [at |-> Null, type |-> Unknown]
IsBound(r) == r # Null

\* Ghost: the arguments of the first parameters, for as long as each is bound
\* to a value of a type there is an argument for; whether the rest are such
\* or not bound at all.
WellBound(p) ==
    /\ p \notin loose /\ asked[p].at \in Buffer
    /\ asked[p].type \in Simple \cup Direct \cup {Timestamp}
Owed == LET all == {k \in 0..nparams : \A p \in 1..k : WellBound(p)}
        IN  [p \in 1..Max(all) |-> [type |-> asked[p].type, value |-> asked[p].at]]
-----------------------------------------------------------------------------
Init ==
    /\ apd = NewDescriptor /\ ipd = NewDescriptor
    /\ nparams = 0 /\ isPrepared = FALSE
    /\ asked = [p \in Param |-> NotBound] /\ loose = {}

\* extractParametersinfo trims the IPD to what is bound and then makes it
\* describe every marker; a bare '@' after n markers is a syntax error.
Trimmed_Fault == SetCount(ipd, apd.count)
Trimmed == SetCount(ipd, Smaller(ipd.count, apd.count))
Described_Fault(n) == Trimmed
Described(n) == IF Trimmed.count < n THEN GetRecord(Trimmed, n, Unknown) ELSE Trimmed

Prepare(n) ==
    /\ nparams' = n /\ isPrepared' = TRUE
    /\ ipd' = Described(n)
    /\ UNCHANGED <<apd, asked, loose>>

PrepareFails(n) ==
    /\ nparams' = n /\ isPrepared' = FALSE
    /\ ipd' = Trimmed
    /\ UNCHANGED <<apd, asked, loose>>

\* SQLBindParameter with two null pointers at or past the highest parameter.
Complete(d) == GetRecord(d, d.count, Null)
HighestLeft(p) == HighestBelow(Complete(apd), Smaller(apd.count + 1, p), IsBound)

Unbind(p) ==
    /\ p >= apd.count
    /\ apd' = SetCount(IF p > 1 THEN Complete(apd) ELSE apd, HighestLeft(p))
    /\ asked' = [k \in Param |-> IF k > HighestLeft(p) THEN NotBound ELSE asked[k]]
    /\ loose' = loose \cap 1..HighestLeft(p)
    /\ UNCHANGED <<ipd, nparams, isPrepared>>

\* SQLBindParameter otherwise makes a record of both descriptors.
Binds(p, at) == ~(at = Null /\ p >= apd.count)

IpdBound_Fault(p, type) ==
    IF p <= ipd.count THEN ipd ELSE SetRecord(GetRecord(ipd, p, Unknown), p, type)
IpdBound(p, type) == SetRecord(GetRecord(ipd, p, Unknown), p, type)

Bind(p, type, at) ==
    /\ Binds(p, at)
    /\ apd' = SetRecord(GetRecord(apd, p, Null), p, at)
    /\ ipd' = IpdBound(p, type)
    /\ asked' = [asked EXCEPT ![p] = [at |-> at, type |-> type]]
    /\ loose' = loose \ {p}
    /\ UNCHANGED <<nparams, isPrepared>>

\* A negative length throws once the types are set, and a new C type has taken
\* the data pointer away; only the counts go back.
Undressed(at) == {at} \cup IF at \in Buffer THEN {Null, NoValue} ELSE {}

BindFails(p, type, at) ==
    /\ Binds(p, at)
    /\ LET found == GetRecord(apd, p, Null)
       IN  \E left \in Undressed(found.records[p]) :
              apd' = SetCount(SetRecord(found, p, left), apd.count)
    /\ ipd' = SetCount(IpdBound(p, type), ipd.count)
    /\ loose' = IF p <= apd.count THEN loose \cup {p} ELSE loose
    /\ UNCHANGED <<nparams, isPrepared, asked>>

\* SQLFreeStmt(SQL_RESET_PARAMS) leaves the IPD alone.
ResetParamBindings ==
    /\ apd' = SetCount(apd, 0)
    /\ asked' = [p \in Param |-> NotBound] /\ loose' = {}
    /\ UNCHANGED <<ipd, nparams, isPrepared>>

\* SQLSetDescField(SQL_DESC_COUNT) of the APD.
SetApdCount(n) ==
    /\ apd' = SetCount(apd, n)
    /\ asked' = [p \in Param |-> IF p > n THEN NotBound ELSE asked[p]]
    /\ loose' = (loose \cap 1..n) \cup (apd.count + 1)..n
    /\ UNCHANGED <<ipd, nparams, isPrepared>>

\* getParamsBindingInfo, which makes the records the count covers; they are
\* blank until then.
ParamBindings ==
    [p \in 1..Smaller(apd.count, ipd.count) |->
        [at |-> RecordAt(apd, p, Null), type |-> ipd.records[p]]]

\* The arguments one parameter makes: SQL_BIT runs on into the next case, and
\* a type no case is for makes none.
ArgumentsOf(type, value) ==
    LET made == (IF type \in Simple \cup Direct \cup {Bit} THEN <<type>> ELSE <<>>)
                \o (IF type \in {Bit, Timestamp} THEN <<Timestamp>> ELSE <<>>)
    IN  [i \in 1..Len(made) |-> [type |-> made[i], value |-> value]]

\* The types of the parameters as the loop finds them: those past the vector
\* of bindings are read out of its bounds (`junk`).
TypeOf(p, junk) == IF p <= Len(ParamBindings) THEN ParamBindings[p].type ELSE junk[p]
ValueOf(p) == IF p <= Len(ParamBindings) /\ ParamBindings[p].at \in Buffer
              THEN ParamBindings[p].at ELSE Null

Arguments(junk) ==
    FlattenSeq([p \in 1..nparams |-> ArgumentsOf(TypeOf(p, junk), ValueOf(p))])

\* Direct types are read through the pointer whatever it is, and an empty
\* vector has no storage to read past: the process does not survive either.
Survives(junk) ==
    \A p \in 1..nparams :
        /\ TypeOf(p, junk) \in Direct \cup {Bit} => ValueOf(p) # Null
        /\ ParamBindings # <<>>

Junk == [Len(ParamBindings) + 1..nparams -> (SqlType \ {Output}) \cup {Unknown}]
Readable(p) == p <= Len(ParamBindings) => ParamBindings[p].type # Output

\* requestNextPackOfResultSets comes as far as sending the query: it throws at
\* an output parameter.
Sends(junk) ==
    /\ isPrepared /\ Survives(junk)
    /\ \A p \in 1..nparams : Readable(p)

Next ==
    \/ \E n \in 0..MaxParam : Prepare(n) \/ PrepareFails(n)
    \/ \E p \in Param, type \in SqlType, at \in Pointer :
          Bind(p, type, at) \/ BindFails(p, type, at)
    \/ \E p \in Param : Unbind(p)
    \/ ResetParamBindings
    \/ \E n \in Param : SetApdCount(n)

Spec == Init /\ [][Next]_vars
-----------------------------------------------------------------------------
\* The records the IPD's count covers are always there.
TypeOK ==
    /\ apd \in [count: 0..MaxParam, records: Seq(Pointer)]
    /\ ipd \in [count: 0..MaxParam, records: Seq(SqlType \cup {Unknown})]
    /\ Len(apd.records) <= MaxParam /\ ipd.count <= Len(ipd.records)
    /\ nparams \in 0..MaxParam /\ isPrepared \in BOOLEAN
    /\ asked \in [Param -> [at: Pointer, type: SqlType \cup {Unknown}]]
    /\ loose \subseteq Param

\* Every marker of a prepared query is described by a record of the IPD, as
\* SQLNumParams and SQLDescribeParam report it, whatever was bound, unbound
\* or reset since.
MarkersDescribed == isPrepared => nparams <= ipd.count

\* A query is sent the values its parameters are bound to, each in its place
\* and as the SQL type it was last bound as, up to the first parameter that
\* has no such value; nothing follows them if there is none.
ArgumentsPositional ==
    \A junk \in Junk : Sends(junk) =>
        /\ IsPrefix(Owed, Arguments(junk))
        /\ Len(Owed) = nparams => Arguments(junk) = Owed

\* "We will set all unbound parameters to 'Null'": where parameters are bound
\* to a value or not bound at all, each makes one argument.
UnboundSentAsNull ==
    \A junk \in Junk :
        Sends(junk) /\ (\A p \in 1..nparams :
                          WellBound(p) \/ (p \notin loose /\ asked[p] = NotBound))
            => Len(Arguments(junk)) = nparams
=============================================================================
