---------------------------- MODULE HandleRegistry ----------------------------
(***************************************************************************)
(* Who keeps an ODBC object alive, and what the driver's handle registry   *)
(* says about it.  A handle is the address of its object.  Every object    *)
(* enters Driver::descendants in its constructor and leaves it in its      *)
(* destructor; it lives as long as a shared_ptr does: the one in its       *)
(* parent's map or, for an implicit descriptor, also its statement's.      *)
(*                                                                         *)
(* Kept: the maps of the driver, the environments and the connections, the *)
(* implicit (shared) and explicit (weak) descriptors of a statement, the   *)
(* order in which destructors run, the reuse of a freed address, and every *)
(* lookup by handle.  Abstracted: what the objects hold besides.  Dispatch *)
(* looks every handle up, also under WORKAROUND_ALLOW_UNSAFE_DISPATCH: its *)
(* branches ask whether the dispatch lambda, which takes its argument by   *)
(* `auto &`, accepts a temporary; it does not, and they are discarded.     *)
(***************************************************************************)
EXTENDS Naturals

CONSTANTS Address,   \* where an object can be allocated
          Role,      \* the descriptor roles of a statement
          AppRole,   \* those that accept an explicit descriptor: ARD and APD
          Null

ASSUME RegistryAssumption ==
    /\ Null \notin Address
    /\ AppRole \subseteq Role

Kind == {"env", "dbc", "stmt", "desc"}
NoDescriptors == [r \in Role |-> Null]

VARIABLES
    descendants,   \* Driver::descendants: the class registered for an address
    environments,  \* Driver::environments
    connections,   \* Environment::connections, by environment
    statements,    \* Connection::statements, by connection
    descriptors,   \* Connection::descriptors, by connection
    parent,        \* Child::parent, a plain reference
    implicit,      \* Statement::implicit_ard ... implicit_ipd, by statement
    explicit,      \* Statement::explicit_ard ..., weak: Null once expired
    allocType,     \* SQL_DESC_ALLOC_TYPE of a descriptor
    handedOut      \* ghost: objects whose handle an allocation call returned

vars == <<descendants, environments, connections, statements, descriptors,
          parent, implicit, explicit, allocType, handedOut>>

Init ==
    /\ descendants = [a \in Address |-> "none"]
    /\ environments = {}
    /\ connections = [a \in Address |-> {}]
    /\ statements = [a \in Address |-> {}]
    /\ descriptors = [a \in Address |-> {}]
    /\ parent = [a \in Address |-> Null]
    /\ implicit = [a \in Address |-> NoDescriptors]
    /\ explicit = [a \in Address |-> NoDescriptors]
    /\ allocType = [a \in Address |-> "auto"]
    /\ handedOut = {}

Registered(kind) == {a \in Address : descendants[a] = kind}
-----------------------------------------------------------------------------
(* The objects a shared_ptr keeps alive.                                   *)

LiveConnections == UNION {connections[e] : e \in environments}
LiveStatements == UNION {statements[c] : c \in LiveConnections}
ImplicitOf(S) == {implicit[s][r] : s \in S, r \in Role}
LiveDescriptors ==
    (UNION {descriptors[c] : c \in LiveConnections}) \cup ImplicitOf(LiveStatements)
Live == environments \cup LiveConnections \cup LiveStatements \cup LiveDescriptors

\* No object is there: every constructor registers it, every destructor
\* takes it out.
Fresh(a) == a \in Registered("none")

\* choose(): the explicit descriptor while it lives, else the implicit one.
EffectiveDescriptor(s, r) ==
    IF explicit[s][r] # Null THEN explicit[s][r] ELSE implicit[s][r]
-----------------------------------------------------------------------------
(* Allocation.                                                             *)

AllocEnvironment(e) ==
    /\ Fresh(e)
    /\ environments' = environments \cup {e}
    /\ descendants' = [descendants EXCEPT ![e] = "env"]
    /\ handedOut' = handedOut \cup {e}
    /\ UNCHANGED <<connections, statements, descriptors, parent, implicit,
                   explicit, allocType>>

AllocConnection(e, c) ==
    /\ descendants[e] = "env"
    /\ Fresh(c)
    /\ connections' = [connections EXCEPT ![e] = @ \cup {c}]
    /\ descendants' = [descendants EXCEPT ![c] = "dbc"]
    /\ parent' = [parent EXCEPT ![c] = e]
    /\ handedOut' = handedOut \cup {c}
    /\ UNCHANGED <<environments, statements, descriptors, implicit, explicit,
                   allocType>>

AllocDescriptor(c, d) ==
    /\ descendants[c] = "dbc"
    /\ Fresh(d)
    /\ descriptors' = [descriptors EXCEPT ![c] = @ \cup {d}]
    /\ descendants' = [descendants EXCEPT ![d] = "desc"]
    /\ parent' = [parent EXCEPT ![d] = c]
    /\ allocType' = [allocType EXCEPT ![d] = "user"]
    /\ handedOut' = handedOut \cup {d}
    /\ UNCHANGED <<environments, connections, statements, implicit, explicit>>

\* A statement and its implicit descriptors, which are children of the
\* connection; `own` says where each of them is allocated.
NewStatement(c, s, own) ==
    LET news == {own[r] : r \in Role}
    IN  /\ descendants[c] = "dbc"
        /\ Fresh(s) /\ \A r \in Role : Fresh(own[r]) /\ own[r] # s
        /\ \A r1, r2 \in Role : own[r1] = own[r2] => r1 = r2
        /\ statements' = [statements EXCEPT ![c] = @ \cup {s}]
        /\ descriptors' = [descriptors EXCEPT ![c] = @ \cup news]
        /\ descendants' = [a \in Address |->
                IF a = s THEN "stmt" ELSE IF a \in news THEN "desc" ELSE descendants[a]]
        /\ parent' = [a \in Address |->
                IF a = s \/ a \in news THEN c ELSE parent[a]]
        /\ implicit' = [implicit EXCEPT ![s] = own]
        /\ allocType' = [a \in Address |-> IF a \in news THEN "auto" ELSE allocType[a]]
        /\ UNCHANGED <<environments, connections, explicit>>

AllocStatement(c, s, own) ==
    NewStatement(c, s, own) /\ handedOut' = handedOut \cup {s}

\* SQLNativeSql makes a statement for itself, and frees it unless the query
\* cannot be parsed: then the statement stays, its handle unknown.
NativeSqlFails(c, s, own) ==
    NewStatement(c, s, own) /\ UNCHANGED handedOut
-----------------------------------------------------------------------------
(* Deallocation: what dies with an object.                                 *)

\* The descriptors in use are freed, not the statement's own.
DyingWithStatements_Fault(S) ==
    S \cup {EffectiveDescriptor(s, r) : s \in S, r \in Role}
DyingWithStatements(S) == S \cup ImplicitOf(S)

\* The descriptors are left behind.
DyingWithConnections_Fault(C) ==
    C \cup DyingWithStatements(UNION {statements[c] : c \in C})
\* A connection's statements go before its descriptors.
DyingWithConnections(C) ==
    C \cup DyingWithStatements(UNION {statements[c] : c \in C})
      \cup (UNION {descriptors[c] : c \in C})

\* The statement's shared_ptr keeps a descriptor that leaves its connection.
DyingWithDescriptor(d) == {d} \ ImplicitOf(LiveStatements)

Dying(h) ==
    CASE descendants[h] = "env"  -> {h} \cup DyingWithConnections(connections[h])
      [] descendants[h] = "dbc"  -> DyingWithConnections({h})
      [] descendants[h] = "stmt" -> DyingWithStatements({h})
      [] descendants[h] = "desc" -> DyingWithDescriptor(h)

\* The registry once the destructors of `dead` have run.
Unregistered_Fault(dead, freed) ==
    [descendants EXCEPT ![freed] = IF freed \in dead THEN "none" ELSE @]
Unregistered(dead, freed) ==
    [a \in Address |-> IF a \in dead THEN "none" ELSE descendants[a]]

\* A map of children once `dead` are destroyed and `freed` is erased from its
\* parent's: the map of a destroyed parent is gone, and the destructor of a
\* statement takes its implicit descriptors out of its connection's map.
Erased_Fault(map, dead, freed) ==
    [a \in Address |-> IF a \in dead THEN {} ELSE map[a] \ {freed}]
Erased(map, dead, freed) ==
    [a \in Address |-> IF a \in dead THEN {} ELSE map[a] \ (dead \cup {freed})]

\* The weak pointers to a destroyed descriptor expire.
Expired_Fault(dead) ==
    [a \in Address |-> IF a \in dead THEN NoDescriptors ELSE explicit[a]]
Expired(dead) ==
    [a \in Address |->
        IF a \in dead THEN NoDescriptors
        ELSE [r \in Role |-> IF explicit[a][r] \in dead THEN Null ELSE explicit[a][r]]]

\* SQLFreeHandle, and SQLFreeStmt(SQL_DROP) for a statement.  The type passed
\* by the caller is not used, and the test that should refuse an automatically
\* allocated descriptor compares the wrong types and is never true.
FreeHandle(h) ==
    LET dead == Dying(h)
    IN  /\ descendants[h] \in Kind
        /\ environments' = environments \ {h}
        /\ connections' = Erased(connections, dead, h)
        /\ statements' = Erased(statements, dead, h)
        /\ descriptors' = Erased(descriptors, dead, h)
        /\ descendants' = Unregistered(dead, h)
        /\ parent' = [a \in Address |-> IF a \in dead THEN Null ELSE parent[a]]
        /\ implicit' = [a \in Address |->
                IF a \in dead THEN NoDescriptors ELSE implicit[a]]
        /\ explicit' = Expired(dead)
        /\ allocType' = [a \in Address |-> IF a \in dead THEN "auto" ELSE allocType[a]]
        /\ handedOut' = handedOut \ dead
-----------------------------------------------------------------------------
(* The descriptors of a statement.                                         *)

\* SQLSetStmtAttr(SQL_ATTR_APP_ROW_DESC / SQL_ATTR_APP_PARAM_DESC).
SetExplicitDescriptor(s, r, d) ==
    /\ r \in AppRole
    /\ descendants[s] = "stmt" /\ descendants[d] = "desc"
    /\ parent[d] = parent[s]
    /\ allocType[d] # "auto"
    /\ explicit' = [explicit EXCEPT ![s][r] = d]
    /\ UNCHANGED <<descendants, environments, connections, statements,
                   descriptors, parent, implicit, allocType, handedOut>>

\* The same with a null handle.
SetImplicitDescriptor(s, r) ==
    /\ r \in AppRole
    /\ descendants[s] = "stmt"
    /\ explicit' = [explicit EXCEPT ![s][r] = Null]
    /\ UNCHANGED <<descendants, environments, connections, statements,
                   descriptors, parent, implicit, allocType, handedOut>>

\* SQLSetDescField(SQL_DESC_ALLOC_TYPE), which ODBC calls read-only.
SetAllocType(d, type) ==
    /\ descendants[d] = "desc"
    /\ allocType' = [allocType EXCEPT ![d] = type]
    /\ UNCHANGED <<descendants, environments, connections, statements,
                   descriptors, parent, implicit, explicit, handedOut>>

Next ==
    \/ \E e \in Address : AllocEnvironment(e)
    \/ \E e, c \in Address : AllocConnection(e, c)
    \/ \E c, d \in Address : AllocDescriptor(c, d)
    \/ \E c, s \in Address, own \in [Role -> Address] : AllocStatement(c, s, own)
    \/ \E c, s \in Address, own \in [Role -> Address] : NativeSqlFails(c, s, own)
    \/ \E h \in Address : FreeHandle(h)
    \/ \E s, d \in Address, r \in AppRole : SetExplicitDescriptor(s, r, d)
    \/ \E s \in Address, r \in AppRole : SetImplicitDescriptor(s, r)
    \/ \E d \in Address, type \in {"auto", "user"} : SetAllocType(d, type)

Spec == Init /\ [][Next]_vars
-----------------------------------------------------------------------------
\* Every map holds objects of its class, which name the owner as their parent.
TypeOK ==
    /\ descendants \in [Address -> Kind \cup {"none"}]
    /\ environments \subseteq Registered("env")
    /\ parent \in [Address -> Address \cup {Null}]
    /\ connections \in [Address -> SUBSET Address]
    /\ statements \in [Address -> SUBSET Address]
    /\ descriptors \in [Address -> SUBSET Address]
    /\ \A a \in Address :
          /\ connections[a] \subseteq {c \in Registered("dbc") : parent[c] = a}
          /\ statements[a] \subseteq {s \in Registered("stmt") : parent[s] = a}
          /\ descriptors[a] \subseteq {d \in Registered("desc") : parent[d] = a}
    /\ implicit \in [Address -> [Role -> Address \cup {Null}]]
    /\ explicit \in [Address -> [Role -> Address \cup {Null}]]
    /\ allocType \in [Address -> {"auto", "user"}]
    /\ handedOut \subseteq Address

\* A handle is found in the registry exactly as long as a shared_ptr keeps the
\* object at that address alive, whatever was freed, in whatever order, and
\* however often the address was used before: no call reaches a destroyed
\* object, and no live object has become unreachable.
RegistryExact == Live = {a \in Address : descendants[a] # "none"}

\* The plain reference to the parent never dangles: whatever the registry can
\* reach has a live parent of the right class, also a descriptor that left its
\* connection's map and lives on as a statement's implicit descriptor.
ParentsAlive ==
    \A a \in Address :
        /\ descendants[a] = "dbc" => parent[a] \in environments
        /\ descendants[a] \in {"stmt", "desc"} => parent[a] \in LiveConnections

\* The descriptor a statement works with is a live descriptor of the
\* statement's own connection, after any sequence of setting, freeing and
\* reallocating explicit descriptors.
EffectiveDescriptorSound ==
    \A s \in LiveStatements, r \in Role :
        /\ descendants[EffectiveDescriptor(s, r)] = "desc"
        /\ parent[EffectiveDescriptor(s, r)] = parent[s]

\* No descriptor is lost: one whose handle no allocation returned is an
\* implicit descriptor of a live statement, and dies with it.
DescriptorsAccountedFor ==
    LiveDescriptors \subseteq handedOut \cup ImplicitOf(LiveStatements)

\* No two statements, and no two roles, share an implicit descriptor, though
\* the application may free one and its address may be allocated again.
ImplicitNotShared ==
    \A s1, s2 \in LiveStatements : \A r1, r2 \in Role :
        implicit[s1][r1] = implicit[s2][r2] => s1 = s2 /\ r1 = r2

\* Every descriptor has one owner: the application, which was given its handle,
\* or one role of one live statement.
DescriptorsOwned == DescriptorsAccountedFor /\ ImplicitNotShared

\* A descriptor the application allocated does not die with a statement that
\* uses it: only when it is freed, or with its connection.
UserDescriptorsOutliveStatements ==
    [][\A d \in LiveDescriptors \cap handedOut :
          d \notin LiveDescriptors' /\ parent[d] \in LiveConnections' =>
              LiveStatements' = LiveStatements]_vars

\* "Refuse to manually deallocate an automatically allocated descriptor"
\* (impl.cpp): its connection gives one up only together with a statement.
AutoDescriptorsNotFreed ==
    [][\A d \in LiveDescriptors :
          allocType[d] = "auto" /\ parent[d] \in LiveConnections'
              /\ d \in descriptors[parent[d]] /\ d \notin descriptors'[parent[d]] =>
              LiveStatements' # LiveStatements]_vars
=============================================================================
