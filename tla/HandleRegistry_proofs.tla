------------------------- MODULE HandleRegistry_proofs -------------------------
(***************************************************************************)
(* The registry invariants of HandleRegistry for any number of addresses,  *)
(* descriptor roles and objects.                                           *)
(*                                                                         *)
(* RegistryExact is not inductive: that a freed handle takes with it all   *)
(* that the registry still names depends on every object being where its   *)
(* parent (or its statement) can find it.  RegistryInv adds just that.     *)
(***************************************************************************)
EXTENDS HandleRegistry, TLAPS

\* Every registered object has a registered parent that owns it, or is an
\* implicit descriptor of a registered statement.
Owned ==
    /\ \A a \in Registered("env") : a \in environments
    /\ \A a \in Registered("dbc") :
          parent[a] \in environments /\ a \in connections[parent[a]]
    /\ \A a \in Registered("stmt") :
          parent[a] \in Registered("dbc") /\ a \in statements[parent[a]]
    /\ \A a \in Registered("desc") :
          /\ parent[a] \in Registered("dbc")
          /\ \/ a \in descriptors[parent[a]]
             \/ \E s \in Registered("stmt"), r \in Role : implicit[s][r] = a

\* The implicit descriptors of a statement are its own, and of its connection.
ImplicitSound ==
    /\ \A s \in Registered("stmt"), r \in Role :
          /\ implicit[s][r] \in Registered("desc")
          /\ parent[implicit[s][r]] = parent[s]
    /\ \A s1, s2 \in Registered("stmt"), r1, r2 \in Role :
          implicit[s1][r1] = implicit[s2][r2] => s1 = s2 /\ r1 = r2

\* An explicit descriptor that has not expired is of the same connection.
ExplicitSound ==
    \A s \in Address, r \in Role :
        explicit[s][r] # Null =>
            /\ s \in Registered("stmt")
            /\ explicit[s][r] \in Registered("desc")
            /\ parent[explicit[s][r]] = parent[s]

RegistryInv == TypeOK /\ Owned /\ ImplicitSound /\ ExplicitSound

\* What the shared pointers keep alive is what the registry names, by class.
LEMMA LiveIsRegistered ==
    ASSUME RegistryInv
    PROVE  /\ environments = Registered("env")
           /\ LiveConnections = Registered("dbc")
           /\ LiveStatements = Registered("stmt")
           /\ LiveDescriptors = Registered("desc")
<1>1. environments = Registered("env")
  BY DEF RegistryInv, TypeOK, Owned
<1>2. LiveConnections = Registered("dbc")
  BY <1>1 DEF RegistryInv, TypeOK, Owned, LiveConnections, Registered
<1>3. LiveStatements = Registered("stmt")
  BY <1>2 DEF RegistryInv, TypeOK, Owned, LiveStatements, Registered
<1>4. LiveDescriptors = Registered("desc")
  <2>1. ASSUME NEW d \in LiveDescriptors PROVE d \in Registered("desc")
    BY <2>1, <1>2, <1>3
    DEF RegistryInv, TypeOK, ImplicitSound, LiveDescriptors, ImplicitOf, Registered
  <2>2. ASSUME NEW d \in Registered("desc") PROVE d \in LiveDescriptors
    BY <2>2, <1>2, <1>3 DEF RegistryInv, Owned, LiveDescriptors, ImplicitOf
  <2> QED BY <2>1, <2>2
<1> QED BY <1>1, <1>2, <1>3, <1>4

\* The invariants the runs check follow from RegistryInv.
LEMMA InvImpliesSafety ==
    ASSUME RegistryAssumption, RegistryInv
    PROVE  RegistryExact /\ ParentsAlive /\ EffectiveDescriptorSound /\ ImplicitNotShared
<1>1. RegistryExact
  BY LiveIsRegistered DEF RegistryExact, Live, Registered, RegistryInv, TypeOK, Kind
<1>2. ParentsAlive
  BY LiveIsRegistered DEF ParentsAlive, Registered, RegistryInv, Owned
<1>3. EffectiveDescriptorSound
  BY LiveIsRegistered
  DEF EffectiveDescriptorSound, EffectiveDescriptor, Registered, RegistryInv,
      ImplicitSound, ExplicitSound
<1>4. ImplicitNotShared
  BY LiveIsRegistered DEF ImplicitNotShared, RegistryInv, ImplicitSound
<1> QED BY <1>1, <1>2, <1>3, <1>4

\* Nothing is allocated at first.
LEMMA InitInv ==
    ASSUME RegistryAssumption, Init
    PROVE  RegistryInv
<1>1. TypeOK
  BY DEF Init, TypeOK, RegistryAssumption, NoDescriptors, Registered
<1>2. Owned /\ ImplicitSound
  BY DEF Init, Owned, ImplicitSound, Registered
<1>3. ExplicitSound
  BY DEF Init, ExplicitSound, NoDescriptors
<1> QED BY <1>1, <1>2, <1>3 DEF RegistryInv
-----------------------------------------------------------------------------
\* A handle takes with it everything that depends on it, and nothing that an
\* object outside of what it takes depends on.
LEMMA DyingClosed ==
    ASSUME RegistryAssumption, RegistryInv,
           NEW h \in Address, descendants[h] \in Kind
    PROVE  /\ Dying(h) \subseteq Address
           /\ \A c \in Registered("dbc") : parent[c] \in Dying(h) => c \in Dying(h)
           /\ \A a \in Registered("stmt") \cup Registered("desc") :
                 parent[a] \in Dying(h) => a \in Dying(h)
           /\ \A s \in Registered("stmt"), r \in Role :
                 s \in Dying(h) <=> implicit[s][r] \in Dying(h)
           /\ h \notin Registered("desc") => h \in Dying(h)
           /\ h \in Registered("desc") \ Dying(h) =>
                 \E s \in Registered("stmt"), r \in Role : implicit[s][r] = h
<1>1. CASE descendants[h] = "env"
  <2>1. Dying(h) = {h} \cup DyingWithConnections(connections[h])
    BY <1>1 DEF Dying
  <2>2. \A a \in Dying(h) :
           \/ a = h
           \/ a \in Registered("dbc") /\ parent[a] = h
           \/ /\ a \in Registered("stmt") \cup Registered("desc")
              /\ parent[a] \in Registered("dbc") /\ parent[parent[a]] = h
    <3>1. \A c \in connections[h] : c \in Registered("dbc") /\ parent[c] = h
      BY DEF RegistryInv, TypeOK
    <3>2. \A c \in connections[h] : \A s \in statements[c] :
             s \in Registered("stmt") /\ parent[s] = c
      BY <3>1 DEF RegistryInv, TypeOK, Registered
    <3>3. \A c \in connections[h] : \A d \in descriptors[c] :
             d \in Registered("desc") /\ parent[d] = c
      BY <3>1 DEF RegistryInv, TypeOK, Registered
    <3>4. \A c \in connections[h] : \A s \in statements[c], r \in Role :
             implicit[s][r] \in Registered("desc") /\ parent[implicit[s][r]] = c
      BY <3>2 DEF RegistryInv, ImplicitSound
    <3> QED BY <2>1, <3>1, <3>2, <3>3, <3>4
         DEF DyingWithConnections, DyingWithStatements, ImplicitOf
  <2>3. \A c \in Registered("dbc") : parent[c] = h => c \in Dying(h)
    BY <2>1 DEF DyingWithConnections, RegistryInv, Owned
  <2>4. \A a \in Registered("stmt") \cup Registered("desc") :
           parent[parent[a]] = h => a \in Dying(h)
    <3>1. \A s \in Registered("stmt") : parent[parent[s]] = h =>
             \E c \in connections[h] : s \in statements[c]
      BY DEF RegistryInv, Owned
    <3>2. \A d \in Registered("desc") : parent[parent[d]] = h =>
             \/ \E c \in connections[h] : d \in descriptors[c]
             \/ \E c \in connections[h] : \E s \in statements[c], r \in Role :
                   implicit[s][r] = d
      BY DEF RegistryInv, Owned, ImplicitSound
    <3> QED BY <2>1, <3>1, <3>2
         DEF DyingWithConnections, DyingWithStatements, ImplicitOf
  <2>5. Dying(h) \subseteq Address
    BY <2>2 DEF Registered
  <2>6. \A s \in Registered("stmt"), r \in Role :
           s \in Dying(h) <=> implicit[s][r] \in Dying(h)
    BY <2>2, <2>4, <1>1 DEF RegistryInv, ImplicitSound, Registered
  <2>7. \A c \in Registered("dbc") : parent[c] \in Dying(h) => c \in Dying(h)
    BY <2>2, <2>3 DEF RegistryInv, TypeOK, Owned, Registered
  <2>8. \A a \in Registered("stmt") \cup Registered("desc") :
           parent[a] \in Dying(h) => a \in Dying(h)
    BY <2>2, <2>4, <1>1 DEF RegistryInv, Owned, Registered
  <2>9. h \in Dying(h) /\ h \notin Registered("desc")
    BY <2>1, <1>1 DEF Registered
  <2> QED BY <2>5, <2>6, <2>7, <2>8, <2>9
<1>2. CASE descendants[h] = "dbc"
  <2>1. Dying(h) = DyingWithConnections({h})
    BY <1>2 DEF Dying
  <2> QED BY <2>1, <1>2
    DEF DyingWithConnections, DyingWithStatements, ImplicitOf, RegistryInv, TypeOK,
        Owned, ImplicitSound, Registered
<1>3. CASE descendants[h] = "stmt"
  <2>1. Dying(h) = DyingWithStatements({h})
    BY <1>3 DEF Dying
  <2> QED BY <2>1, <1>3
    DEF DyingWithStatements, ImplicitOf, RegistryInv, TypeOK, Owned, ImplicitSound,
        Registered
<1>4. CASE descendants[h] = "desc"
  <2>1. Dying(h) = {h} \ ImplicitOf(Registered("stmt"))
    BY <1>4, LiveIsRegistered DEF Dying, DyingWithDescriptor
  <2> QED BY <2>1, <1>4
    DEF ImplicitOf, RegistryInv, TypeOK, Owned, ImplicitSound, Registered
<1> QED BY <1>1, <1>2, <1>3, <1>4 DEF Kind
\* An environment dies only by itself.
LEMMA DyingEnvironment ==
    ASSUME RegistryInv, NEW h \in Address, descendants[h] \in Kind,
           NEW e \in Registered("env"), e \in Dying(h)
    PROVE  e = h
<1>1. CASE descendants[h] = "env"
  <2>1. Dying(h) = {h} \cup DyingWithConnections(connections[h])
    BY <1>1 DEF Dying
  <2> QED BY <2>1
    DEF DyingWithConnections, DyingWithStatements, ImplicitOf, RegistryInv, TypeOK,
        ImplicitSound, Registered
<1>2. CASE descendants[h] = "dbc"
  <2>1. Dying(h) = DyingWithConnections({h})
    BY <1>2 DEF Dying
  <2> QED BY <2>1
    DEF DyingWithConnections, DyingWithStatements, ImplicitOf, RegistryInv, TypeOK,
        ImplicitSound, Registered
<1>3. CASE descendants[h] = "stmt"
  <2>1. Dying(h) = DyingWithStatements({h})
    BY <1>3 DEF Dying
  <2> QED BY <2>1, <1>3
    DEF DyingWithStatements, ImplicitOf, RegistryInv, ImplicitSound, Registered
<1>4. CASE descendants[h] = "desc"
  BY <1>4 DEF Dying, DyingWithDescriptor
<1> QED BY <1>1, <1>2, <1>3, <1>4 DEF Kind

-----------------------------------------------------------------------------
\* Where no object is, nothing registered refers to.
LEMMA FreshUnused ==
    ASSUME RegistryAssumption, RegistryInv, NEW a \in Registered("none")
    PROVE  /\ a \in Address
           /\ a \notin environments
           /\ \A p \in Address :
                 a \notin connections[p] /\ a \notin statements[p] /\ a \notin descriptors[p]
           /\ connections[a] = {} /\ statements[a] = {} /\ descriptors[a] = {}
           /\ \A b \in Address : descendants[b] # "none" => parent[b] # a \/ descendants[b] = "env"
           /\ \A s \in Registered("stmt"), r \in Role : implicit[s][r] # a
           /\ \A s \in Address, r \in Role : explicit[s][r] # a
           /\ \A r \in Role : explicit[a][r] = Null
<1>1. a \in Address /\ a \notin environments
  BY DEF RegistryInv, TypeOK, Registered
<1>2. \A p \in Address :
         a \notin connections[p] /\ a \notin statements[p] /\ a \notin descriptors[p]
  BY DEF RegistryInv, TypeOK, Registered
<1>3. \A b \in Address :
         descendants[b] # "none" => parent[b] # a \/ descendants[b] = "env"
  BY DEF RegistryInv, TypeOK, Owned, Registered, Kind
<1>4. connections[a] = {} /\ statements[a] = {} /\ descriptors[a] = {}
  <2>1. \A x \in Address : x \notin connections[a]
    BY <1>1, <1>3 DEF RegistryInv, TypeOK, Registered
  <2>2. \A x \in Address : x \notin statements[a]
    BY <1>1, <1>3 DEF RegistryInv, TypeOK, Registered
  <2>3. \A x \in Address : x \notin descriptors[a]
    BY <1>1, <1>3 DEF RegistryInv, TypeOK, Registered
  <2>4. connections[a] \subseteq Address /\ statements[a] \subseteq Address
        /\ descriptors[a] \subseteq Address
    BY <1>1 DEF RegistryInv, TypeOK
  <2> QED BY <2>1, <2>2, <2>3, <2>4
<1>5. \A s \in Registered("stmt"), r \in Role : implicit[s][r] # a
  BY DEF RegistryInv, ImplicitSound, Registered
<1>6. \A s \in Address, r \in Role : explicit[s][r] # a
  BY <1>1 DEF RegistryInv, ExplicitSound, Registered, RegistryAssumption
<1>7. \A r \in Role : explicit[a][r] = Null
  BY <1>1 DEF RegistryInv, ExplicitSound, Registered
<1> QED BY <1>1, <1>2, <1>3, <1>4, <1>5, <1>6, <1>7

\* SQLAllocHandle(SQL_HANDLE_ENV): a new environment stands alone.
LEMMA AllocEnvironmentInv ==
    ASSUME RegistryAssumption, RegistryInv,
           NEW e \in Address, AllocEnvironment(e)
    PROVE  RegistryInv'
<1>1. e \in Registered("none")
  BY DEF AllocEnvironment, Fresh
<1>2. \A k \in Kind : Registered(k)' = IF k = "env" THEN Registered(k) \cup {e} ELSE Registered(k)
  BY <1>1 DEF AllocEnvironment, Registered, RegistryInv, TypeOK, Kind
<1>3. TypeOK'
  BY <1>1, <1>2 DEF AllocEnvironment, RegistryInv, TypeOK, Kind
<1>4. Owned'
  BY <1>2 DEF AllocEnvironment, RegistryInv, Owned, Kind
<1>5. ImplicitSound' /\ ExplicitSound'
  BY <1>2 DEF AllocEnvironment, RegistryInv, ImplicitSound, ExplicitSound, Kind
<1> QED BY <1>3, <1>4, <1>5 DEF RegistryInv

\* SQLAllocHandle(SQL_HANDLE_DBC): the environment owns the new connection.
LEMMA AllocConnectionInv ==
    ASSUME RegistryAssumption, RegistryInv,
           NEW e \in Address, NEW c \in Address, AllocConnection(e, c)
    PROVE  RegistryInv'
<1>1. c \in Registered("none") /\ e \in Registered("env") /\ c # e
  BY DEF AllocConnection, Fresh, Registered
<1>2. \A k \in Kind : Registered(k)' = IF k = "dbc" THEN Registered(k) \cup {c} ELSE Registered(k)
  BY <1>1 DEF AllocConnection, Registered, RegistryInv, TypeOK, Kind
<1>3. TypeOK'
  BY <1>1, <1>2, FreshUnused DEF AllocConnection, RegistryInv, TypeOK, Kind, Registered
<1>4. Owned'
  BY <1>1, <1>2, FreshUnused DEF AllocConnection, RegistryInv, TypeOK, Owned, Kind, Registered
<1>5. ImplicitSound' /\ ExplicitSound'
  BY <1>1, <1>2, FreshUnused
  DEF AllocConnection, RegistryInv, TypeOK, ImplicitSound, ExplicitSound, Kind, Registered
<1> QED BY <1>3, <1>4, <1>5 DEF RegistryInv

\* SQLAllocHandle(SQL_HANDLE_DESC): the connection owns the new descriptor.
LEMMA AllocDescriptorInv ==
    ASSUME RegistryAssumption, RegistryInv,
           NEW c \in Address, NEW d \in Address, AllocDescriptor(c, d)
    PROVE  RegistryInv'
<1>1. d \in Registered("none") /\ c \in Registered("dbc") /\ c # d
  BY DEF AllocDescriptor, Fresh, Registered
<1>2. \A k \in Kind : Registered(k)' = IF k = "desc" THEN Registered(k) \cup {d} ELSE Registered(k)
  BY <1>1 DEF AllocDescriptor, Registered, RegistryInv, TypeOK, Kind
<1>3. TypeOK'
  BY <1>1, <1>2, FreshUnused DEF AllocDescriptor, RegistryInv, TypeOK, Kind, Registered
<1>4. Owned'
  BY <1>1, <1>2, FreshUnused DEF AllocDescriptor, RegistryInv, TypeOK, Owned, Kind, Registered
<1>5. ImplicitSound' /\ ExplicitSound'
  BY <1>1, <1>2, FreshUnused
  DEF AllocDescriptor, RegistryInv, TypeOK, ImplicitSound, ExplicitSound, Kind, Registered
<1> QED BY <1>3, <1>4, <1>5 DEF RegistryInv

\* A new statement comes with implicit descriptors of its own, at fresh addresses.
LEMMA NewStatementInv ==
    ASSUME RegistryAssumption, RegistryInv,
           NEW c \in Address, NEW s \in Address, NEW own \in [Role -> Address],
           NewStatement(c, s, own), handedOut' \subseteq Address
    PROVE  RegistryInv'
<1> DEFINE news == {own[r] : r \in Role}
<1>1. /\ c \in Registered("dbc") /\ c # s /\ c \notin news
      /\ s \in Registered("none") /\ s \notin news
      /\ news \subseteq Registered("none")
  BY DEF NewStatement, Fresh, Registered
<1>2. /\ Registered("env")' = Registered("env") /\ Registered("dbc")' = Registered("dbc")
      /\ Registered("stmt")' = Registered("stmt") \cup {s}
      /\ Registered("desc")' = Registered("desc") \cup news
  <2>1. \A a \in Address : descendants'[a] =
           IF a = s THEN "stmt" ELSE IF a \in news THEN "desc" ELSE descendants[a]
    BY DEF NewStatement
  <2> HIDE DEF news
  <2> QED BY <1>1, <2>1 DEF Registered
<1>3. /\ \A a \in Registered("dbc") : parent'[a] = parent[a]
      /\ \A a \in Registered("stmt") : parent'[a] = parent[a]
      /\ \A a \in Registered("desc") : parent'[a] = parent[a]
  BY <1>1 DEF NewStatement, Registered
<1>4. parent'[s] = c /\ \A a \in news : parent'[a] = c
  BY <1>1 DEF NewStatement, Registered
<1>5. /\ implicit'[s] = own /\ \A a \in Address : a # s => implicit'[a] = implicit[a]
      /\ implicit' \in [Address -> [Role -> Address \cup {Null}]]
  BY DEF NewStatement, RegistryInv, TypeOK
<1>6. /\ connections' = connections /\ environments' = environments
      /\ explicit' = explicit
      /\ \A a \in Address :
            /\ statements'[a] = IF a = c THEN statements[a] \cup {s} ELSE statements[a]
            /\ descriptors'[a] = IF a = c THEN descriptors[a] \cup news ELSE descriptors[a]
  BY DEF NewStatement, RegistryInv, TypeOK
<1>11. \A r \in Role : own[r] \in news
  OBVIOUS
<1> HIDE DEF news
<1>7. TypeOK'
  <2>1. descendants' \in [Address -> Kind \cup {"none"}]
    BY DEF NewStatement, RegistryInv, TypeOK, Kind
  <2>2. /\ parent' \in [Address -> Address \cup {Null}]
        /\ allocType' \in [Address -> {"auto", "user"}]
    BY DEF NewStatement, RegistryInv, TypeOK
  <2>3. /\ statements' \in [Address -> SUBSET Address]
        /\ descriptors' \in [Address -> SUBSET Address]
    BY DEF NewStatement, RegistryInv, TypeOK
  <2>4. ASSUME NEW a \in Address
        PROVE  /\ connections'[a] \subseteq {x \in Registered("dbc")' : parent'[x] = a}
               /\ statements'[a] \subseteq {x \in Registered("stmt")' : parent'[x] = a}
               /\ descriptors'[a] \subseteq {x \in Registered("desc")' : parent'[x] = a}
    <3>1. connections'[a] \subseteq {x \in Registered("dbc")' : parent'[x] = a}
      BY <1>2, <1>3, <1>6 DEF RegistryInv, TypeOK
    <3>2. /\ \A x \in statements[a] : x \in Registered("stmt") /\ parent[x] = a
          /\ \A x \in descriptors[a] : x \in Registered("desc") /\ parent[x] = a
      BY DEF RegistryInv, TypeOK
    <3>3. \A x \in statements'[a] : x \in Registered("stmt")' /\ parent'[x] = a
      <4>1. statements'[a] = IF a = c THEN statements[a] \cup {s} ELSE statements[a]
        BY <1>6
      <4> QED BY <3>2, <4>1, <1>2, <1>3, <1>4
    <3>4. \A x \in descriptors'[a] : x \in Registered("desc")' /\ parent'[x] = a
      BY <3>2, <1>2, <1>3, <1>4, <1>6
    <3> QED BY <3>1, <3>3, <3>4
  <2>5. environments' \subseteq Registered("env")' /\ explicit' \in [Address -> [Role -> Address \cup {Null}]]
    BY <1>2, <1>6 DEF RegistryInv, TypeOK
  <2> QED BY <1>5, <1>6, <2>1, <2>2, <2>3, <2>4, <2>5 DEF RegistryInv, TypeOK
<1>8. Owned'
  <2>1. ASSUME NEW a \in Registered("desc")
        PROVE  /\ parent'[a] \in Registered("dbc")'
               /\ \/ a \in descriptors'[parent'[a]]
                  \/ \E t \in Registered("stmt")', r \in Role : implicit'[t][r] = a
    <3>1. parent'[a] = parent[a] /\ parent[a] \in Registered("dbc") /\ parent[a] \in Address
      BY <1>3 DEF RegistryInv, Owned, Registered
    <3>2. CASE a \in descriptors[parent[a]]
      BY <3>1, <3>2, <1>2, <1>6
    <3>3. CASE \E t \in Registered("stmt"), r \in Role : implicit[t][r] = a
      <4>1. PICK t \in Registered("stmt"), r \in Role : implicit[t][r] = a
        BY <3>3
      <4>2. t # s /\ t \in Address
        BY <1>1 DEF Registered
      <4> QED BY <3>1, <4>1, <4>2, <1>2, <1>5
    <3> QED BY <3>2, <3>3 DEF RegistryInv, Owned
  <2>2. ASSUME NEW a \in news
        PROVE  parent'[a] \in Registered("dbc")' /\ a \in descriptors'[parent'[a]]
    BY <1>1, <1>2, <1>4, <1>6 DEF Registered
  <2>3. ASSUME NEW a \in Registered("stmt")'
        PROVE  parent'[a] \in Registered("dbc")' /\ a \in statements'[parent'[a]]
    <3>1. CASE a = s
      BY <3>1, <1>1, <1>2, <1>4, <1>6
    <3>2. CASE a # s
      <4>1. a \in Registered("stmt") /\ parent[a] \in Registered("dbc")
            /\ a \in statements[parent[a]] /\ parent'[a] = parent[a]
        BY <3>2, <1>2, <1>3 DEF RegistryInv, Owned
      <4> QED BY <4>1, <1>2, <1>6 DEF Registered
    <3> QED BY <3>1, <3>2
  <2>4. ASSUME NEW a \in Registered("dbc")'
        PROVE  parent'[a] \in environments' /\ a \in connections'[parent'[a]]
    BY <1>2, <1>3, <1>6 DEF RegistryInv, Owned, Registered, Kind
  <2>5. \A a \in Registered("env")' : a \in environments'
    BY <1>2, <1>6 DEF RegistryInv, Owned
  <2> QED BY <1>2, <2>1, <2>2, <2>3, <2>4, <2>5 DEF Owned
<1>9. ImplicitSound'
  <2>1. \A t \in Registered("stmt")', r \in Role :
           /\ implicit'[t][r] \in Registered("desc")'
           /\ parent'[implicit'[t][r]] = parent'[t]
    <3>1. ASSUME NEW t \in Registered("stmt"), NEW r \in Role
          PROVE  /\ implicit'[t][r] \in Registered("desc")'
                 /\ parent'[implicit'[t][r]] = parent'[t]
      <4>1. t # s /\ t \in Address
        BY <1>1 DEF Registered
      <4> QED BY <4>1, <1>2, <1>3, <1>5 DEF RegistryInv, ImplicitSound
    <3>2. ASSUME NEW r \in Role
          PROVE  implicit'[s][r] \in Registered("desc")' /\ parent'[implicit'[s][r]] = parent'[s]
      BY <1>2, <1>4, <1>5, <1>11
    <3> QED BY <1>2, <3>1, <3>2
  <2>2. \A t1, t2 \in Registered("stmt")', r1, r2 \in Role :
           implicit'[t1][r1] = implicit'[t2][r2] => t1 = t2 /\ r1 = r2
    BY <1>1, <1>2, <1>5, <1>11, FreshUnused
    DEF RegistryInv, ImplicitSound, Registered, NewStatement
  <2> QED BY <2>1, <2>2 DEF ImplicitSound
<1>10. ExplicitSound'
  BY <1>1, <1>2, <1>3, <1>6, FreshUnused
  DEF RegistryInv, ExplicitSound, Registered, Kind
<1> QED BY <1>7, <1>8, <1>9, <1>10 DEF RegistryInv

\* SQLSetStmtAttr: only a descriptor of the same connection becomes explicit.
LEMMA DescriptorUseInv ==
    ASSUME RegistryAssumption, RegistryInv, NEW s \in Address, NEW r \in AppRole,
           \/ \E d \in Address : SetExplicitDescriptor(s, r, d)
           \/ SetImplicitDescriptor(s, r)
    PROVE  RegistryInv'
<1>1. CASE \E d \in Address : SetExplicitDescriptor(s, r, d)
  <2>1. PICK d \in Address : SetExplicitDescriptor(s, r, d)
    BY <1>1
  <2>2. TypeOK'
    BY <2>1 DEF SetExplicitDescriptor, RegistryInv, TypeOK, Registered, RegistryAssumption
  <2>3. Owned' /\ ImplicitSound'
    BY <2>1 DEF SetExplicitDescriptor, RegistryInv, Owned, ImplicitSound, Registered
  <2>4. ExplicitSound'
    BY <2>1 DEF SetExplicitDescriptor, RegistryInv, TypeOK, ExplicitSound, Registered,
        RegistryAssumption
  <2> QED BY <2>2, <2>3, <2>4 DEF RegistryInv
<1>2. CASE SetImplicitDescriptor(s, r)
  <2>1. TypeOK'
    BY <1>2 DEF SetImplicitDescriptor, RegistryInv, TypeOK, Registered, RegistryAssumption
  <2>2. Owned' /\ ImplicitSound'
    BY <1>2 DEF SetImplicitDescriptor, RegistryInv, Owned, ImplicitSound, Registered
  <2>3. ExplicitSound'
    BY <1>2 DEF SetImplicitDescriptor, RegistryInv, TypeOK, ExplicitSound, Registered,
        RegistryAssumption
  <2> QED BY <2>1, <2>2, <2>3 DEF RegistryInv
<1> QED BY <1>1, <1>2

\* SQL_DESC_ALLOC_TYPE says nothing about who owns a descriptor.
LEMMA SetAllocTypeInv ==
    ASSUME RegistryInv, NEW d \in Address, NEW type \in {"auto", "user"},
           SetAllocType(d, type)
    PROVE  RegistryInv'
<1>1. TypeOK'
  BY DEF SetAllocType, RegistryInv, TypeOK, Registered
<1> QED BY <1>1 DEF SetAllocType, RegistryInv, Owned, ImplicitSound, ExplicitSound, Registered

\* SQLFreeHandle: what stays registered keeps its parent, its place in the
\* parent's map and its descriptors, because Dying is closed under all three.
LEMMA FreeHandleInv ==
    ASSUME RegistryAssumption, RegistryInv, NEW h \in Address, FreeHandle(h)
    PROVE  RegistryInv'
<1> DEFINE dead == Dying(h)
<1>1. /\ dead \subseteq Address
      /\ \A c \in Registered("dbc") : parent[c] \in dead => c \in dead
      /\ \A a \in Registered("stmt") \cup Registered("desc") :
            parent[a] \in dead => a \in dead
      /\ \A s \in Registered("stmt"), r \in Role : s \in dead <=> implicit[s][r] \in dead
      /\ h \notin Registered("desc") => h \in dead
      /\ h \in Registered("desc") \ dead =>
            \E s \in Registered("stmt"), r \in Role : implicit[s][r] = h
  BY DyingClosed DEF FreeHandle
<1>2. /\ descendants' = [a \in Address |-> IF a \in dead THEN "none" ELSE descendants[a]]
      /\ environments' = environments \ {h}
      /\ parent' = [a \in Address |-> IF a \in dead THEN Null ELSE parent[a]]
      /\ implicit' = [a \in Address |->
            IF a \in dead THEN NoDescriptors ELSE implicit[a]]
      /\ explicit' = [a \in Address |->
            IF a \in dead THEN NoDescriptors
            ELSE [r \in Role |->
                    IF explicit[a][r] \in dead THEN Null ELSE explicit[a][r]]]
      /\ allocType' = [a \in Address |-> IF a \in dead THEN "auto" ELSE allocType[a]]
      /\ handedOut' = handedOut \ dead
  BY DEF FreeHandle, Unregistered, Expired
<1>3. /\ connections' = [a \in Address |->
            IF a \in dead THEN {} ELSE connections[a] \ (dead \cup {h})]
      /\ statements' = [a \in Address |->
            IF a \in dead THEN {} ELSE statements[a] \ (dead \cup {h})]
      /\ descriptors' = [a \in Address |->
            IF a \in dead THEN {} ELSE descriptors[a] \ (dead \cup {h})]
  BY DEF FreeHandle, Erased
<1> HIDE DEF dead
<1>4. /\ Registered("env")' = Registered("env") \ dead
      /\ Registered("dbc")' = Registered("dbc") \ dead
      /\ Registered("stmt")' = Registered("stmt") \ dead
      /\ Registered("desc")' = Registered("desc") \ dead
  BY <1>2 DEF Registered
<1>5. \A a \in Address \ dead :
         /\ parent'[a] = parent[a] /\ implicit'[a] = implicit[a]
         /\ connections'[a] = connections[a] \ (dead \cup {h})
         /\ statements'[a] = statements[a] \ (dead \cup {h})
         /\ descriptors'[a] = descriptors[a] \ (dead \cup {h})
         /\ \A r \in Role : explicit'[a][r] =
               IF explicit[a][r] \in dead THEN Null ELSE explicit[a][r]
  BY <1>2, <1>3
<1>6. \A a \in dead :
         /\ connections'[a] = {} /\ statements'[a] = {} /\ descriptors'[a] = {}
         /\ \A r \in Role : explicit'[a][r] = Null
  BY <1>1, <1>2, <1>3 DEF NoDescriptors
<1>7. TypeOK'
  <2>1. /\ descendants' \in [Address -> Kind \cup {"none"}]
        /\ parent' \in [Address -> Address \cup {Null}]
        /\ implicit' \in [Address -> [Role -> Address \cup {Null}]]
        /\ explicit' \in [Address -> [Role -> Address \cup {Null}]]
        /\ allocType' \in [Address -> {"auto", "user"}]
        /\ handedOut' \subseteq Address
    BY <1>2 DEF RegistryInv, TypeOK, NoDescriptors, Kind
  <2>2. /\ connections' \in [Address -> SUBSET Address]
        /\ statements' \in [Address -> SUBSET Address]
        /\ descriptors' \in [Address -> SUBSET Address]
    BY <1>3 DEF RegistryInv, TypeOK
  <2>3. environments' \subseteq Registered("env")'
    <3>1. \A e \in Registered("env") : e \in dead => e = h
      BY DyingEnvironment DEF FreeHandle, dead
    <3> QED BY <1>2, <1>4, <3>1 DEF RegistryInv, TypeOK
  <2>4. ASSUME NEW a \in Address
        PROVE  /\ connections'[a] \subseteq {x \in Registered("dbc")' : parent'[x] = a}
               /\ statements'[a] \subseteq {x \in Registered("stmt")' : parent'[x] = a}
               /\ descriptors'[a] \subseteq {x \in Registered("desc")' : parent'[x] = a}
    <3>1. CASE a \in dead
      BY <3>1, <1>6
    <3>2. CASE a \notin dead
      <4>1. /\ \A x \in connections[a] : x \in Registered("dbc") /\ parent[x] = a
            /\ \A x \in statements[a] : x \in Registered("stmt") /\ parent[x] = a
            /\ \A x \in descriptors[a] : x \in Registered("desc") /\ parent[x] = a
        BY DEF RegistryInv, TypeOK
      <4>2. \A k \in Kind : Registered(k) \subseteq Address
        BY DEF Registered
      <4> QED BY <3>2, <4>1, <4>2, <1>4, <1>5 DEF Kind
    <3> QED BY <3>1, <3>2
  <2> QED BY <2>1, <2>2, <2>3, <2>4 DEF TypeOK
<1>8. Owned'
  <2>1. \A a \in Registered("env")' : a \in environments'
    BY <1>1, <1>2, <1>4 DEF RegistryInv, Owned, Registered
  <2>2. ASSUME NEW a \in Registered("dbc")'
        PROVE  parent'[a] \in environments' /\ a \in connections'[parent'[a]]
    <3>1. /\ a \in Registered("dbc") /\ a \in Address \ dead
          /\ parent[a] \in environments /\ a \in connections[parent[a]]
      BY <1>4 DEF RegistryInv, Owned, Registered
    <3>2. parent[a] \in Registered("env") /\ parent[a] \in Address \ dead
      BY <3>1, <1>1 DEF RegistryInv, TypeOK, Registered
    <3>3. a # h /\ parent[a] # h
      BY <3>1, <3>2, <1>1 DEF Registered
    <3> QED BY <3>1, <3>2, <3>3, <1>2, <1>5
  <2>3. ASSUME NEW a \in Registered("stmt")'
        PROVE  parent'[a] \in Registered("dbc")' /\ a \in statements'[parent'[a]]
    <3>1. /\ a \in Registered("stmt") /\ a \in Address \ dead
          /\ parent[a] \in Registered("dbc") /\ a \in statements[parent[a]]
      BY <1>4 DEF RegistryInv, Owned, Registered
    <3>2. parent[a] \in Address \ dead
      BY <3>1, <1>1 DEF Registered
    <3>3. a # h
      BY <3>1, <1>1 DEF Registered
    <3> QED BY <3>1, <3>2, <3>3, <1>4, <1>5
  <2>4. ASSUME NEW a \in Registered("desc")'
        PROVE  /\ parent'[a] \in Registered("dbc")'
               /\ \/ a \in descriptors'[parent'[a]]
                  \/ \E s \in Registered("stmt")', r \in Role : implicit'[s][r] = a
    <3>1. /\ a \in Registered("desc") /\ a \in Address \ dead
          /\ parent[a] \in Registered("dbc")
          /\ \/ a \in descriptors[parent[a]]
             \/ \E s \in Registered("stmt"), r \in Role : implicit[s][r] = a
      BY <1>4 DEF RegistryInv, Owned, Registered
    <3>2. parent[a] \in Address \ dead
      BY <3>1, <1>1 DEF Registered
    <3>3. ASSUME NEW s \in Registered("stmt"), NEW r \in Role, implicit[s][r] = a
          PROVE  s \in Registered("stmt")' /\ implicit'[s][r] = a
      BY <3>1, <3>3, <1>1, <1>4, <1>5 DEF Registered
    <3>4. CASE a = h
      BY <3>1, <3>2, <3>3, <3>4, <1>1, <1>4, <1>5
    <3>5. CASE a # h
      BY <3>1, <3>2, <3>3, <3>5, <1>4, <1>5
    <3> QED BY <3>4, <3>5
  <2> QED BY <2>1, <2>2, <2>3, <2>4 DEF Owned
<1>9. ImplicitSound'
  <2>1. ASSUME NEW s \in Registered("stmt")'
        PROVE  s \in Registered("stmt") /\ s \in Address \ dead /\ implicit'[s] = implicit[s]
               /\ parent'[s] = parent[s]
    BY <1>4, <1>5 DEF Registered
  <2>2. \A s \in Registered("stmt")', r \in Role :
           implicit'[s][r] \in Registered("desc")' /\ parent'[implicit'[s][r]] = parent'[s]
    BY <2>1, <1>1, <1>4, <1>5 DEF RegistryInv, ImplicitSound, Registered
  <2> QED BY <2>1, <2>2 DEF RegistryInv, ImplicitSound
<1>10. ExplicitSound'
  <2>1. ASSUME NEW s \in Address, NEW r \in Role, explicit'[s][r] # Null
        PROVE  /\ s \in Registered("stmt")'
               /\ explicit'[s][r] \in Registered("desc")'
               /\ parent'[explicit'[s][r]] = parent'[s]
    <3>1. s \notin dead /\ explicit'[s][r] = explicit[s][r] /\ explicit[s][r] \notin dead
      BY <2>1, <1>5, <1>6
    <3> QED BY <2>1, <3>1, <1>4, <1>5 DEF RegistryInv, ExplicitSound, Registered
  <2> QED BY <2>1 DEF ExplicitSound
<1> QED BY <1>7, <1>8, <1>9, <1>10 DEF RegistryInv
-----------------------------------------------------------------------------
\* Every call preserves the invariant.
LEMMA NextInv ==
    ASSUME RegistryAssumption, RegistryInv, [Next]_vars
    PROVE  RegistryInv'
<1>1. ASSUME NEW e \in Address, AllocEnvironment(e) PROVE RegistryInv'
  BY <1>1, AllocEnvironmentInv
<1>2. ASSUME NEW e \in Address, NEW c \in Address, AllocConnection(e, c) PROVE RegistryInv'
  BY <1>2, AllocConnectionInv
<1>3. ASSUME NEW c \in Address, NEW d \in Address, AllocDescriptor(c, d) PROVE RegistryInv'
  BY <1>3, AllocDescriptorInv
<1>4. ASSUME NEW c \in Address, NEW s \in Address, NEW own \in [Role -> Address],
             AllocStatement(c, s, own) \/ NativeSqlFails(c, s, own)
      PROVE  RegistryInv'
  <2>1. NewStatement(c, s, own) /\ handedOut' \subseteq Address
    BY <1>4 DEF AllocStatement, NativeSqlFails, RegistryInv, TypeOK
  <2> QED BY <2>1, NewStatementInv
<1>5. ASSUME NEW h \in Address, FreeHandle(h) PROVE RegistryInv'
  BY <1>5, FreeHandleInv
<1>6. ASSUME NEW s \in Address, NEW r \in AppRole,
             (\E d \in Address : SetExplicitDescriptor(s, r, d)) \/ SetImplicitDescriptor(s, r)
      PROVE  RegistryInv'
  BY <1>6, DescriptorUseInv
<1>7. ASSUME NEW d \in Address, NEW type \in {"auto", "user"}, SetAllocType(d, type)
      PROVE  RegistryInv'
  BY <1>7, SetAllocTypeInv
<1>8. CASE UNCHANGED vars
  BY <1>8 DEF vars, RegistryInv, TypeOK, Owned, ImplicitSound, ExplicitSound, Registered
<1> QED BY <1>1, <1>2, <1>3, <1>4, <1>5, <1>6, <1>7, <1>8 DEF Next

\* RegistryInv is an invariant of the registry.
THEOREM InvariantHolds == Spec => []RegistryInv
<1>1. Init => RegistryInv
  BY InitInv, RegistryAssumption
<1>2. RegistryInv /\ [Next]_vars => RegistryInv'
  BY NextInv, RegistryAssumption
<1> QED BY <1>1, <1>2, PTL DEF Spec

\* The maps of the driver, the environments and the connections always hold
\* objects of their class whose parent is their owner.
THEOREM TypeCorrect == Spec => []TypeOK
<1>1. RegistryInv => TypeOK
  BY DEF RegistryInv
<1> QED BY <1>1, InvariantHolds, PTL

\* A handle is found in the registry exactly as long as its object lives.
THEOREM RegistryIsExact == Spec => []RegistryExact
<1>1. RegistryInv => RegistryExact
  BY InvImpliesSafety, RegistryAssumption
<1> QED BY <1>1, InvariantHolds, PTL

\* No object outlives the parent it refers to.
THEOREM ParentsStayAlive == Spec => []ParentsAlive
<1>1. RegistryInv => ParentsAlive
  BY InvImpliesSafety, RegistryAssumption
<1> QED BY <1>1, InvariantHolds, PTL

\* A statement never works with a dead descriptor or one of another connection.
THEOREM EffectiveDescriptorsAreSound == Spec => []EffectiveDescriptorSound
<1>1. RegistryInv => EffectiveDescriptorSound
  BY InvImpliesSafety, RegistryAssumption
<1> QED BY <1>1, InvariantHolds, PTL

\* Statements never come to share an implicit descriptor.
THEOREM ImplicitsAreNotShared == Spec => []ImplicitNotShared
<1>1. RegistryInv => ImplicitNotShared
  BY InvImpliesSafety, RegistryAssumption
<1> QED BY <1>1, InvariantHolds, PTL
-----------------------------------------------------------------------------
(* The handles the application was given.                                  *)

\* A descriptor is either handed out by SQLAllocHandle or implicit, not both.
HandedOutInv ==
    /\ \A a \in handedOut : a \notin Registered("none")
    /\ \A s \in Registered("stmt"), r \in Role : implicit[s][r] \notin handedOut
    /\ \A d \in Registered("desc") :
          d \in handedOut \/ \E s \in Registered("stmt"), r \in Role : implicit[s][r] = d

\* Every call keeps track of each descriptor's owner.
LEMMA HandedOutNext ==
    ASSUME RegistryAssumption, RegistryInv, HandedOutInv, [Next]_vars
    PROVE  HandedOutInv'
<1>1. ASSUME NEW e \in Address, AllocEnvironment(e) PROVE HandedOutInv'
  <2>1. e \in Registered("none") /\ implicit' = implicit /\ handedOut' = handedOut \cup {e}
    BY <1>1 DEF AllocEnvironment, Fresh
  <2>2. /\ Registered("stmt")' = Registered("stmt") /\ Registered("desc")' = Registered("desc")
        /\ Registered("none")' = Registered("none") \ {e}
    BY <1>1, <2>1 DEF AllocEnvironment, RegistryInv, TypeOK, Registered
  <2>3. \A s \in Registered("stmt"), r \in Role : implicit[s][r] # e
    BY <2>1, FreshUnused
  <2> QED BY <2>1, <2>2, <2>3 DEF HandedOutInv
<1>2. ASSUME NEW e \in Address, NEW c \in Address, AllocConnection(e, c) PROVE HandedOutInv'
  <2>1. c \in Registered("none") /\ implicit' = implicit /\ handedOut' = handedOut \cup {c}
    BY <1>2 DEF AllocConnection, Fresh
  <2>2. /\ Registered("stmt")' = Registered("stmt") /\ Registered("desc")' = Registered("desc")
        /\ Registered("none")' = Registered("none") \ {c}
    BY <1>2, <2>1 DEF AllocConnection, RegistryInv, TypeOK, Registered
  <2>3. \A s \in Registered("stmt"), r \in Role : implicit[s][r] # c
    BY <2>1, FreshUnused
  <2> QED BY <2>1, <2>2, <2>3 DEF HandedOutInv
<1>3. ASSUME NEW c \in Address, NEW d \in Address, AllocDescriptor(c, d) PROVE HandedOutInv'
  <2>1. d \in Registered("none") /\ implicit' = implicit /\ handedOut' = handedOut \cup {d}
    BY <1>3 DEF AllocDescriptor, Fresh
  <2>2. /\ Registered("stmt")' = Registered("stmt") /\ Registered("desc")' = Registered("desc") \cup {d}
        /\ Registered("none")' = Registered("none") \ {d}
    BY <1>3, <2>1 DEF AllocDescriptor, RegistryInv, TypeOK, Registered
  <2>3. \A s \in Registered("stmt"), r \in Role : implicit[s][r] # d
    BY <2>1, FreshUnused
  <2> QED BY <2>1, <2>2, <2>3 DEF HandedOutInv
<1>4. ASSUME NEW c \in Address, NEW s \in Address, NEW own \in [Role -> Address],
             NewStatement(c, s, own), handedOut' = handedOut \/ handedOut' = handedOut \cup {s}
      PROVE  HandedOutInv'
  <2> DEFINE news == {own[r] : r \in Role}
  <2>1. s \in Registered("none") /\ s \notin news /\ news \subseteq Registered("none")
    BY <1>4 DEF NewStatement, Fresh
  <2>2. /\ \A a \in Address : descendants'[a] =
              IF a = s THEN "stmt" ELSE IF a \in news THEN "desc" ELSE descendants[a]
        /\ implicit'[s] = own /\ \A a \in Address : a # s => implicit'[a] = implicit[a]
    BY <1>4 DEF NewStatement, RegistryInv, TypeOK
  <2>3. /\ \A r \in Role : own[r] \in news
        /\ \A a \in news : \E r \in Role : own[r] = a
    OBVIOUS
  <2> HIDE DEF news
  <2>4. /\ Registered("stmt")' = Registered("stmt") \cup {s}
        /\ Registered("desc")' = Registered("desc") \cup news
        /\ Registered("none")' = Registered("none") \ (news \cup {s})
    BY <2>1, <2>2 DEF Registered
  <2>5. s \in Address /\ \A t \in Registered("stmt") : t \in Address /\ t # s
    BY <2>1 DEF Registered
  <2>6. \A a \in handedOut' : a \notin Registered("none")' /\ a \notin news
    BY <1>4, <2>1, <2>4 DEF HandedOutInv
  <2>7. ASSUME NEW t \in Registered("stmt")', NEW r \in Role
        PROVE  implicit'[t][r] \notin handedOut'
    <3>1. CASE t = s
      BY <3>1, <2>2, <2>3, <2>6
    <3>2. CASE t # s
      <4>1. t \in Registered("stmt") /\ implicit'[t] = implicit[t]
        BY <3>2, <2>2, <2>4, <2>5
      <4>2. implicit[t][r] # s
        BY <4>1, <2>1, FreshUnused
      <4> QED BY <4>1, <4>2, <1>4 DEF HandedOutInv
    <3> QED BY <3>1, <3>2
  <2>8. ASSUME NEW d \in Registered("desc")'
        PROVE  d \in handedOut' \/ \E t \in Registered("stmt")', r \in Role : implicit'[t][r] = d
    <3>1. CASE d \in news
      BY <3>1, <2>2, <2>3, <2>4
    <3>2. CASE d \in Registered("desc")
      BY <3>2, <1>4, <2>2, <2>4, <2>5 DEF HandedOutInv
    <3> QED BY <3>1, <3>2, <2>4
  <2> QED BY <2>6, <2>7, <2>8 DEF HandedOutInv
<1>5. ASSUME NEW h \in Address, FreeHandle(h) PROVE HandedOutInv'
  <2> DEFINE dead == Dying(h)
  <2>1. \A s \in Registered("stmt"), r \in Role : s \in dead <=> implicit[s][r] \in dead
    BY <1>5, DyingClosed DEF FreeHandle
  <2>2. /\ descendants' = [a \in Address |-> IF a \in dead THEN "none" ELSE descendants[a]]
        /\ implicit' = [a \in Address |->
              IF a \in dead THEN NoDescriptors ELSE implicit[a]]
        /\ handedOut' = handedOut \ dead
    BY <1>5 DEF FreeHandle, Unregistered
  <2> HIDE DEF dead
  <2>3. /\ Registered("stmt")' = Registered("stmt") \ dead
        /\ Registered("desc")' = Registered("desc") \ dead
        /\ \A a \in Registered("none")' : a \in Registered("none") \/ a \in dead
    BY <2>2 DEF Registered
  <2>4. \A s \in Registered("stmt") \ dead : implicit'[s] = implicit[s]
    BY <2>2 DEF Registered
  <2>5. \A a \in handedOut' : a \notin Registered("none")'
    BY <2>2, <2>3 DEF HandedOutInv
  <2>6. \A s \in Registered("stmt")', r \in Role : implicit'[s][r] \notin handedOut'
    BY <2>2, <2>3, <2>4 DEF HandedOutInv
  <2>7. ASSUME NEW d \in Registered("desc")', d \notin handedOut'
        PROVE  \E s \in Registered("stmt")', r \in Role : implicit'[s][r] = d
    <3>1. d \in Registered("desc") /\ d \notin dead /\ d \notin handedOut
      BY <2>2, <2>3, <2>7
    <3>2. PICK s \in Registered("stmt"), r \in Role : implicit[s][r] = d
      BY <3>1 DEF HandedOutInv
    <3> QED BY <3>1, <3>2, <2>1, <2>3, <2>4
  <2> QED BY <2>5, <2>6, <2>7 DEF HandedOutInv
<1>6. CASE UNCHANGED <<descendants, implicit, handedOut>>
  BY <1>6 DEF HandedOutInv, Registered
<1> QED BY <1>1, <1>2, <1>3, <1>4, <1>5, <1>6
    DEF Next, AllocStatement, NativeSqlFails, SetExplicitDescriptor,
        SetImplicitDescriptor, SetAllocType, vars

\* HandedOutInv is an invariant of the registry.
THEOREM HandedOutHolds == Spec => []HandedOutInv
<1>1. Init => HandedOutInv
  BY DEF Init, HandedOutInv, Registered
<1>2. RegistryInv /\ HandedOutInv /\ [Next]_vars => HandedOutInv'
  BY HandedOutNext, RegistryAssumption
<1> QED BY <1>1, <1>2, InvariantHolds, PTL DEF Spec

\* No descriptor is lost by the driver.
THEOREM NoDescriptorLost == Spec => []DescriptorsAccountedFor
<1>1. RegistryInv /\ HandedOutInv => DescriptorsAccountedFor
  BY LiveIsRegistered DEF HandedOutInv, DescriptorsAccountedFor, ImplicitOf
<1> QED BY <1>1, InvariantHolds, HandedOutHolds, PTL

\* What the application allocated dies by itself or with its connection.
LEMMA UserDescriptorDies ==
    ASSUME RegistryInv, HandedOutInv, NEW h \in Address, descendants[h] \in Kind,
           NEW d \in Registered("desc") \cap handedOut, d \in Dying(h)
    PROVE  descendants[h] = "desc" \/ parent[d] \in Dying(h)
<1>1. CASE descendants[h] = "env"
  <2>1. Dying(h) = {h} \cup DyingWithConnections(connections[h])
    BY <1>1 DEF Dying
  <2>2. connections[h] \subseteq Dying(h)
    BY <2>1 DEF DyingWithConnections
  <2>3. \A c \in connections[h] : c \in Registered("dbc") /\ c \in Address
    BY DEF RegistryInv, TypeOK, Registered
  <2>4. \/ d \in connections[h] \/ d = h
        \/ \E c \in connections[h] : d \in statements[c] \cup descriptors[c]
        \/ \E c \in connections[h] : \E s \in statements[c], r \in Role : d = implicit[s][r]
    BY <2>1 DEF DyingWithConnections, DyingWithStatements, ImplicitOf
  <2>5. \A c \in connections[h] : \A s \in statements[c], r \in Role : d # implicit[s][r]
    BY <2>3 DEF HandedOutInv, RegistryInv, TypeOK
  <2>6. \E c \in connections[h] : d \in descriptors[c]
    BY <2>3, <2>4, <2>5, <1>1 DEF RegistryInv, TypeOK, Registered
  <2> QED BY <2>2, <2>3, <2>6 DEF RegistryInv, TypeOK
<1>2. CASE descendants[h] = "dbc"
  <2>1. Dying(h) = DyingWithConnections({h})
    BY <1>2 DEF Dying
  <2>2. \/ d = h \/ d \in statements[h] \cup descriptors[h]
        \/ \E s \in statements[h], r \in Role : d = implicit[s][r]
    BY <2>1 DEF DyingWithConnections, DyingWithStatements, ImplicitOf
  <2>3. parent[d] = h
    BY <2>2, <1>2 DEF RegistryInv, TypeOK, ImplicitSound, Registered
  <2> QED BY <2>1, <2>3 DEF DyingWithConnections
<1>3. CASE descendants[h] = "stmt"
  <2>1. Dying(h) = DyingWithStatements({h})
    BY <1>3 DEF Dying
  <2> QED BY <2>1, <1>3 DEF DyingWithStatements, ImplicitOf, HandedOutInv, Registered
<1> QED BY <1>1, <1>2, <1>3 DEF Kind

\* Every descriptor belongs to the application or to one role of one statement.
THEOREM DescriptorsHaveOneOwner == Spec => []DescriptorsOwned
<1>1. DescriptorsAccountedFor /\ ImplicitNotShared => DescriptorsOwned
  BY DEF DescriptorsOwned
<1> QED BY <1>1, NoDescriptorLost, ImplicitsAreNotShared, PTL

\* A user descriptor is never freed by the end of a statement that uses it.
THEOREM UserDescriptorsStay == Spec => UserDescriptorsOutliveStatements
<1> DEFINE Stays ==
      \A d \in LiveDescriptors \cap handedOut :
          d \notin LiveDescriptors' /\ parent[d] \in LiveConnections' =>
              LiveStatements' = LiveStatements
<1> DEFINE LiveIs ==
      /\ LiveConnections = Registered("dbc")
      /\ LiveStatements = Registered("stmt")
      /\ LiveDescriptors = Registered("desc")
<1>1. RegistryInv => LiveIs
  BY LiveIsRegistered
<1>2. RegistryInv /\ HandedOutInv /\ LiveIs /\ LiveIs' /\ [Next]_vars => [Stays]_vars
  <2> SUFFICES ASSUME RegistryInv, HandedOutInv, LiveIs, LiveIs', Next,
                      NEW d \in Registered("desc") \cap handedOut,
                      d \notin Registered("desc")', parent[d] \in Registered("dbc")'
               PROVE  Registered("stmt")' = Registered("stmt")
    OBVIOUS
  <2>1. d \in Address /\ descendants[d] = "desc" /\ descendants'[d] # "desc"
    BY DEF Registered
  <2>2. PICK h \in Address : FreeHandle(h)
    <3>1. ASSUME NEW e \in Address, AllocEnvironment(e) PROVE FALSE
      BY <3>1, <2>1 DEF AllocEnvironment, Fresh, Registered, RegistryInv, TypeOK
    <3>2. ASSUME NEW e \in Address, NEW c \in Address, AllocConnection(e, c) PROVE FALSE
      BY <3>2, <2>1 DEF AllocConnection, Fresh, Registered, RegistryInv, TypeOK
    <3>3. ASSUME NEW c \in Address, NEW e \in Address, AllocDescriptor(c, e) PROVE FALSE
      BY <3>3, <2>1 DEF AllocDescriptor, Fresh, Registered, RegistryInv, TypeOK
    <3>4. ASSUME NEW c \in Address, NEW s \in Address, NEW own \in [Role -> Address],
                 NewStatement(c, s, own)
          PROVE  FALSE
      <4>1. d # s
        BY <3>4, <2>1 DEF NewStatement, Fresh, Registered
      <4>2. descendants'[d] = "desc"
        BY <3>4, <4>1, <2>1 DEF NewStatement
      <4> QED BY <4>2, <2>1
    <3>5. CASE UNCHANGED descendants
      BY <3>5, <2>1
    <3> QED BY <3>1, <3>2, <3>3, <3>4, <3>5
         DEF Next, AllocStatement, NativeSqlFails, SetExplicitDescriptor,
             SetImplicitDescriptor, SetAllocType
  <2>3. /\ descendants[h] \in Kind
        /\ descendants' =
             [a \in Address |-> IF a \in Dying(h) THEN "none" ELSE descendants[a]]
    BY <2>2 DEF FreeHandle, Unregistered
  <2>4. d \in Dying(h) /\ parent[d] \notin Dying(h)
    BY <2>1, <2>3 DEF Registered
  <2>5. descendants[h] = "desc"
    BY <2>3, <2>4, UserDescriptorDies
  <2>6. Dying(h) \subseteq {h}
    BY <2>5 DEF Dying, DyingWithDescriptor
  <2> QED BY <2>3, <2>5, <2>6 DEF Registered
<1> HIDE DEF LiveIs
<1>3. Spec => [][Stays]_vars
  BY <1>1, <1>2, InvariantHolds, HandedOutHolds, PTL DEF Spec
<1> QED BY <1>3 DEF UserDescriptorsOutliveStatements
=============================================================================
