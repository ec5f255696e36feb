---------------------- MODULE ParameterBinding_proofs ----------------------
(***************************************************************************)
(* A query is sent the values its parameters are bound to, for any number  *)
(* of parameters, buffers and types.  The invariant (Inv) ties the two     *)
(* descriptors together, parameter by parameter (Holds): nothing is bound  *)
(* or loose past the APD's count, and a parameter that is neither loose    *)
(* nor unbound has its pointer in the APD and its type in a record the     *)
(* IPD's count covers.  A prepare trims the IPD to the APD's count, and    *)
(* it is the first half that makes this safe.  From there the arguments    *)
(* are a matter of sequences laid end to end, which has its own section:   *)
(* the function FlattenSeq is defined by exists, and what it returns is    *)
(* shown on the least number for which it would be otherwise.              *)
(***************************************************************************)
EXTENDS ParameterBinding, SequenceTheorems, WellFoundedInduction, TLAPS

Types == SqlType \cup {Unknown}
Sound(D, T) ==
    /\ D \in [count: 0..MaxParam, records: Seq(T)]
    /\ Len(D.records) <= MaxParam

Holds(A, I, Q, L, p) ==
    /\ p > A.count => Q[p] = NotBound /\ p \notin L
    /\ p \notin L /\ Q[p] # NotBound =>
          /\ RecordAt(A, p, Null) = Q[p].at
          /\ p <= I.count /\ RecordAt(I, p, Unknown) = Q[p].type

Ok(A, I, Q, L) ==
    /\ Sound(A, Pointer) /\ Sound(I, Types) /\ I.count <= Len(I.records)
    /\ Q \in [Param -> [at: Pointer, type: Types]] /\ L \subseteq Param
    /\ \A p \in Param : Holds(A, I, Q, L, p)

Inv ==
    /\ nparams \in 0..MaxParam /\ isPrepared \in BOOLEAN
    /\ MarkersDescribed
    /\ Ok(apd, ipd, asked, loose)
-----------------------------------------------------------------------------
(* Descriptors, whatever their records are.                                *)

\* getRecord changes nothing that is in effect, and makes the record.
LEMMA GetRecordKeeps ==
    ASSUME ParameterBindingAssumption, NEW T, NEW blank \in T, NEW D, Sound(D, T),
           NEW num \in 0..MaxParam, NEW E, E = GetRecord(D, num, blank)
    PROVE  /\ Sound(E, T) /\ E.count = Larger(D.count, num)
           /\ num # 0 => num \in 1..Len(E.records) /\ num <= E.count
           /\ num # 0 \/ D.count <= Len(D.records) => E.count <= Len(E.records)
           /\ \A p \in Param : RecordAt(E, p, blank) = RecordAt(D, p, blank)
<1>1. CASE num = 0
  BY <1>1 DEF GetRecord, Larger, Sound, ParameterBindingAssumption
<1>2. CASE num # 0
  <2> DEFINE n == Larger(Len(D.records), Larger(D.count, num))
             f == [i \in 1..n |->
                     IF i <= Len(D.records) /\ i \notin (D.count + 1)..num
                     THEN D.records[i] ELSE blank]
  <2>1. /\ MaxParam \in Nat /\ D.count \in 0..MaxParam /\ Len(D.records) \in Nat
        /\ Len(D.records) <= MaxParam /\ D.records \in Seq(T)
    BY LenProperties DEF Sound, ParameterBindingAssumption
  <2>2. /\ n \in 0..MaxParam /\ Len(D.records) <= n /\ D.count <= n /\ num <= n
        /\ Larger(D.count, num) \in 0..MaxParam /\ Larger(D.count, num) <= n
    BY <2>1 DEF Larger
  <2>3. \A i \in 1..n : f[i] \in T
    <3>1. TAKE i \in 1..n
    <3>2. i <= Len(D.records) => D.records[i] \in T
      BY <2>1, <2>2, ElementOfSeq
    <3> QED BY <3>2
  <2>4. f \in Seq(T) /\ Len(f) = n
    <3>1. f \in [1..n -> T]
      BY <2>3
    <3>2. n \in Nat
      BY <2>2
    <3> HIDE DEF f, n
    <3> QED BY <3>1, <3>2, SeqDef, LenProperties
  <2>5. E = [count |-> Larger(D.count, num), records |-> f]
    BY <1>2 DEF GetRecord
  <2>6. E.count = Larger(D.count, num) /\ E.records = f
    BY <2>5
  <2>7. \A p \in Param : RecordAt(E, p, blank) = RecordAt(D, p, blank)
    <3>1. TAKE p \in Param
    <3>2. p \in 1..MaxParam
      BY DEF Param
    <3>3. p <= n => f[p] = IF p <= Len(D.records) /\ p \notin (D.count + 1)..num
                           THEN D.records[p] ELSE blank
      BY <3>2, <2>2
    <3> HIDE DEF f
    <3>4. CASE p <= E.count
      BY <3>2, <3>3, <3>4, <2>1, <2>2, <2>4, <2>6 DEF RecordAt, Larger
    <3>5. CASE ~(p <= E.count)
      <4>1. ~(p <= D.count)
        BY <3>5, <3>2, <2>1, <2>6 DEF Larger
      <4> QED BY <4>1, <3>5 DEF RecordAt
    <3> QED BY <3>4, <3>5
  <2>8. Sound(E, T)
    BY <2>2, <2>4, <2>5, <2>6 DEF Sound
  <2>9. num \in 1..Len(E.records) /\ num <= E.count
    BY <1>2, <2>1, <2>2, <2>4, <2>6 DEF Larger
  <2> QED BY <2>2, <2>4, <2>6, <2>7, <2>8, <2>9
<1> QED BY <1>1, <1>2

\* Writing a record that is there changes that one only.
LEMMA SetRecordSets ==
    ASSUME ParameterBindingAssumption, NEW T, NEW blank \in T, NEW D, Sound(D, T),
           NEW num \in 1..Len(D.records), num <= D.count, NEW r \in T,
           NEW E, E = SetRecord(D, num, r)
    PROVE  /\ Sound(E, T) /\ E.count = D.count /\ Len(E.records) = Len(D.records)
           /\ \A p \in Param : RecordAt(E, p, blank) =
                                  IF p = num THEN r ELSE RecordAt(D, p, blank)
<1>1. /\ D.records \in Seq(T) /\ Len(D.records) <= MaxParam /\ D.count \in 0..MaxParam
  BY DEF Sound
<1> DEFINE s == [D.records EXCEPT ![num] = r]
<1>2. s \in Seq(T) /\ Len(s) = Len(D.records)
  BY <1>1, ExceptSeq
<1>3. \A i \in 1..Len(D.records) : s[i] = IF i = num THEN r ELSE D.records[i]
  BY <1>1, LenProperties
<1>4. E = [D EXCEPT !.records = s]
  BY DEF SetRecord
<1> HIDE DEF s
<1>5. E.count = D.count /\ E.records = s /\ E \in [count: 0..MaxParam, records: Seq(T)]
  BY <1>1, <1>2, <1>4 DEF Sound
<1>6. \A p \in Param : RecordAt(E, p, blank) = IF p = num THEN r ELSE RecordAt(D, p, blank)
  <2>1. TAKE p \in Param
  <2>2. p \in 1..MaxParam /\ Len(D.records) \in Nat /\ MaxParam \in Nat
    BY <1>1, LenProperties DEF Param, ParameterBindingAssumption
  <2> QED BY <2>2, <1>2, <1>3, <1>5, <1>1 DEF RecordAt
<1> QED BY <1>1, <1>2, <1>5, <1>6 DEF Sound

\* A new count takes the records past it out of effect; those it exposes were
\* past the old one.
LEMMA SetCountCuts ==
    ASSUME ParameterBindingAssumption, NEW T, NEW blank \in T, NEW D, Sound(D, T),
           NEW n \in 0..MaxParam, NEW E, E = SetCount(D, n)
    PROVE  /\ Sound(E, T) /\ E.count = n /\ Len(E.records) = Len(D.records)
           /\ \A p \in Param : p <= n /\ p <= D.count =>
                                  RecordAt(E, p, blank) = RecordAt(D, p, blank)
<1>1. E.count = n /\ E.records = D.records /\ E \in [count: 0..MaxParam, records: Seq(T)]
  BY DEF SetCount, Sound
<1> QED BY <1>1 DEF RecordAt, Sound

Made(D, num, blank, r) == SetRecord(GetRecord(D, num, blank), num, r)

\* Making a record, to write it.
LEMMA MakeAndSet ==
    ASSUME ParameterBindingAssumption, NEW T, NEW blank \in T, NEW D, Sound(D, T),
           NEW num \in Param, NEW r \in T,
           NEW E, E = Made(D, num, blank, r)
    PROVE  /\ Sound(E, T) /\ E.count = Larger(D.count, num) /\ E.count <= Len(E.records)
           /\ \A p \in Param : RecordAt(E, p, blank) =
                                  IF p = num THEN r ELSE RecordAt(D, p, blank)
<1> DEFINE F == GetRecord(D, num, blank)
<1>1. num \in 0..MaxParam /\ num # 0
  BY DEF Param, ParameterBindingAssumption
<1>2. E = SetRecord(F, num, r)
  BY DEF Made
<1> HIDE DEF F
<1>3. /\ Sound(F, T) /\ F.count = Larger(D.count, num) /\ F.count <= Len(F.records)
      /\ num \in 1..Len(F.records) /\ num <= F.count
      /\ \A p \in Param : RecordAt(F, p, blank) = RecordAt(D, p, blank)
  BY <1>1, GetRecordKeeps DEF F
<1>4. /\ Sound(E, T) /\ E.count = F.count /\ Len(E.records) = Len(F.records)
      /\ \A p \in Param : RecordAt(E, p, blank) =
                             IF p = num THEN r ELSE RecordAt(F, p, blank)
  BY <1>2, <1>3, SetRecordSets
<1> QED BY <1>3, <1>4
-----------------------------------------------------------------------------
(* Sequences laid end to end.                                              *)

\* A set of numbers that is not empty has a least one.
LEMMA Least ==
    ASSUME NEW S \in SUBSET Nat, S # {}
    PROVE  \E n \in S : \A m \in S : n <= m
<1>1. PICK n \in S : \A m \in S : ~(<<m, n>> \in OpToRel(<, Nat))
  BY WFMin, NatLessThanWellFounded, Zenon
<1>2. ASSUME NEW m \in S PROVE n <= m
  <2>1. m < n => <<m, n>> \in OpToRel(<, Nat)
    <3>1. <<m, n>> \in Nat \X Nat /\ <<m, n>>[1] = m /\ <<m, n>>[2] = n
      OBVIOUS
    <3> QED BY <3>1, Zenon DEF OpToRel
  <2>2. ~(m < n)
    BY <1>1, <2>1, Zenon
  <2> QED BY <2>2
<1> QED BY <1>2

Laid(g, s, n) == g = [i \in 1..n |-> IF i = 1 THEN s[i] ELSE g[i-1] \o s[i]]

\* The function FlattenSeq is defined by is there.
LEMMA LaidOut ==
    ASSUME NEW s, NEW n \in Nat
    PROVE  \E g : Laid(g, s, n)
<1> DEFINE Bad == {k \in Nat : ~\E g : Laid(g, s, k)}
<1>1. Bad = {}
  <2> SUFFICES ASSUME Bad # {} PROVE FALSE
    OBVIOUS
  <2>0. Bad \in SUBSET Nat
    OBVIOUS
  <2>1. PICK k \in Bad : \A m \in Bad : k <= m
    <3> HIDE DEF Bad
    <3> QED BY <2>0, Least
  <2>2. k \in Nat /\ ~\E g : Laid(g, s, k)
    OBVIOUS
  <2>3. k # 0
    <3>1. Laid([i \in 1..0 |-> 0], s, 0)
      <4>1. 1..0 = {}
        OBVIOUS
      <4> QED BY <4>1 DEF Laid
    <3> QED BY <2>2, <3>1
  <2>4. k - 1 \in Nat /\ ~(k <= k - 1)
    BY <2>2, <2>3
  <2>5. PICK g : Laid(g, s, k - 1)
    <3>1. ~(k - 1 \in Bad)
      BY <2>1, <2>4
    <3> QED BY <2>4, <3>1
  <2> DEFINE h == [i \in 1..k |-> IF i = 1 THEN s[i]
                                  ELSE IF i = k THEN g[k-1] \o s[i] ELSE g[i]]
             e(i) == IF i = 1 THEN s[i] ELSE h[i-1] \o s[i]
  <2>6. ASSUME NEW i \in 1..k PROVE h[i] = e(i)
    <3>1. CASE i = 1
      BY <3>1
    <3>2. CASE i # 1 /\ i = k
      <4>1. i - 1 \in 1..k /\ i - 1 # k /\ i - 1 = k - 1
        BY <2>2, <3>2
      <4>2. h[i-1] = g[i-1]
        <5>1. CASE i - 1 = 1
          <6>1. g[1] = s[1]
            <7>1. 1 \in 1..(k - 1)
              BY <5>1, <3>2, <2>2
            <7> QED BY <7>1, <2>5 DEF Laid
          <6> QED BY <5>1, <4>1, <6>1
        <5>2. CASE i - 1 # 1
          BY <5>2, <4>1
        <5> QED BY <5>1, <5>2
      <4> QED BY <3>2, <4>1, <4>2
    <3>3. CASE i # 1 /\ i # k
      <4>1. i - 1 \in 1..k /\ i - 1 # k /\ i \in 1..(k - 1) /\ i - 1 \in 1..(k - 1)
        BY <2>2, <3>3
      <4>2. h[i-1] = g[i-1]
        <5>1. CASE i - 1 = 1
          <6>1. g[1] = s[1]
            <7>1. 1 \in 1..(k - 1)
              BY <5>1, <4>1
            <7> QED BY <7>1, <2>5 DEF Laid
          <6> QED BY <5>1, <4>1, <6>1
        <5>2. CASE i - 1 # 1
          BY <5>2, <4>1
        <5> QED BY <5>1, <5>2
      <4>3. g[i] = g[i-1] \o s[i]
        <5>1. g = [j \in 1..(k-1) |-> IF j = 1 THEN s[j] ELSE g[j-1] \o s[j]]
          BY <2>5 DEF Laid
        <5> QED BY <3>3, <4>1, <5>1
      <4> QED BY <3>3, <4>1, <4>2, <4>3
    <3> QED BY <3>1, <3>2, <3>3
  <2>7. h = [i \in 1..k |-> e(i)]
    <3>1. h = [i \in 1..k |-> h[i]]
      OBVIOUS
    <3> HIDE DEF h
    <3> QED BY <2>6, <3>1
  <2>8. Laid(h, s, k)
    <3> HIDE DEF h
    <3> QED BY <2>7 DEF Laid
  <2> QED BY <2>2, <2>8
<1> QED BY <1>1

\* What FlattenSeq is defined as.
LEMMA FlattenUnfolds ==
    ASSUME NEW s, Len(s) \in Nat \ {0}
    PROVE  \E g : Laid(g, s, Len(s)) /\ FlattenSeq(s) = g[Len(s)]
<1> DEFINE g == CHOOSE g : Laid(g, s, Len(s))
<1>1. Laid(g, s, Len(s))
  BY LaidOut
<1>2. FlattenSeq(s) = g[Len(s)]
  BY DEF FlattenSeq, Laid
<1> QED BY <1>1, <1>2

\* Where the first sequences laid end to end are the elements of t, one each,
\* the whole begins with t, and is t if there are no more.
LEMMA FlattenBegins ==
    ASSUME NEW S, NEW s \in Seq(Seq(S)), NEW t \in Seq(S), Len(t) <= Len(s),
           \A i \in 1..Len(t) : s[i] = <<t[i]>>
    PROVE  /\ IsPrefix(t, FlattenSeq(s))
           /\ Len(t) = Len(s) => FlattenSeq(s) = t
<1>0. Len(s) \in Nat /\ Len(t) \in Nat
  BY LenProperties
<1>1. CASE Len(s) = 0
  <2>1. Len(t) = 0
    BY <1>0, <1>1
  <2>2. FlattenSeq(s) = s /\ s = <<>> /\ t = <<>>
    BY <1>1, <2>1, EmptySeq DEF FlattenSeq
  <2>3. IsPrefix(<<>>, <<>>)
    BY DEF IsPrefix
  <2> QED BY <2>2, <2>3, Zenon
<1>2. CASE Len(s) # 0
  <2>1. PICK g : Laid(g, s, Len(s)) /\ FlattenSeq(s) = g[Len(s)]
    BY <1>0, <1>2, FlattenUnfolds
  <2>2. \A i \in 1..Len(s) : g[i] = IF i = 1 THEN s[i] ELSE g[i-1] \o s[i]
    BY <2>1 DEF Laid
  <2> DEFINE Fits(k) == /\ g[k] \in Seq(S)
                        /\ k <= Len(t) => Len(g[k]) = k
                        /\ k > Len(t) => Len(g[k]) >= Len(t)
                        /\ \A i \in 1..Len(t) : i <= k => g[k][i] = t[i]
             Bad == {k \in 1..Len(s) : ~Fits(k)}
  <2>3. Bad = {}
    <3> SUFFICES ASSUME Bad # {} PROVE FALSE
      OBVIOUS
    <3>1. PICK k \in Bad : \A m \in Bad : k <= m
      <4>1. Bad \in SUBSET Nat
        BY <1>0
      <4> HIDE DEF Bad
      <4> QED BY <4>1, Least
    <3>2. k \in 1..Len(s) /\ ~Fits(k)
      BY <3>1
    <3>3. s[k] \in Seq(S) /\ (k <= Len(t) => t[k] \in S /\ s[k] = <<t[k]>>)
      BY <1>0, <3>2, ElementOfSeq
    <3>4. CASE k = 1
      <4>1. g[k] = s[k]
        BY <2>2, <3>2, <3>4
      <4> DEFINE w == s[k]
      <4>2. w \in Seq(S) /\ Len(w) \in Nat
        BY <3>3, LenProperties
      <4>3. k <= Len(t) => w = <<t[1]>>
        BY <3>3, <3>4
      <4> HIDE DEF w
      <4>4. k <= Len(t) => Len(w) = 1 /\ w[1] = t[1]
        BY <4>3
      <4>5. k > Len(t) => Len(w) >= Len(t)
        BY <1>0, <3>4, <4>2
      <4>6. ASSUME NEW i \in 1..Len(t), i <= k PROVE w[i] = t[i]
        <5>1. i = 1 /\ k <= Len(t)
          BY <1>0, <3>4, <4>6
        <5> QED BY <4>4, <5>1
      <4>7. g[k] = w
        BY <4>1 DEF w
      <4>8. Fits(k)
        BY <3>4, <4>2, <4>4, <4>5, <4>6, <4>7
      <4> QED BY <3>2, <4>8
    <3>5. CASE k # 1
      <4>1. k - 1 \in 1..Len(s) /\ ~(k <= k - 1) /\ k \in Nat
        BY <1>0, <3>2, <3>5
      <4>2. Fits(k - 1)
        <5>1. k - 1 \notin Bad
          BY <3>1, <4>1
        <5> QED BY <4>1, <5>1
      <4>3. g[k] = g[k-1] \o s[k]
        BY <2>2, <3>2, <3>5
      <4> DEFINE u == g[k-1]
                 v == s[k]
      <4>4. u \in Seq(S) /\ v \in Seq(S)
        BY <4>2, <3>3
      <4>5. Len(u) \in Nat /\ Len(v) \in Nat
        BY <4>4, LenProperties
      <4>6. /\ g[k] \in Seq(S) /\ Len(g[k]) = Len(u) + Len(v)
            /\ \A i \in 1..(Len(u) + Len(v)) :
                  g[k][i] = IF i <= Len(u) THEN u[i] ELSE v[i - Len(u)]
        <5>1. g[k] = u \o v
          BY <4>3
        <5> HIDE DEF u, v
        <5> QED BY <4>4, <5>1, ConcatProperties
      <4>7. /\ k - 1 <= Len(t) => Len(u) = k - 1
            /\ k - 1 > Len(t) => Len(u) >= Len(t)
            /\ \A i \in 1..Len(t) : i <= k - 1 => u[i] = t[i]
        BY <4>2
      <4>13. k <= Len(t) => v = <<t[k]>>
        BY <3>3
      <4> HIDE DEF u, v
      <4>8. k <= Len(t) => Len(v) = 1 /\ v[1] = t[k]
        BY <4>13
      <4>9. k <= Len(t) => Len(g[k]) = k
        <5>1. SUFFICES ASSUME k <= Len(t) PROVE Len(g[k]) = k
          OBVIOUS
        <5>2. Len(u) = k - 1 /\ Len(v) = 1
          BY <1>0, <4>1, <4>7, <4>8, <5>1
        <5> QED BY <4>1, <4>6, <5>2
      <4>10. k > Len(t) => Len(g[k]) >= Len(t)
        BY <1>0, <4>1, <4>5, <4>6, <4>7
      <4>11. ASSUME NEW i \in 1..Len(t), i <= k PROVE g[k][i] = t[i]
        <5>1. CASE i <= k - 1
          <6>1. i <= Len(u)
            BY <5>1, <1>0, <4>1, <4>5, <4>7, <4>11
          <6>2. i \in 1..(Len(u) + Len(v))
            BY <6>1, <4>5, <4>11
          <6> QED BY <5>1, <6>1, <6>2, <4>6, <4>7, <4>11
        <5>2. CASE i = k
          <6>1. Len(u) = k - 1 /\ Len(v) = 1 /\ v[1] = t[i]
            BY <5>2, <1>0, <4>1, <4>7, <4>8, <4>11
          <6>2. i \in 1..(Len(u) + Len(v)) /\ ~(i <= Len(u)) /\ i - Len(u) = 1
            BY <5>2, <4>1, <4>5, <4>11, <6>1
          <6> QED BY <6>1, <6>2, <4>6
        <5> QED BY <5>1, <5>2, <4>1, <4>11, <1>0
      <4>12. Fits(k)
        BY <4>6, <4>9, <4>10, <4>11
      <4> QED BY <3>2, <4>12
    <3> QED BY <3>4, <3>5
  <2>4. Fits(Len(s))
    <3>1. Len(s) \in 1..Len(s) /\ Len(s) \notin Bad
      BY <1>0, <1>2, <2>3
    <3> QED BY <3>1
  <2> DEFINE f == FlattenSeq(s)
  <2>5. f = g[Len(s)]
    BY <2>1
  <2>6. /\ f \in Seq(S) /\ Len(f) >= Len(t) /\ (Len(s) = Len(t) => Len(f) = Len(t))
        /\ \A i \in 1..Len(t) : f[i] = t[i]
    <3> HIDE DEF f
    <3> QED BY <1>0, <2>4, <2>5
  <2> HIDE DEF f
  <2>7. Len(s) = Len(t) => f = t
    BY <2>6, SeqEqual
  <2>8. SubSeq(f, 1, Len(t)) = SubSeq(t, 1, Len(t))
    BY <1>0, <2>6
  <2>9. IsPrefix(t, f)
    BY <1>0, <2>6, <2>8 DEF IsPrefix
  <2> QED BY <2>7, <2>9 DEF f
<1> QED BY <1>1, <1>2
-----------------------------------------------------------------------------
(* The calls.                                                              *)

\* Constants that are what they must be.
LEMMA Blanks ==
    ASSUME ParameterBindingAssumption
    PROVE  Null \in Pointer /\ Unknown \in Types /\ NotBound \in [at: Pointer, type: Types]
BY DEF Pointer, Types, NotBound

\* The first state.
LEMMA InitEstablishes ==
    ASSUME ParameterBindingAssumption, Init
    PROVE  Inv
<1>1. Sound(NewDescriptor, Pointer) /\ Sound(NewDescriptor, Types)
  BY EmptySeq DEF NewDescriptor, Sound, ParameterBindingAssumption
<1>2. \A p \in Param : Holds(NewDescriptor, NewDescriptor, asked, loose, p)
  BY DEF Init, Holds
<1>3. asked \in [Param -> [at: Pointer, type: Types]]
  BY Blanks DEF Init
<1>4. NewDescriptor.count <= Len(NewDescriptor.records)
  BY DEF NewDescriptor
<1>5. Ok(apd, ipd, asked, loose)
  BY <1>1, <1>2, <1>3, <1>4 DEF Ok, Init
<1>6. nparams \in 0..MaxParam
  BY DEF Init, ParameterBindingAssumption
<1>7. isPrepared \in BOOLEAN /\ MarkersDescribed
  BY Zenon DEF Init, MarkersDescribed
<1> QED BY <1>5, <1>6, <1>7 DEF Inv

\* The IPD cut to what is bound, and then made to describe n markers, is as
\* good as it was.
LEMMA TrimmedKeeps ==
    ASSUME ParameterBindingAssumption, Inv, NEW n \in 0..MaxParam,
           NEW I, I \in {Trimmed, Described(n)}
    PROVE  Ok(apd, I, asked, loose) /\ (I = Described(n) => n <= I.count)
<1> DEFINE m == Smaller(ipd.count, apd.count)
<1>0. /\ MaxParam \in Nat /\ Sound(apd, Pointer) /\ Sound(ipd, Types) /\ Unknown \in Types
      /\ ipd.count \in 0..MaxParam /\ apd.count \in 0..MaxParam
      /\ ipd.count <= Len(ipd.records) /\ Len(ipd.records) \in Nat
  BY Blanks, LenProperties DEF Inv, Ok, Sound, ParameterBindingAssumption
<1>1. m \in 0..MaxParam /\ m <= ipd.count /\ m <= apd.count
      /\ \A p \in Param : p <= ipd.count /\ p <= apd.count => p <= m
  BY <1>0 DEF Smaller
<1>2. Trimmed = SetCount(ipd, m)
  BY DEF Trimmed
<1> HIDE DEF m
<1> DEFINE D == Trimmed
<1>3. /\ Sound(D, Types) /\ D.count = m /\ D.count <= Len(D.records)
      /\ \A p \in Param : p <= m => RecordAt(D, p, Unknown) = RecordAt(ipd, p, Unknown)
  <2>1. D = SetCount(ipd, m)
    BY <1>2
  <2> HIDE DEF D
  <2> DEFINE P == ipd
  <2>0. Sound(P, Types) /\ P = ipd /\ D = SetCount(P, m)
    BY <1>0, <2>1
  <2> HIDE DEF P
  <2>4. /\ Sound(D, Types) /\ D.count = m /\ Len(D.records) = Len(P.records)
         /\ \A p \in Param : p <= m /\ p <= P.count =>
                               RecordAt(D, p, Unknown) = RecordAt(P, p, Unknown)
    BY <1>0, <1>1, <2>0, SetCountCuts
  <2>2. /\ Sound(D, Types) /\ D.count = m /\ Len(D.records) = Len(ipd.records)
        /\ \A p \in Param : p <= m /\ p <= ipd.count =>
                               RecordAt(D, p, Unknown) = RecordAt(ipd, p, Unknown)
    BY <2>0, <2>4
  <2>3. \A p \in Param : p <= m => p <= ipd.count
    BY <1>0, <1>1 DEF Param
  <2> QED BY <1>0, <1>1, <2>2, <2>3
<1>4. Described(n) = IF D.count < n THEN GetRecord(D, n, Unknown) ELSE D
  BY DEF Described
<1> HIDE DEF D
<1>5. /\ Sound(I, Types) /\ I.count >= m /\ I.count <= Len(I.records)
      /\ \A p \in Param : p <= m => RecordAt(I, p, Unknown) = RecordAt(ipd, p, Unknown)
      /\ I = Described(n) => n <= I.count
  <2>1. CASE I = Described(n) /\ D.count < n
    <3>1. /\ Sound(I, Types) /\ I.count = Larger(D.count, n) /\ I.count <= Len(I.records)
          /\ \A p \in Param : RecordAt(I, p, Unknown) = RecordAt(D, p, Unknown)
      BY <1>0, <1>3, <1>4, <2>1, GetRecordKeeps
    <3>2. I.count >= m /\ n <= I.count
      BY <1>1, <1>3, <3>1 DEF Larger
    <3> QED BY <1>3, <3>1, <3>2
  <2>2. CASE I = Described(n) /\ ~(D.count < n)
    BY <1>1, <1>3, <1>4, <2>2
  <2>3. CASE I = D /\ I # Described(n)
    BY <1>1, <1>3, <2>3
  <2> QED BY <2>1, <2>2, <2>3 DEF D
<1>6. ASSUME NEW p \in Param PROVE Holds(apd, I, asked, loose, p)
  <2>1. Holds(apd, ipd, asked, loose, p) /\ p \in Nat /\ I.count \in Nat
    BY <1>0, <1>5 DEF Inv, Ok, Param, Sound
  <2>2. ASSUME p \notin loose, asked[p] # NotBound
        PROVE  p <= I.count /\ RecordAt(I, p, Unknown) = asked[p].type
    <3>1. p <= apd.count /\ p <= ipd.count
      BY <1>0, <2>1, <2>2 DEF Holds
    <3>2. p <= m
      BY <1>1, <3>1
    <3> QED BY <1>1, <1>5, <2>1, <2>2, <3>2 DEF Holds
  <2> QED BY <2>1, <2>2 DEF Holds
<1> QED BY <1>5, <1>6 DEF Inv, Ok

\* A prepare, that succeeds or fails.
LEMMA PrepareKeeps ==
    ASSUME ParameterBindingAssumption, Inv, NEW n \in 0..MaxParam,
           Prepare(n) \/ PrepareFails(n)
    PROVE  Inv'
<1>1. CASE Prepare(n)
  <2>1. Ok(apd, Described(n), asked, loose) /\ n <= Described(n).count
    BY TrimmedKeeps
  <2> QED BY <1>1, <2>1 DEF Prepare, Inv, MarkersDescribed
<1>2. CASE PrepareFails(n)
  <2>1. Ok(apd, Trimmed, asked, loose)
    BY TrimmedKeeps
  <2> QED BY <1>2, <2>1 DEF PrepareFails, Inv, MarkersDescribed
<1> QED BY <1>1, <1>2

\* A set of numbers up to n has a highest one.
LEMMA Highest ==
    ASSUME NEW n \in Nat, NEW S \in SUBSET (0..n), S # {}
    PROVE  \E i \in S : \A j \in S : j <= i
<1> DEFINE T == {n - i : i \in S}
<1>1. T \in SUBSET Nat /\ T # {}
  <2>1. \A i \in S : n - i \in Nat
    OBVIOUS
  <2>2. PICK i \in S : TRUE
    OBVIOUS
  <2>3. n - i \in T
    OBVIOUS
  <2> QED BY <2>1, <2>3
<1>2. PICK x \in T : \A y \in T : x <= y
  <2> HIDE DEF T
  <2> QED BY <1>1, Least
<1>3. PICK i \in S : x = n - i
  OBVIOUS
<1>4. ASSUME NEW j \in S PROVE j <= i
  <2>1. n - j \in T
    OBVIOUS
  <2>2. n - i <= n - j
    BY <1>2, <1>3, <2>1
  <2>3. i \in 0..n /\ j \in 0..n
    OBVIOUS
  <2> QED BY <2>2, <2>3
<1> QED BY <1>4

\* The highest parameter left is none past the count.
LEMMA HighestLeftIsLower ==
    ASSUME ParameterBindingAssumption, NEW p \in Param, apd.count \in Nat
    PROVE  HighestLeft(p) \in 0..apd.count
<1> DEFINE n == apd.count
           m == Smaller(n + 1, p)
           E == Complete(apd)
           below == {i \in 1..(m - 1) : i <= E.count /\ IsBound(E.records[i])}
<1>1. m - 1 \in Nat /\ m - 1 <= n
  BY DEF Smaller, Param, ParameterBindingAssumption
<1>2. HighestLeft(p) =
        IF below = {} THEN 0 ELSE CHOOSE i \in below : \A j \in below : j <= i
  BY DEF HighestLeft, HighestBelow
<1>3. below \subseteq 1..(m - 1)
  OBVIOUS
<1> HIDE DEF below, E, m
<1>4. CASE below = {}
  BY <1>2, <1>4
<1>5. CASE below # {}
  <2>1. \E i \in below : \A j \in below : j <= i
    <3>1. below \in SUBSET (0..(m - 1))
      BY <1>1, <1>3
    <3> QED BY <1>1, <1>5, <3>1, Highest
  <2>2. HighestLeft(p) \in below
    BY <1>2, <1>5, <2>1
  <2>3. HighestLeft(p) \in 1..(m - 1)
    BY <1>3, <2>2
  <2> DEFINE h == HighestLeft(p)
             z == m - 1
  <2>4. h \in 1..z /\ z \in Nat /\ z <= n
    BY <1>1, <2>3
  <2> HIDE DEF h, z
  <2>5. h \in 0..n
    BY <2>4
  <2> QED BY <2>5 DEF h
<1> QED BY <1>4, <1>5

\* A new count of the APD: what it leaves behind is neither bound nor loose,
\* and what it exposes is loose.
LEMMA RecountKeeps ==
    ASSUME ParameterBindingAssumption, Inv, NEW n \in 0..MaxParam,
           NEW A, Sound(A, Pointer), A.count = apd.count,
           \A p \in Param : RecordAt(A, p, Null) = RecordAt(apd, p, Null),
           NEW D, D = SetCount(A, n),
           NEW Q, Q = [p \in Param |-> IF p > n THEN NotBound ELSE asked[p]],
           NEW L, L \subseteq Param,
           \A p \in Param : IF p > n THEN p \notin L
                            ELSE p \in L <=> p \in loose \/ p > apd.count
    PROVE  Ok(D, ipd, Q, L)
<1>1. /\ Sound(D, Pointer) /\ D.count = n
      /\ \A p \in Param : p <= n /\ p <= A.count => RecordAt(D, p, Null) = RecordAt(A, p, Null)
  BY Blanks, SetCountCuts
<1>2. Q \in [Param -> [at: Pointer, type: Types]]
  BY Blanks DEF Inv, Ok
<1>3. ASSUME NEW p \in Param PROVE Holds(D, ipd, Q, L, p)
  <2>1. Holds(apd, ipd, asked, loose, p)
    BY DEF Inv, Ok
  <2>2. p \in Nat /\ n \in Nat /\ apd.count \in Nat
    BY DEF Inv, Ok, Param, Sound, ParameterBindingAssumption
  <2>3. CASE p > n
    <3>1. Q[p] = NotBound /\ p \notin L
      BY <2>3
    <3> QED BY <3>1 DEF Holds
  <2>4. CASE ~(p > n)
    <3>1. Q[p] = asked[p] /\ (p \in L <=> p \in loose \/ p > apd.count)
      BY <2>4
    <3>2. ~(p > D.count)
      BY <1>1, <2>4
    <3>3. p \notin L => RecordAt(D, p, Null) = RecordAt(apd, p, Null) /\ p \notin loose
      BY <1>1, <2>2, <2>4, <3>1
    <3> QED BY <2>1, <3>1, <3>2, <3>3 DEF Holds
  <2> QED BY <2>3, <2>4
<1> QED BY <1>1, <1>2, <1>3 DEF Inv, Ok

\* Unbinding the highest parameter, or one past it.
LEMMA UnbindKeeps ==
    ASSUME ParameterBindingAssumption, Inv, NEW p \in Param, Unbind(p)
    PROVE  Inv'
<1> DEFINE h == HighestLeft(p)
           A == IF p > 1 THEN Complete(apd) ELSE apd
           L == loose \cap 1..h
<1>1. Sound(apd, Pointer) /\ apd.count \in 0..MaxParam /\ MaxParam \in Nat
      /\ loose \subseteq Param
  BY DEF Inv, Ok, Sound, ParameterBindingAssumption
<1>2. h \in 0..apd.count
  BY <1>1, HighestLeftIsLower
<1> HIDE DEF h
<1>3. h \in 0..MaxParam
  BY <1>1, <1>2
<1>4. /\ Sound(A, Pointer) /\ A.count = apd.count
      /\ \A k \in Param : RecordAt(A, k, Null) = RecordAt(apd, k, Null)
  <2> DEFINE C == GetRecord(apd, apd.count, Null)
             n == apd.count
  <2>1. A = apd \/ A = C
    BY DEF Complete
  <2> HIDE DEF A
  <2>2. Null \in Pointer /\ C = GetRecord(apd, n, Null) /\ n \in 0..MaxParam
    BY <1>1, Blanks
  <2> HIDE DEF C, n
  <2>3. /\ Sound(C, Pointer) /\ C.count = Larger(apd.count, n)
        /\ \A k \in Param : RecordAt(C, k, Null) = RecordAt(apd, k, Null)
    BY <1>1, <2>2, GetRecordKeeps
  <2>4. C.count = apd.count
    BY <2>3 DEF Larger, n
  <2> QED BY <1>1, <2>1, <2>3, <2>4
<1> DEFINE D == SetCount(A, h)
           Q == [k \in Param |-> IF k > h THEN NotBound ELSE asked[k]]
<1>5. apd' = D /\ asked' = Q /\ loose' = L /\ ipd' = ipd /\ nparams' = nparams
      /\ isPrepared' = isPrepared
  BY DEF Unbind, h
<1>6. L \subseteq Param
  BY <1>1
<1>7. \A k \in Param : IF k > h THEN k \notin L
                       ELSE k \in L <=> k \in loose \/ k > apd.count
  BY <1>1, <1>2 DEF Param
<1>8. Ok(D, ipd, Q, L)
  <2> HIDE DEF A, L
  <2>1. D = SetCount(A, h)
        /\ Q = [k \in Param |-> IF k > h THEN NotBound ELSE asked[k]]
    OBVIOUS
  <2> HIDE DEF D, Q
  <2> QED BY <1>3, <1>4, <1>6, <1>7, <2>1, RecountKeeps
<1> HIDE DEF D, Q, L
<1> QED BY <1>5, <1>8 DEF Inv, MarkersDescribed

\* SQL_RESET_PARAMS.
LEMMA ResetKeeps ==
    ASSUME ParameterBindingAssumption, Inv, ResetParamBindings
    PROVE  Inv'
<1> DEFINE D == SetCount(apd, 0)
           Q == [k \in Param |-> IF k > 0 THEN NotBound ELSE asked[k]]
           L == {}
<1>1. Sound(apd, Pointer) /\ 0 \in 0..MaxParam
  BY DEF Inv, Ok, ParameterBindingAssumption
<1>2. apd' = D /\ asked' = [k \in Param |-> NotBound] /\ loose' = L
      /\ ipd' = ipd /\ nparams' = nparams /\ isPrepared' = isPrepared
  BY DEF ResetParamBindings
<1>3. [k \in Param |-> NotBound] = Q
  BY DEF Param
<1>4. Ok(D, ipd, Q, L)
  <2>1. /\ D = SetCount(apd, 0) /\ L \subseteq Param
        /\ Q = [k \in Param |-> IF k > 0 THEN NotBound ELSE asked[k]]
        /\ \A k \in Param : IF k > 0 THEN k \notin L
                            ELSE k \in L <=> k \in loose \/ k > apd.count
    BY DEF Param
  <2> HIDE DEF D, Q, L
  <2> QED BY <1>1, <2>1, RecountKeeps
<1> HIDE DEF D, Q, L
<1> QED BY <1>2, <1>3, <1>4 DEF Inv, MarkersDescribed

\* A count the application sets.
LEMMA SetApdCountKeeps ==
    ASSUME ParameterBindingAssumption, Inv, NEW n \in Param, SetApdCount(n)
    PROVE  Inv'
<1> DEFINE D == SetCount(apd, n)
           Q == [k \in Param |-> IF k > n THEN NotBound ELSE asked[k]]
           L == (loose \cap 1..n) \cup (apd.count + 1)..n
<1>1. /\ Sound(apd, Pointer) /\ apd.count \in 0..MaxParam /\ MaxParam \in Nat
      /\ loose \subseteq Param /\ n \in 0..MaxParam /\ n \in Nat
  BY DEF Inv, Ok, Sound, Param, ParameterBindingAssumption
<1>2. apd' = D /\ asked' = Q /\ loose' = L
      /\ ipd' = ipd /\ nparams' = nparams /\ isPrepared' = isPrepared
  BY DEF SetApdCount
<1>3. \A k \in Param : IF k > n THEN k \notin L
                       ELSE k \in L <=> k \in loose \/ k > apd.count
  BY <1>1 DEF Param
<1>4. L \subseteq Param
  BY <1>1 DEF Param
<1>5. Ok(D, ipd, Q, L)
  <2>1. D = SetCount(apd, n)
        /\ Q = [k \in Param |-> IF k > n THEN NotBound ELSE asked[k]]
    OBVIOUS
  <2> HIDE DEF D, Q, L
  <2> QED BY <1>1, <1>3, <1>4, <2>1, RecountKeeps
<1> HIDE DEF D, Q, L
<1> QED BY <1>2, <1>5 DEF Inv, MarkersDescribed

\* The same for the APD.
LEMMA ApdMade ==
    ASSUME ParameterBindingAssumption, Inv, NEW p \in Param, NEW r \in Pointer
    PROVE  LET E == Made(apd, p, Null, r) IN
           /\ Sound(E, Pointer) /\ E.count = Larger(apd.count, p) /\ E.count <= Len(E.records)
           /\ \A k \in Param : RecordAt(E, k, Null) =
                                  IF k = p THEN r ELSE RecordAt(apd, k, Null)
<1> DEFINE D == apd
           E == Made(apd, p, Null, r)
<1>1. Null \in Pointer /\ Sound(D, Pointer) /\ E = Made(D, p, Null, r)
  BY Blanks DEF Inv, Ok
<1> HIDE DEF D, E
<1>2. /\ Sound(E, Pointer) /\ E.count = Larger(D.count, p) /\ E.count <= Len(E.records)
      /\ \A k \in Param : RecordAt(E, k, Null) = IF k = p THEN r ELSE RecordAt(D, k, Null)
  BY <1>1, MakeAndSet
<1> QED BY <1>2 DEF D, E

\* The same for the IPD.
LEMMA IpdMade ==
    ASSUME ParameterBindingAssumption, Inv, NEW p \in Param, NEW r \in Types
    PROVE  LET E == Made(ipd, p, Unknown, r) IN
           /\ Sound(E, Types) /\ E.count = Larger(ipd.count, p) /\ E.count <= Len(E.records)
           /\ \A k \in Param : RecordAt(E, k, Unknown) =
                                  IF k = p THEN r ELSE RecordAt(ipd, k, Unknown)
<1> DEFINE D == ipd
           E == Made(ipd, p, Unknown, r)
<1>1. Unknown \in Types /\ Sound(D, Types) /\ E = Made(D, p, Unknown, r)
  BY Blanks DEF Inv, Ok
<1> HIDE DEF D, E
<1>2. /\ Sound(E, Types) /\ E.count = Larger(D.count, p) /\ E.count <= Len(E.records)
      /\ \A k \in Param : RecordAt(E, k, Unknown) = IF k = p THEN r ELSE RecordAt(D, k, Unknown)
  BY <1>1, MakeAndSet
<1> QED BY <1>2 DEF D, E

\* SQLBindParameter that succeeds.
LEMMA BindKeeps ==
    ASSUME ParameterBindingAssumption, Inv, NEW p \in Param, NEW type \in SqlType,
           NEW at \in Pointer, Bind(p, type, at)
    PROVE  Inv'
<1> DEFINE A == SetRecord(GetRecord(apd, p, Null), p, at)
           I == IpdBound(p, type)
           Q == [asked EXCEPT ![p] = [at |-> at, type |-> type]]
           L == loose \ {p}
<1>1. /\ Sound(apd, Pointer) /\ Sound(ipd, Types) /\ loose \subseteq Param
      /\ asked \in [Param -> [at: Pointer, type: Types]] /\ type \in Types
      /\ apd.count \in Nat /\ ipd.count \in Nat
      /\ Null \in Pointer /\ Unknown \in Types
  BY Blanks DEF Inv, Ok, Types, Sound
<1>2. apd' = A /\ ipd' = I /\ asked' = Q /\ loose' = L /\ nparams' = nparams
      /\ isPrepared' = isPrepared
  BY DEF Bind
<1>3. A = Made(apd, p, Null, at) /\ I = Made(ipd, p, Unknown, type)
  BY DEF IpdBound, Made
<1>4. /\ Q \in [Param -> [at: Pointer, type: Types]] /\ L \subseteq Param
      /\ \A k \in Param : Q[k] = IF k = p THEN [at |-> at, type |-> type] ELSE asked[k]
      /\ \A k \in Param : k \in L <=> k \in loose /\ k # p
  BY <1>1
<1> HIDE DEF A, I, Q, L
<1>5. /\ Sound(A, Pointer) /\ A.count = Larger(apd.count, p)
      /\ \A k \in Param : RecordAt(A, k, Null) = IF k = p THEN at ELSE RecordAt(apd, k, Null)
  BY <1>3, ApdMade
<1>6. /\ Sound(I, Types) /\ I.count = Larger(ipd.count, p) /\ I.count <= Len(I.records)
      /\ \A k \in Param :
            RecordAt(I, k, Unknown) = IF k = p THEN type ELSE RecordAt(ipd, k, Unknown)
  BY <1>1, <1>3, IpdMade
<1>7. /\ p <= A.count /\ apd.count <= A.count /\ A.count \in Nat
      /\ p <= I.count /\ ipd.count <= I.count /\ I.count \in Nat
  BY <1>1, <1>5, <1>6 DEF Larger, Param, ParameterBindingAssumption
<1>8. ASSUME NEW k \in Param PROVE Holds(A, I, Q, L, k)
  <2>1. CASE k = p
    <3>1. ~(k > A.count) /\ k <= I.count
      BY <1>7, <2>1 DEF Param
    <3>2. Q[k].at = at /\ Q[k].type = type
      BY <1>4, <2>1
    <3> QED BY <1>5, <1>6, <2>1, <3>1, <3>2 DEF Holds
  <2>2. CASE k # p
    <3>1. Holds(apd, ipd, asked, loose, k) /\ k \in Nat
      BY DEF Inv, Ok, Param
    <3>2. Q[k] = asked[k] /\ (k \in L <=> k \in loose)
      BY <1>4, <2>2
    <3>3. RecordAt(A, k, Null) = RecordAt(apd, k, Null)
          /\ RecordAt(I, k, Unknown) = RecordAt(ipd, k, Unknown)
      BY <1>5, <1>6, <2>2
    <3>4. (k > A.count => k > apd.count) /\ (k <= ipd.count => k <= I.count)
      BY <1>1, <1>7, <3>1
    <3> QED BY <3>1, <3>2, <3>3, <3>4 DEF Holds
  <2> QED BY <2>1, <2>2
<1>9. Ok(A, I, Q, L)
  BY <1>4, <1>5, <1>6, <1>8 DEF Ok
<1>10. nparams <= ipd.count => nparams <= I.count
  BY <1>1, <1>7 DEF Inv
<1> QED BY <1>2, <1>9, <1>10 DEF Inv, MarkersDescribed

\* SQLBindParameter that fails half-way: the counts are as they were, and a
\* parameter below them is loose.
LEMMA BindFailsKeeps ==
    ASSUME ParameterBindingAssumption, Inv, NEW p \in Param, NEW type \in SqlType,
           NEW at \in Pointer, BindFails(p, type, at)
    PROVE  Inv'
<1> DEFINE F == GetRecord(apd, p, Null)
<1>1. /\ Sound(apd, Pointer) /\ Sound(ipd, Types) /\ loose \subseteq Param
      /\ asked \in [Param -> [at: Pointer, type: Types]] /\ type \in Types
      /\ apd.count \in 0..MaxParam /\ ipd.count \in 0..MaxParam
      /\ ipd.count <= Len(ipd.records) /\ p \in Nat /\ p \in 0..MaxParam /\ p # 0
      /\ Null \in Pointer /\ Unknown \in Types
  BY Blanks DEF Inv, Ok, Types, Sound, Param, ParameterBindingAssumption
<1>2. PICK left \in Undressed(F.records[p]) :
          apd' = SetCount(SetRecord(F, p, left), apd.count)
  BY DEF BindFails
<1>3. F.records[p] \in Pointer
  <2>1. F = GetRecord(apd, p, Null) /\ Null \in Pointer
    BY Blanks
  <2> HIDE DEF F
  <2>2. p \in 1..Len(F.records) /\ Sound(F, Pointer)
    BY <1>1, <2>1, GetRecordKeeps
  <2> QED BY <2>2, ElementOfSeq DEF Sound
<1>4. left \in Pointer
  BY <1>2, <1>3 DEF Undressed, Pointer
<1> DEFINE B == SetRecord(GetRecord(apd, p, Null), p, left)
           A == SetCount(B, apd.count)
           J == SetRecord(GetRecord(ipd, p, Unknown), p, type)
           I == SetCount(J, ipd.count)
           L == IF p <= apd.count THEN loose \cup {p} ELSE loose
<1>5. apd' = A /\ ipd' = I /\ asked' = asked /\ loose' = L /\ nparams' = nparams
      /\ isPrepared' = isPrepared
  BY <1>2 DEF BindFails, IpdBound
<1>6. L \subseteq Param /\ \A k \in Param : k \in L <=> k \in loose \/ (k = p /\ p <= apd.count)
  BY <1>1
<1>7. /\ Sound(A, Pointer) /\ A.count = apd.count
      /\ \A k \in Param : k # p /\ k <= apd.count =>
            RecordAt(A, k, Null) = RecordAt(apd, k, Null)
  <2>1. B = Made(apd, p, Null, left)
    BY DEF Made
  <2> HIDE DEF B
  <2>2. /\ Sound(B, Pointer) /\ B.count = Larger(apd.count, p)
        /\ \A k \in Param : RecordAt(B, k, Null) = IF k = p THEN left ELSE RecordAt(apd, k, Null)
    BY <1>4, <2>1, ApdMade
  <2>3. A = SetCount(B, apd.count)
    OBVIOUS
  <2> HIDE DEF A
  <2>4. /\ Sound(A, Pointer) /\ A.count = apd.count
        /\ \A k \in Param : k <= apd.count /\ k <= B.count =>
              RecordAt(A, k, Null) = RecordAt(B, k, Null)
    BY <1>1, <2>2, <2>3, Blanks, SetCountCuts
  <2>5. \A k \in Param : k <= apd.count => k <= B.count
    BY <1>1, <2>2 DEF Larger, Param
  <2> QED BY <2>2, <2>4, <2>5
<1>8. /\ Sound(I, Types) /\ I.count = ipd.count /\ I.count <= Len(I.records)
      /\ \A k \in Param : k # p /\ k <= ipd.count =>
            RecordAt(I, k, Unknown) = RecordAt(ipd, k, Unknown)
  <2>1. J = Made(ipd, p, Unknown, type)
    BY DEF Made
  <2> HIDE DEF J
  <2>2. /\ Sound(J, Types) /\ J.count = Larger(ipd.count, p) /\ J.count <= Len(J.records)
        /\ \A k \in Param :
              RecordAt(J, k, Unknown) = IF k = p THEN type ELSE RecordAt(ipd, k, Unknown)
    BY <1>1, <2>1, IpdMade
  <2>3. I = SetCount(J, ipd.count)
    OBVIOUS
  <2> HIDE DEF I
  <2>4. /\ Sound(I, Types) /\ I.count = ipd.count /\ Len(I.records) = Len(J.records)
        /\ \A k \in Param : k <= ipd.count /\ k <= J.count =>
              RecordAt(I, k, Unknown) = RecordAt(J, k, Unknown)
    BY <1>1, <2>2, <2>3, Blanks, SetCountCuts
  <2>5. ipd.count <= J.count /\ J.count \in Nat /\ Len(J.records) \in Nat
    BY <1>1, <2>2, LenProperties DEF Larger, Sound
  <2>6. \A k \in Param : k <= ipd.count => k <= J.count
    BY <1>1, <2>5 DEF Param
  <2> QED BY <1>1, <2>2, <2>4, <2>5, <2>6
<1> HIDE DEF A, I, L, B, J
<1>9. ASSUME NEW k \in Param PROVE Holds(A, I, asked, L, k)
  <2>1. Holds(apd, ipd, asked, loose, k) /\ k \in Nat
    BY DEF Inv, Ok, Param
  <2>2. CASE k > apd.count
    <3>1. asked[k] = NotBound /\ k \notin L
      BY <1>1, <1>6, <2>1, <2>2 DEF Holds
    <3> QED BY <3>1 DEF Holds
  <2>3. CASE ~(k > apd.count) /\ k # p
    <3>1. k \in L <=> k \in loose
      BY <1>6, <2>3
    <3>2. k <= apd.count /\ ~(k > A.count)
      BY <1>1, <1>7, <2>1, <2>3
    <3>3. RecordAt(A, k, Null) = RecordAt(apd, k, Null)
      BY <1>7, <2>3, <3>2
    <3>4. k <= ipd.count => k <= I.count /\ RecordAt(I, k, Unknown) = RecordAt(ipd, k, Unknown)
      BY <1>8, <2>3
    <3> QED BY <2>1, <3>1, <3>2, <3>3, <3>4 DEF Holds
  <2>4. CASE ~(k > apd.count) /\ k = p
    <3>1. k \in L /\ ~(k > A.count)
      BY <1>1, <1>6, <1>7, <2>1, <2>4
    <3> QED BY <3>1 DEF Holds
  <2> QED BY <2>2, <2>3, <2>4
<1>10. Ok(A, I, asked, L)
  BY <1>1, <1>6, <1>7, <1>8, <1>9 DEF Ok
<1> QED BY <1>5, <1>8, <1>10 DEF Inv, MarkersDescribed
-----------------------------------------------------------------------------
(* The theorems.                                                           *)

\* Every step keeps the invariant.
LEMMA StepKeeps ==
    ASSUME ParameterBindingAssumption, Inv, [Next]_vars
    PROVE  Inv'
<1>1. CASE UNCHANGED vars
  BY <1>1 DEF vars, Inv, MarkersDescribed
<1>2. ASSUME NEW n \in 0..MaxParam, Prepare(n) \/ PrepareFails(n) PROVE Inv'
  BY <1>2, PrepareKeeps
<1>3. ASSUME NEW p \in Param, NEW type \in SqlType, NEW at \in Pointer,
             Bind(p, type, at) \/ BindFails(p, type, at)
      PROVE  Inv'
  BY <1>3, BindKeeps, BindFailsKeeps
<1>4. ASSUME NEW p \in Param, Unbind(p) PROVE Inv'
  BY <1>4, UnbindKeeps
<1>5. ASSUME NEW n \in Param, SetApdCount(n) PROVE Inv'
  BY <1>5, SetApdCountKeeps
<1>6. CASE ResetParamBindings
  BY <1>6, ResetKeeps
<1> QED BY <1>1, <1>2, <1>3, <1>4, <1>5, <1>6 DEF Next

\* The invariant holds in every reachable state.
THEOREM InvariantHolds == Spec => []Inv
<1>1. Init => Inv
  BY ParameterBindingAssumption, InitEstablishes
<1>2. Inv /\ [Next]_vars => Inv'
  BY ParameterBindingAssumption, StepKeeps
<1> QED BY <1>1, <1>2, PTL DEF Spec

\* Every variable keeps its type, and the records the IPD's count covers are
\* always there.
THEOREM TypeCorrect == Spec => []TypeOK
<1>1. Inv => TypeOK
  BY DEF Inv, Ok, Sound, Types, TypeOK
<1> QED BY <1>1, InvariantHolds, PTL

\* Every marker of a prepared query is described by a record of the IPD,
\* whatever is bound, unbound, reset or recounted after the prepare.
THEOREM MarkersAreDescribed == Spec => []MarkersDescribed
<1>1. Inv => MarkersDescribed
  BY DEF Inv
<1> QED BY <1>1, InvariantHolds, PTL

Value == Buffer \cup {Null}
Argument == [type: SqlType, value: Value]

\* A parameter makes a sequence of arguments, of whatever type and value.
LEMMA ArgumentsAreSequences ==
    ASSUME NEW type, NEW value \in Value
    PROVE  ArgumentsOf(type, value) \in Seq(Argument)
<1> DEFINE u == IF type \in Simple \cup Direct \cup {Bit} THEN <<type>> ELSE <<>>
           v == IF type \in {Bit, Timestamp} THEN <<Timestamp>> ELSE <<>>
           made == u \o v
<1>1. u \in Seq(SqlType) /\ v \in Seq(SqlType)
  <2>1. type \in Simple \cup Direct \cup {Bit} => type \in SqlType
    BY DEF SqlType
  <2>2. Timestamp \in SqlType /\ <<>> \in Seq(SqlType)
    BY EmptySeq DEF SqlType
  <2>3. \A x \in SqlType : <<x>> \in Seq(SqlType)
    OBVIOUS
  <2> QED BY <2>1, <2>2, <2>3
<1>2. made \in Seq(SqlType)
  <2> HIDE DEF u, v
  <2> QED BY <1>1, ConcatProperties
<1>3. ArgumentsOf(type, value) = [i \in 1..Len(made) |-> [type |-> made[i], value |-> value]]
  BY DEF ArgumentsOf
<1> HIDE DEF made
<1> DEFINE n == Len(made)
           f == [i \in 1..n |-> [type |-> made[i], value |-> value]]
<1>4. n \in Nat
  BY <1>2, LenProperties
<1>5. f \in [1..n -> Argument]
  <2>1. \A i \in 1..n : made[i] \in SqlType
    BY <1>2, ElementOfSeq
  <2> HIDE DEF n
  <2> QED BY <2>1 DEF Argument
<1>6. f \in Seq(Argument)
  <2> HIDE DEF n, f
  <2> QED BY <1>4, <1>5, SeqDef
<1> QED BY <1>3, <1>6

\* A type there is an argument for makes one argument.
LEMMA OneArgument ==
    ASSUME ParameterBindingAssumption, NEW value,
           NEW type \in Simple \cup Direct \cup {Timestamp}
    PROVE  ArgumentsOf(type, value) = <<[type |-> type, value |-> value]>>
<1>1. type # Bit
  BY DEF ParameterBindingAssumption
<1> DEFINE made == (IF type \in Simple \cup Direct \cup {Bit} THEN <<type>> ELSE <<>>)
                   \o (IF type \in {Bit, Timestamp} THEN <<Timestamp>> ELSE <<>>)
<1>2. made = <<type>>
  <2>1. CASE type = Timestamp
    <3>1. made = <<>> \o <<type>>
      BY <1>1, <2>1 DEF ParameterBindingAssumption
    <3> QED BY <3>1
  <2>2. CASE type # Timestamp
    <3>1. made = <<type>> \o <<>>
      BY <1>1, <2>2
    <3> QED BY <3>1
  <2> QED BY <2>1, <2>2
<1>3. ArgumentsOf(type, value) = [i \in 1..Len(made) |-> [type |-> made[i], value |-> value]]
  BY DEF ArgumentsOf
<1> HIDE DEF made
<1>4. [i \in 1..Len(made) |-> [type |-> made[i], value |-> value]]
        = <<[type |-> type, value |-> value]>>
  BY <1>2
<1> QED BY <1>3, <1>4

\* A parameter bound to a value is among the bindings, with that value and type.
LEMMA WellBoundIsRead ==
    ASSUME ParameterBindingAssumption, Inv, NEW p \in Param, WellBound(p), NEW junk
    PROVE  TypeOf(p, junk) = asked[p].type /\ ValueOf(p) = asked[p].at
<1> DEFINE n == Smaller(apd.count, ipd.count)
<1>1. /\ apd.count \in Nat /\ ipd.count \in Nat /\ p \in Nat /\ p >= 1
      /\ ipd.count <= Len(ipd.records) /\ Len(ipd.records) \in Nat
  BY LenProperties DEF Inv, Ok, Sound, Param, ParameterBindingAssumption
<1>2. p \notin loose /\ asked[p].at \in Buffer /\ asked[p] # NotBound
  BY DEF WellBound, NotBound, ParameterBindingAssumption
<1>3. /\ p <= apd.count /\ RecordAt(apd, p, Null) = asked[p].at
      /\ p <= ipd.count /\ RecordAt(ipd, p, Unknown) = asked[p].type
  <2>1. Holds(apd, ipd, asked, loose, p)
    BY DEF Inv, Ok
  <2> QED BY <1>1, <1>2, <2>1 DEF Holds
<1>4. ipd.records[p] = asked[p].type
  BY <1>1, <1>3 DEF RecordAt
<1>5. n \in Nat /\ p \in 1..n /\ p <= n
  BY <1>1, <1>3 DEF Smaller
<1>6. Len(ParamBindings) = n
      /\ ParamBindings[p] = [at |-> RecordAt(apd, p, Null), type |-> ipd.records[p]]
  <2>1. ParamBindings =
           [k \in 1..n |-> [at |-> RecordAt(apd, k, Null), type |-> ipd.records[k]]]
    BY DEF ParamBindings
  <2> HIDE DEF n
  <2> QED BY <1>5, <2>1
<1>7. ParamBindings[p].at = asked[p].at /\ ParamBindings[p].type = asked[p].type
  BY <1>3, <1>4, <1>6
<1> HIDE DEF n
<1> QED BY <1>2, <1>5, <1>6, <1>7 DEF TypeOf, ValueOf

\* The parameters that are owed an argument are the first, and all of them well
\* bound.
LEMMA OwedAreWellBound ==
    ASSUME ParameterBindingAssumption, Inv
    PROVE  \E k \in 0..nparams :
              /\ \A p \in 1..k : WellBound(p)
              /\ Owed = [p \in 1..k |-> [type |-> asked[p].type, value |-> asked[p].at]]
<1> DEFINE all == {k \in 0..nparams : \A p \in 1..k : WellBound(p)}
<1>1. nparams \in Nat /\ 0 \in all
  BY DEF Inv, ParameterBindingAssumption
<1>2. all \in SUBSET (0..nparams)
  OBVIOUS
<1>3. Max(all) \in all
  <2> HIDE DEF all
  <2>1. PICK i \in all : \A j \in all : j <= i
    BY <1>1, <1>2, Highest
  <2>2. \A j \in all : i >= j
    BY <1>1, <1>2, <2>1
  <2> QED BY <2>2 DEF Max
<1>4. Owed = [p \in 1..Max(all) |-> [type |-> asked[p].type, value |-> asked[p].at]]
  BY DEF Owed
<1> QED BY <1>3, <1>4

\* Every query is sent the values its parameters are bound to, each in its
\* place and as the type it was last bound as, up to the first that has none:
\* whatever else was bound, unbound, reset, recounted, or failed in between.
THEOREM ArgumentsArePositional == Spec => []ArgumentsPositional
<1>1. ASSUME ParameterBindingAssumption, Inv, NEW junk \in Junk
      PROVE  /\ IsPrefix(Owed, Arguments(junk))
             /\ Len(Owed) = nparams => Arguments(junk) = Owed
  <2> DEFINE made(p) == ArgumentsOf(TypeOf(p, junk), ValueOf(p))
             owed(p) == [type |-> asked[p].type, value |-> asked[p].at]
             s == [p \in 1..nparams |-> made(p)]
  <2>1. PICK k \in 0..nparams : /\ \A p \in 1..k : WellBound(p)
                                /\ Owed = [p \in 1..k |-> owed(p)]
    BY <1>1, OwedAreWellBound
  <2>2. nparams \in 0..MaxParam /\ nparams \in Nat /\ k \in Nat
    BY <1>1 DEF Inv, ParameterBindingAssumption
  <2>3. \A p \in 1..nparams : made(p) \in Seq(Argument)
    <3>1. TAKE p \in 1..nparams
    <3>2. ValueOf(p) \in Value
      BY DEF ValueOf, Value
    <3> QED BY <3>2, ArgumentsAreSequences
  <2>4. ASSUME NEW p \in 1..k PROVE owed(p) \in Argument /\ made(p) = <<owed(p)>>
    <3>1. p \in Param /\ WellBound(p)
      <4>1. p \in 1..MaxParam
        <5>1. MaxParam \in Nat
          BY <1>1 DEF ParameterBindingAssumption
        <5> QED BY <2>2, <2>4, <5>1
      <4>2. WellBound(p)
        <5> HIDE DEF owed
        <5> QED BY <2>1, <2>4
      <4> QED BY <4>1, <4>2 DEF Param
    <3>2. /\ asked[p].at \in Value /\ asked[p].type \in SqlType
          /\ asked[p].type \in Simple \cup Direct \cup {Timestamp}
      BY <3>1 DEF WellBound, Value, SqlType
    <3>3. TypeOf(p, junk) = asked[p].type /\ ValueOf(p) = asked[p].at
      BY <1>1, <3>1, WellBoundIsRead
    <3>4. ArgumentsOf(asked[p].type, asked[p].at) = <<owed(p)>>
      BY <1>1, <3>2, OneArgument
    <3> QED BY <3>2, <3>3, <3>4 DEF Argument
  <2>5. s \in Seq(Seq(Argument)) /\ Len(s) = nparams /\ \A p \in 1..nparams : s[p] = made(p)
    <3>1. s \in [1..nparams -> Seq(Argument)]
      <4> HIDE DEF made
      <4> QED BY <2>3
    <3>2. \A p \in 1..nparams : s[p] = made(p)
      OBVIOUS
    <3> HIDE DEF s, made
    <3> QED BY <2>2, <3>1, <3>2, SeqDef, LenProperties
  <2>6. Owed \in Seq(Argument) /\ Len(Owed) = k /\ \A p \in 1..k : Owed[p] = owed(p)
    <3> HIDE DEF owed, made
    <3>1. \A p \in 1..k : owed(p) \in Argument
      BY <2>4
    <3>2. Owed \in [1..k -> Argument] /\ \A p \in 1..k : Owed[p] = owed(p)
      BY <2>1, <3>1
    <3> HIDE DEF owed
    <3> QED BY <2>2, <3>2, SeqDef, LenProperties
  <2>7. Arguments(junk) = FlattenSeq(s)
    BY DEF Arguments
  <2> HIDE DEF s, owed, made
  <2>8. \A p \in 1..Len(Owed) : s[p] = <<Owed[p]>>
    BY <2>2, <2>4, <2>5, <2>6
  <2>9. Len(Owed) <= Len(s)
    BY <2>5, <2>6
  <2>10. IsPrefix(Owed, FlattenSeq(s)) /\ (Len(Owed) = Len(s) => FlattenSeq(s) = Owed)
    BY <2>5, <2>6, <2>8, <2>9, FlattenBegins
  <2> QED BY <2>5, <2>7, <2>10
<1>2. Inv => ArgumentsPositional
  BY <1>1, ParameterBindingAssumption DEF ArgumentsPositional
<1> QED BY <1>2, InvariantHolds, PTL
=============================================================================
