------------------------ MODULE ColumnBinding_proofs ------------------------
(***************************************************************************)
(* A fetch writes where the application asked, for any number of           *)
(* descriptors, columns, types and buffers.  The invariant is about one    *)
(* descriptor at a time (Ok): beside the property itself it says that      *)
(* nothing is asked for, exposed or broken past the count.  What a call    *)
(* does to the records in effect is the same whatever lies past the count, *)
(* and that is all the lemmas about Descriptor have to say.  The count has *)
(* an invariant of its own (TopBound), about the column at the count.      *)
(***************************************************************************)
EXTENDS ColumnBinding, SequenceTheorems, WellFoundedInduction, TLAPS

Descr == [count: 0..MaxColumn, records: Seq(Record)]
Sound(D) == D \in Descr /\ Len(D.records) <= MaxColumn
At(D, c) == RecordAt(D, c, BlankRecord)

Claim(D, A, R, B, c) ==
    \/ c \in R
    \/ At(D, c) = A[c]
    \/ c \in B /\ At(D, c).data = Null /\ At(D, c).size = A[c].size
Past(D, A, R, B, c) ==
    c > D.count => A[c] = BlankRecord /\ c \notin R /\ c \notin B

Ok(D, A, R, B) ==
    /\ Sound(D) /\ A \in [Column -> Record] /\ R \subseteq Column /\ B \subseteq Column
    /\ \A c \in Column : Claim(D, A, R, B, c) /\ Past(D, A, R, B, c)

Inv ==
    /\ desc \in [Desc -> Descr]
    /\ asked \in [Desc -> [Column -> Record]]
    /\ reopened \in [Desc -> SUBSET Column] /\ broken \in [Desc -> SUBSET Column]
    /\ dressed \in [Desc -> BOOLEAN]
    /\ \A d \in Desc : Ok(desc[d], asked[d], reopened[d], broken[d])
-----------------------------------------------------------------------------
(* Descriptors.                                                            *)

\* The blank record is a record.
LEMMA BlankIsRecord == BlankRecord \in Record
BY DEF BlankRecord, Record, Type, Pointer

\* A record in effect is a record.
LEMMA AtIsRecord ==
    ASSUME NEW D, Sound(D), NEW c \in Column
    PROVE  At(D, c) \in Record
<1>1. CASE c <= D.count /\ c <= Len(D.records)
  <2>1. D.records \in Seq(Record) /\ c \in 1..Len(D.records)
    BY <1>1 DEF Sound, Descr, Column
  <2>2. D.records[c] \in Record
    BY <2>1, ElementOfSeq
  <2> QED BY <1>1, <2>2 DEF At, RecordAt
<1>2. CASE ~(c <= D.count /\ c <= Len(D.records))
  BY <1>2, BlankIsRecord DEF At, RecordAt
<1> QED BY <1>1, <1>2

\* getRecord changes nothing that is in effect, and makes the record.
LEMMA GetRecordKeeps ==
    ASSUME ColumnBindingAssumption, NEW D, Sound(D), NEW num \in 0..MaxColumn,
           NEW E, E = GetRecord(D, num, BlankRecord)
    PROVE  /\ Sound(E) /\ E.count = Larger(D.count, num) /\ E.count <= MaxColumn
           /\ num # 0 => num \in 1..Len(E.records) /\ num <= E.count
           /\ \A c \in Column : At(E, c) = At(D, c)
<1>1. CASE num = 0
  BY <1>1 DEF GetRecord, Larger, Sound, Descr, ColumnBindingAssumption
<1>2. CASE num # 0
  <2> DEFINE n == Larger(Len(D.records), Larger(D.count, num))
             f == [i \in 1..n |->
                     IF i <= Len(D.records) /\ i \notin (D.count + 1)..num
                     THEN D.records[i] ELSE BlankRecord]
  <2>1. /\ MaxColumn \in Nat /\ D.count \in 0..MaxColumn /\ Len(D.records) \in Nat
        /\ Len(D.records) <= MaxColumn /\ D.records \in Seq(Record)
    BY LenProperties DEF Sound, Descr, ColumnBindingAssumption
  <2>2. /\ n \in 0..MaxColumn /\ Len(D.records) <= n /\ D.count <= n /\ num <= n
        /\ Larger(D.count, num) \in 0..MaxColumn
    BY <2>1 DEF Larger
  <2>3. \A i \in 1..n : f[i] \in Record
    <3>1. TAKE i \in 1..n
    <3>2. i <= Len(D.records) => D.records[i] \in Record
      BY <2>1, <2>2, ElementOfSeq
    <3> QED BY <3>2, BlankIsRecord
  <2>4. f \in Seq(Record) /\ Len(f) = n
    <3>1. f \in [1..n -> Record]
      BY <2>3
    <3>2. n \in Nat
      BY <2>2
    <3> HIDE DEF f, n
    <3> QED BY <3>1, <3>2, SeqDef, LenProperties
  <2>5. E = [count |-> Larger(D.count, num), records |-> f]
    BY <1>2 DEF GetRecord
  <2>6. E.count = Larger(D.count, num) /\ E.records = f
    BY <2>5
  <2>7. \A c \in Column : At(E, c) = At(D, c)
    <3>1. TAKE c \in Column
    <3>2. c \in 1..MaxColumn
      BY DEF Column
    <3>3. c <= n => f[c] = IF c <= Len(D.records) /\ c \notin (D.count + 1)..num
                           THEN D.records[c] ELSE BlankRecord
      BY <3>2, <2>2
    <3> HIDE DEF f
    <3>4. CASE c <= E.count
      BY <3>2, <3>3, <3>4, <2>1, <2>2, <2>4, <2>6 DEF At, RecordAt, Larger
    <3>5. CASE ~(c <= E.count)
      <4>1. ~(c <= D.count)
        BY <3>5, <3>2, <2>1, <2>6 DEF Larger
      <4> QED BY <4>1, <3>5 DEF At, RecordAt
    <3> QED BY <3>4, <3>5
  <2>8. Sound(E)
    BY <2>2, <2>4, <2>5, <2>6 DEF Sound, Descr
  <2>9. num \in 1..Len(E.records) /\ num <= E.count
    BY <1>2, <2>1, <2>2, <2>4, <2>6 DEF Larger
  <2> QED BY <2>2, <2>6, <2>7, <2>8, <2>9
<1> QED BY <1>1, <1>2

\* Writing a record that is there changes that one only.
LEMMA SetRecordSets ==
    ASSUME ColumnBindingAssumption, NEW D, Sound(D), NEW num \in 1..Len(D.records),
           num <= D.count, NEW r \in Record, NEW E, E = SetRecord(D, num, r)
    PROVE  /\ Sound(E) /\ E.count = D.count
           /\ \A c \in Column : At(E, c) = IF c = num THEN r ELSE At(D, c)
<1>1. /\ D.records \in Seq(Record) /\ Len(D.records) <= MaxColumn /\ D.count \in 0..MaxColumn
  BY DEF Sound, Descr
<1> DEFINE s == [D.records EXCEPT ![num] = r]
<1>2. s \in Seq(Record) /\ Len(s) = Len(D.records)
  BY <1>1, ExceptSeq
<1>3. \A i \in 1..Len(D.records) : s[i] = IF i = num THEN r ELSE D.records[i]
  BY <1>1, LenProperties
<1>4. E = [D EXCEPT !.records = s]
  BY DEF SetRecord
<1> HIDE DEF s
<1>5. E.count = D.count /\ E.records = s /\ E \in Descr
  BY <1>1, <1>2, <1>4 DEF Sound, Descr
<1>6. \A c \in Column : At(E, c) = IF c = num THEN r ELSE At(D, c)
  <2>1. TAKE c \in Column
  <2>2. c \in 1..MaxColumn /\ Len(D.records) \in Nat /\ MaxColumn \in Nat
    BY <1>1, LenProperties DEF Column, ColumnBindingAssumption
  <2> QED BY <2>2, <1>2, <1>3, <1>5, <1>1 DEF At, RecordAt
<1> QED BY <1>1, <1>2, <1>5, <1>6 DEF Sound

\* A new count takes the records past it out of effect; those it exposes were
\* past the old one.
LEMMA SetCountCuts ==
    ASSUME ColumnBindingAssumption, NEW D, Sound(D), NEW n \in 0..MaxColumn,
           NEW E, E = SetCount(D, n)
    PROVE  /\ Sound(E) /\ E.count = n
           /\ \A c \in Column : /\ c <= n /\ c <= D.count => At(E, c) = At(D, c)
                                /\ c > n => At(E, c) = BlankRecord
<1>1. E.count = n /\ E.records = D.records /\ E \in Descr
  BY DEF SetCount, Sound, Descr
<1>2. \A c \in Column : /\ c <= n /\ c <= D.count => At(E, c) = At(D, c)
                        /\ c > n => At(E, c) = BlankRecord
  BY <1>1 DEF At, RecordAt, Column, ColumnBindingAssumption
<1> QED BY <1>1, <1>2 DEF Sound
-----------------------------------------------------------------------------
(* One descriptor.                                                         *)

\* The record getRecord makes is the one in effect.
LEMMA FoundIsInEffect ==
    ASSUME ColumnBindingAssumption, NEW D, Sound(D), NEW c \in Column
    PROVE  /\ GetRecord(D, c, BlankRecord).records[c] = At(D, c)
           /\ At(D, c) \in Record
<1> DEFINE E == GetRecord(D, c, BlankRecord)
<1>1. c \in 0..MaxColumn /\ c # 0
  BY DEF Column, ColumnBindingAssumption
<1> HIDE DEF E
<1>2. c \in 1..Len(E.records) /\ c <= E.count /\ At(E, c) = At(D, c)
  BY <1>1, GetRecordKeeps DEF E
<1>3. At(E, c) = E.records[c]
  BY <1>1, <1>2 DEF At, RecordAt
<1> QED BY <1>2, <1>3, AtIsRecord DEF E

\* A descriptor in order stays so when nothing in effect changes.
LEMMA SameInEffect ==
    ASSUME ColumnBindingAssumption, NEW D, NEW A, NEW R, NEW B, Ok(D, A, R, B),
           NEW E, Sound(E), E.count >= D.count,
           \A c \in Column : At(E, c) = At(D, c)
    PROVE  Ok(E, A, R, B)
<1>1. \A c \in Column : Claim(E, A, R, B, c)
  BY DEF Ok, Claim
<1>2. \A c \in Column : Past(E, A, R, B, c)
  <2>1. TAKE c \in Column
  <2>2. c \in Nat /\ D.count \in Nat /\ E.count \in Nat
    BY DEF Ok, Sound, Descr, Column, ColumnBindingAssumption
  <2>3. c > E.count => c > D.count
    BY <2>2
  <2> QED BY <2>3 DEF Ok, Past
<1> QED BY <1>1, <1>2 DEF Ok

\* Making a record, to read it.
LEMMA Read ==
    ASSUME ColumnBindingAssumption, NEW D, NEW A, NEW R, NEW B, Ok(D, A, R, B),
           NEW num \in 0..MaxColumn
    PROVE  Ok(GetRecord(D, num, BlankRecord), A, R, B)
<1> DEFINE E == GetRecord(D, num, BlankRecord)
<1>1. Sound(D) /\ D.count \in 0..MaxColumn
  BY DEF Ok, Sound, Descr
<1> HIDE DEF E
<1>2. Sound(E) /\ E.count = Larger(D.count, num) /\ \A c \in Column : At(E, c) = At(D, c)
  BY <1>1, GetRecordKeeps DEF E
<1>3. E.count >= D.count
  BY <1>1, <1>2 DEF Larger, ColumnBindingAssumption
<1>4. Ok(E, A, R, B)
  BY <1>2, <1>3, SameInEffect
<1> QED BY <1>4 DEF E

\* One column changes, and only where the change agrees with what is asked.
Others(c, A, R, B, A2, R2, B2) ==
    /\ A2 \in [Column -> Record] /\ R2 \subseteq Column /\ B2 \subseteq Column
    /\ \A k \in Column \ {c} : A2[k] = A[k] /\ (k \in R2 <=> k \in R) /\ (k \in B2 <=> k \in B)
Agrees(c, r, A2, R2, B2) ==
    \/ c \in R2
    \/ r = A2[c]
    \/ c \in B2 /\ r.data = Null /\ r.size = A2[c].size

\* Making a record, to write it.
LEMMA MakeAndSet ==
    ASSUME ColumnBindingAssumption, NEW D, Sound(D), NEW c \in Column, NEW r \in Record,
           NEW E, E = SetRecord(GetRecord(D, c, BlankRecord), c, r)
    PROVE  /\ Sound(E) /\ E.count = Larger(D.count, c)
           /\ \A k \in Column : At(E, k) = IF k = c THEN r ELSE At(D, k)
<1> DEFINE F == GetRecord(D, c, BlankRecord)
<1>1. c \in 0..MaxColumn /\ c # 0
  BY DEF Column, ColumnBindingAssumption
<1>2. E = SetRecord(F, c, r)
  OBVIOUS
<1> HIDE DEF F
<1>3. /\ Sound(F) /\ F.count = Larger(D.count, c) /\ c \in 1..Len(F.records) /\ c <= F.count
      /\ \A k \in Column : At(F, k) = At(D, k)
  BY <1>1, GetRecordKeeps DEF F
<1>4. /\ Sound(E) /\ E.count = F.count
      /\ \A k \in Column : At(E, k) = IF k = c THEN r ELSE At(F, k)
  BY <1>2, <1>3, SetRecordSets
<1> QED BY <1>3, <1>4

\* A record written as asked leaves the descriptor in order.
LEMMA Put ==
    ASSUME ColumnBindingAssumption, NEW D, NEW A, NEW R, NEW B, Ok(D, A, R, B),
           NEW c \in Column, NEW r \in Record, NEW A2, NEW R2, NEW B2,
           Others(c, A, R, B, A2, R2, B2), Agrees(c, r, A2, R2, B2)
    PROVE  Ok(SetRecord(GetRecord(D, c, BlankRecord), c, r), A2, R2, B2)
<1> DEFINE E == SetRecord(GetRecord(D, c, BlankRecord), c, r)
<1>1. Sound(D) /\ D.count \in Nat /\ c \in Nat
  BY DEF Ok, Sound, Descr, Column, ColumnBindingAssumption
<1> HIDE DEF E
<1>2. /\ Sound(E) /\ E.count = Larger(D.count, c)
      /\ \A k \in Column : At(E, k) = IF k = c THEN r ELSE At(D, k)
  BY <1>1, MakeAndSet DEF E
<1>3. D.count <= E.count /\ c <= E.count /\ E.count \in Nat
  BY <1>1, <1>2 DEF Larger
<1>4. ASSUME NEW k \in Column PROVE Claim(E, A2, R2, B2, k) /\ Past(E, A2, R2, B2, k)
  <2>1. CASE k = c
    <3>1. Claim(E, A2, R2, B2, k)
      BY <1>2, <2>1 DEF Claim, Agrees
    <3>2. ~(k > E.count)
      BY <1>1, <1>3, <2>1
    <3> QED BY <3>1, <3>2 DEF Past
  <2>2. CASE k # c
    <3>1. Claim(D, A, R, B, k) /\ Past(D, A, R, B, k)
      BY DEF Ok
    <3>2. A2[k] = A[k] /\ (k \in R2 <=> k \in R) /\ (k \in B2 <=> k \in B)
      BY <2>2 DEF Others
    <3>3. At(E, k) = At(D, k)
      BY <1>2, <2>2
    <3>4. Claim(E, A2, R2, B2, k)
      BY <3>1, <3>2, <3>3 DEF Claim
    <3>5. k \in Nat
      BY DEF Column
    <3>6. k > E.count => k > D.count
      BY <1>1, <1>3, <3>5
    <3> QED BY <3>1, <3>2, <3>4, <3>6 DEF Past
  <2> QED BY <2>1, <2>2
<1>5. Ok(E, A2, R2, B2)
  BY <1>2, <1>4 DEF Ok, Others
<1> QED BY <1>5 DEF E

\* A type set is the type of a record, and costs the data pointer at most.
LEMMA SetTypeKeeps ==
    ASSUME NEW r \in Record, NEW t \in Type
    PROVE  /\ SetType(r, t) \in Record /\ SetType(r, t).size = r.size
           /\ SetType(r, t) = r \/ SetType(r, t).data = Null
           /\ r.data = Null => SetType(r, t).data = Null
BY DEF SetType, Record, Pointer

\* SQLBindCol that fails costs at most the binding it was to replace.
LEMMA PutFails ==
    ASSUME ColumnBindingAssumption, NEW D, NEW A, NEW R, NEW B, Ok(D, A, R, B),
           NEW c \in Column, NEW t \in Type, NEW r,
           r = SetType(GetRecord(D, c, BlankRecord).records[c], t)
    PROVE  Ok(SetCount(SetRecord(GetRecord(D, c, BlankRecord), c, r), D.count),
              A, R, IF c <= D.count THEN B \cup {c} ELSE B)
<1> DEFINE E == SetRecord(GetRecord(D, c, BlankRecord), c, r)
           G == SetCount(E, D.count)
           B2 == IF c <= D.count THEN B \cup {c} ELSE B
<1>1. /\ Sound(D) /\ D.count \in 0..MaxColumn /\ c \in Nat /\ MaxColumn \in Nat
      /\ D.count \in Nat
  BY DEF Ok, Sound, Descr, Column, ColumnBindingAssumption
<1>2. r = SetType(At(D, c), t) /\ At(D, c) \in Record
  BY <1>1, FoundIsInEffect
<1>3. r \in Record /\ r.size = At(D, c).size /\ (r = At(D, c) \/ r.data = Null)
  BY <1>2, SetTypeKeeps
<1> HIDE DEF E
<1>4. /\ Sound(E) /\ E.count = Larger(D.count, c)
      /\ \A k \in Column : At(E, k) = IF k = c THEN r ELSE At(D, k)
  BY <1>1, <1>3, MakeAndSet DEF E
<1>g. G = SetCount(E, D.count)
  OBVIOUS
<1> HIDE DEF G
<1>5. /\ Sound(G) /\ G.count = D.count
      /\ \A k \in Column : /\ k <= D.count /\ k <= E.count => At(G, k) = At(E, k)
                           /\ k > D.count => At(G, k) = BlankRecord
  <2> DEFINE n == D.count
  <2>1. n \in 0..MaxColumn /\ G = SetCount(E, n) /\ Sound(E)
    BY <1>1, <1>4, <1>g
  <2> HIDE DEF n
  <2>2. /\ Sound(G) /\ G.count = n
        /\ \A k \in Column : /\ k <= n /\ k <= E.count => At(G, k) = At(E, k)
                             /\ k > n => At(G, k) = BlankRecord
    BY ONLY ColumnBindingAssumption, <2>1, SetCountCuts
  <2> QED BY <2>2 DEF n
<1>6. D.count <= E.count /\ E.count \in Nat
  BY <1>1, <1>4 DEF Larger
<1>7. ASSUME NEW k \in Column PROVE Claim(G, A, R, B2, k) /\ Past(G, A, R, B2, k)
  <2>1. Claim(D, A, R, B, k) /\ Past(D, A, R, B, k)
    BY DEF Ok
  <2>2. k \in Nat
    BY DEF Column
  <2>3. CASE k <= D.count
    <3>1. At(G, k) = IF k = c THEN r ELSE At(D, k)
      BY <1>1, <1>4, <1>5, <1>6, <2>2, <2>3
    <3>2. ~(k > G.count)
      BY <1>1, <1>5, <2>2, <2>3
    <3>3. Claim(G, A, R, B2, k)
      <4>1. CASE k = c
        <5>1. k \in B2 /\ At(G, k) = r
          BY <2>3, <3>1, <4>1
        <5>2. r = At(D, k) \/ (r.data = Null /\ r.size = At(D, k).size)
          BY <1>3, <4>1
        <5>3. k \in R \/ At(D, k) = A[k] \/ (At(D, k).data = Null /\ At(D, k).size = A[k].size)
          BY <2>1 DEF Claim
        <5> HIDE DEF B2
        <5> QED BY <5>1, <5>2, <5>3 DEF Claim
      <4>2. CASE k # c
        <5>1. At(G, k) = At(D, k) /\ (k \in B => k \in B2)
          BY <3>1, <4>2
        <5> HIDE DEF B2
        <5> QED BY <5>1, <2>1 DEF Claim
      <4> QED BY <4>1, <4>2
    <3> QED BY <3>2, <3>3 DEF Past
  <2>4. CASE k > D.count
    <3>1. A[k] = BlankRecord /\ k \notin R /\ k \notin B /\ At(G, k) = BlankRecord
      BY <1>5, <2>1, <2>4 DEF Past
    <3>2. k \notin B2
      <4>1. k = c => ~(c <= D.count)
        BY <1>1, <2>2, <2>4
      <4> QED BY <3>1, <4>1
    <3> HIDE DEF B2
    <3> QED BY <3>1, <3>2 DEF Claim, Past
  <2> QED BY <1>1, <2>2, <2>3, <2>4
<1>8. Ok(G, A, R, B2)
  <2>1. B2 \subseteq Column /\ R \subseteq Column /\ A \in [Column -> Record]
    BY DEF Ok
  <2> HIDE DEF B2
  <2> QED BY <1>5, <1>7, <2>1 DEF Ok
<1> QED BY <1>8 DEF E, G

\* A count set.
LEMMA Count ==
    ASSUME ColumnBindingAssumption, NEW D, NEW A, NEW R, NEW B, Ok(D, A, R, B),
           NEW n \in 0..MaxColumn
    PROVE  Ok(SetCount(D, n),
              [k \in Column |-> IF k > n THEN BlankRecord ELSE A[k]],
              (R \cap 1..n) \cup (D.count + 1)..n,
              B \cap 1..n)
<1> DEFINE G == SetCount(D, n)
           A2 == [k \in Column |-> IF k > n THEN BlankRecord ELSE A[k]]
           R2 == (R \cap 1..n) \cup (D.count + 1)..n
           B2 == B \cap 1..n
<1>1. /\ Sound(D) /\ D.count \in 0..MaxColumn /\ MaxColumn \in Nat /\ n \in Nat
      /\ A \in [Column -> Record] /\ R \subseteq Column /\ B \subseteq Column
  BY DEF Ok, Sound, Descr, ColumnBindingAssumption
<1> HIDE DEF G
<1>2. /\ Sound(G) /\ G.count = n
      /\ \A k \in Column : /\ k <= n /\ k <= D.count => At(G, k) = At(D, k)
                           /\ k > n => At(G, k) = BlankRecord
  <2>1. G = SetCount(D, n) /\ Sound(D)
    BY <1>1 DEF G
  <2> QED BY <2>1, SetCountCuts
<1>3. A2 \in [Column -> Record] /\ R2 \subseteq Column /\ B2 \subseteq Column
  <2>1. A2 \in [Column -> Record]
    BY <1>1, BlankIsRecord
  <2>2. R2 \subseteq Column /\ B2 \subseteq Column
    BY <1>1 DEF Column
  <2> QED BY <2>1, <2>2
<1>4. ASSUME NEW k \in Column PROVE Claim(G, A2, R2, B2, k) /\ Past(G, A2, R2, B2, k)
  <2>1. Claim(D, A, R, B, k)
    BY DEF Ok
  <2>2. k \in Nat /\ k >= 1
    BY DEF Column
  <2>3. CASE k > n
    <3>1. A2[k] = BlankRecord /\ k \notin R2 /\ k \notin B2
      BY <1>1, <2>2, <2>3
    <3> HIDE DEF A2, R2, B2
    <3> QED BY <1>2, <2>3, <3>1 DEF Claim, Past
  <2>4. CASE k <= n /\ k <= D.count
    <3>1. A2[k] = A[k] /\ (k \in R => k \in R2) /\ (k \in B => k \in B2) /\ ~(k > n)
      BY <1>1, <2>2, <2>4
    <3>2. At(G, k) = At(D, k)
      BY <1>2, <2>4
    <3> HIDE DEF A2, R2, B2
    <3> QED BY <1>2, <2>1, <3>1, <3>2 DEF Claim, Past
  <2>5. CASE k <= n /\ ~(k <= D.count)
    <3>1. k \in R2 /\ ~(k > n)
      BY <1>1, <2>2, <2>5
    <3> HIDE DEF A2, R2, B2
    <3> QED BY <1>2, <3>1 DEF Claim, Past
  <2> QED BY <1>1, <2>2, <2>3, <2>4, <2>5
<1>5. Ok(G, A2, R2, B2)
  <2> HIDE DEF A2, R2, B2
  <2> QED BY <1>2, <1>3, <1>4 DEF Ok
<1> QED BY <1>5 DEF G

\* A set of numbers up to n has a highest one.
LEMMA Highest ==
    ASSUME NEW n \in Nat, NEW S \in SUBSET (1..n), S # {}
    PROVE  \E i \in S : \A j \in S : j <= i
<1> DEFINE T == {n - i : i \in S}
           less == OpToRel(<, Nat)
<1>1. T \subseteq Nat /\ T # {}
  <2>1. \A i \in S : n - i \in Nat
    OBVIOUS
  <2>2. PICK i \in S : TRUE
    OBVIOUS
  <2>3. n - i \in T
    OBVIOUS
  <2> QED BY <2>1, <2>3
<1>2. PICK x \in T : \A y \in T : ~(<<y, x>> \in less)
  <2> HIDE DEF T, less
  <2>1. IsWellFoundedOn(less, Nat)
    BY NatLessThanWellFounded DEF less
  <2> QED BY <1>1, <2>1, WFMin
<1>3. PICK i \in S : x = n - i
  OBVIOUS
<1>4. ASSUME NEW j \in S PROVE j <= i
  <2>1. n - j \in T /\ n - j \in Nat /\ x \in Nat
    BY <1>1
  <2>2. ~(<<n - j, x>> \in less)
    BY <1>2, <2>1
  <2>3. ~(n - j < x)
    BY <2>1, <2>2 DEF OpToRel
  <2>4. j \in Nat /\ i \in Nat
    OBVIOUS
  <2> QED BY <1>3, <2>1, <2>3, <2>4
<1> QED BY <1>4

\* The highest column left is one of those looked at, and none past the count.
LEMMA HighestLeftIsLower ==
    ASSUME ColumnBindingAssumption, NEW d, NEW c \in Column,
           desc[d].count \in Nat
    PROVE  HighestLeft(d, c) \in 0..desc[d].count
<1> DEFINE n == desc[d].count
           m == Smaller(n + 1, c)
           E == GetRecord(desc[d], n, BlankRecord)
           below == {i \in 1..(m - 1) : i <= E.count /\ IsBound(E.records[i])}
<1>1. m - 1 \in Nat /\ m - 1 <= n
  BY DEF Smaller, Column, ColumnBindingAssumption
<1>2. HighestLeft(d, c) =
        IF below = {} THEN 0 ELSE CHOOSE i \in below : \A j \in below : j <= i
  BY DEF HighestLeft, HighestBelow
<1>3. below \subseteq 1..(m - 1)
  OBVIOUS
<1> HIDE DEF below, E, m
<1>4. CASE below = {}
  BY <1>2, <1>4
<1>5. CASE below # {}
  <2>1. \E i \in below : \A j \in below : j <= i
    BY <1>1, <1>3, <1>5, Highest
  <2>2. HighestLeft(d, c) \in below
    BY <1>2, <1>5, <2>1
  <2>3. HighestLeft(d, c) \in 1..(m - 1)
    BY <1>3, <2>2
  <2> DEFINE h == HighestLeft(d, c)
             z == m - 1
  <2>4. h \in 1..z /\ z \in Nat /\ z <= n
    BY <1>1, <2>3
  <2> HIDE DEF h, z
  <2>5. h \in 0..n
    BY <2>4
  <2> QED BY <2>5 DEF h
<1> QED BY <1>4, <1>5
-----------------------------------------------------------------------------
(* The calls.                                                              *)

Becomes(d, D2, A2, R2, B2) ==
    /\ desc' = [desc EXCEPT ![d] = D2] /\ asked' = [asked EXCEPT ![d] = A2]
    /\ reopened' = [reopened EXCEPT ![d] = R2] /\ broken' = [broken EXCEPT ![d] = B2]
    /\ dressed' \in [Desc -> BOOLEAN]
Writes(d, c, r, a, R2, B2) ==
    /\ desc' = [desc EXCEPT ![d] = SetRecord(GetRecord(desc[d], c, BlankRecord), c, r)]
    /\ asked' = [asked EXCEPT ![d][c] = a]
    /\ reopened' = [reopened EXCEPT ![d] = R2] /\ broken' = [broken EXCEPT ![d] = B2]
    /\ dressed' \in [Desc -> BOOLEAN]

\* The invariant holds after a call that leaves its descriptor in order.
LEMMA OneDescriptor ==
    ASSUME Inv, NEW d \in Desc, NEW D2, NEW A2, NEW R2, NEW B2, Ok(D2, A2, R2, B2),
           Becomes(d, D2, A2, R2, B2)
    PROVE  Inv'
<1>1. /\ D2 \in Descr /\ A2 \in [Column -> Record]
      /\ R2 \in SUBSET Column /\ B2 \in SUBSET Column
  BY DEF Ok, Sound
<1>2. /\ desc' \in [Desc -> Descr] /\ asked' \in [Desc -> [Column -> Record]]
      /\ reopened' \in [Desc -> SUBSET Column] /\ broken' \in [Desc -> SUBSET Column]
  BY <1>1 DEF Inv, Becomes
<1>3. ASSUME NEW e \in Desc PROVE Ok(desc'[e], asked'[e], reopened'[e], broken'[e])
  <2>1. CASE e = d
    BY <2>1 DEF Inv, Becomes
  <2>2. CASE e # d
    BY <2>2 DEF Inv, Becomes
  <2> QED BY <2>1, <2>2
<1> QED BY <1>2, <1>3 DEF Inv, Becomes

\* Getting a record, by any call, is in order.
LEMMA ReadRecordKeeps ==
    ASSUME ColumnBindingAssumption, Inv, NEW d \in Desc, NEW c \in Column,
           ReadRecord(d, c) \/ GetData(d, c)
    PROVE  Inv'
<1>1. Ok(desc[d], asked[d], reopened[d], broken[d]) /\ c \in 0..MaxColumn
  BY DEF Inv, Column, ColumnBindingAssumption
<1>2. Ok(GetRecord(desc[d], c, BlankRecord), asked[d], reopened[d], broken[d])
  BY <1>1, Read
<1>3. /\ desc' = [desc EXCEPT ![d] = GetRecord(desc[d], c, BlankRecord)]
      /\ asked' = asked /\ reopened' = reopened /\ broken' = broken
      /\ dressed' \in [Desc -> BOOLEAN]
  BY DEF ReadRecord, GetData, ghosts, Inv
<1>4. /\ asked' = [asked EXCEPT ![d] = asked[d]]
      /\ reopened' = [reopened EXCEPT ![d] = reopened[d]]
      /\ broken' = [broken EXCEPT ![d] = broken[d]]
  BY <1>3 DEF Inv
<1>5. Becomes(d, GetRecord(desc[d], c, BlankRecord), asked[d], reopened[d], broken[d])
  BY <1>3, <1>4 DEF Becomes
<1> QED BY <1>2, <1>5, OneDescriptor

\* A record written as asked, by any call that writes one.
LEMMA WriteKeeps ==
    ASSUME ColumnBindingAssumption, Inv, NEW d \in Desc, NEW c \in Column,
           NEW r \in Record, NEW a \in Record, NEW R2, NEW B2,
           R2 \in {reopened[d], reopened[d] \ {c}}, B2 \in {broken[d], broken[d] \ {c}},
           c \in R2 \/ r = a \/ (c \in B2 /\ r.data = Null /\ r.size = a.size),
           Writes(d, c, r, a, R2, B2)
    PROVE  Inv'
<1> DEFINE A2 == [asked[d] EXCEPT ![c] = a]
<1>1. /\ Ok(desc[d], asked[d], reopened[d], broken[d])
      /\ asked[d] \in [Column -> Record] /\ reopened[d] \subseteq Column /\ broken[d] \subseteq Column
  BY DEF Inv
<1>2. A2 \in [Column -> Record] /\ A2[c] = a /\ \A k \in Column \ {c} : A2[k] = asked[d][k]
  BY <1>1
<1>3. asked' = [asked EXCEPT ![d] = A2]
  BY DEF Inv, Writes
<1> HIDE DEF A2
<1>4. Others(c, asked[d], reopened[d], broken[d], A2, R2, B2)
  BY <1>1, <1>2 DEF Others
<1>5. Agrees(c, r, A2, R2, B2)
  BY <1>2 DEF Agrees
<1>6. Ok(SetRecord(GetRecord(desc[d], c, BlankRecord), c, r), A2, R2, B2)
  BY <1>1, <1>4, <1>5, Put
<1>7. Becomes(d, SetRecord(GetRecord(desc[d], c, BlankRecord), c, r), A2, R2, B2)
  BY <1>3 DEF Becomes, Writes
<1> QED BY <1>6, <1>7, OneDescriptor

\* The record a call writes to is in effect, and says what was asked unless it
\* was exposed or broken.
LEMMA Before ==
    ASSUME ColumnBindingAssumption, Inv, NEW d \in Desc, NEW c \in Column
    PROVE  /\ GetRecord(desc[d], c, BlankRecord).records[c] = At(desc[d], c)
           /\ At(desc[d], c) \in Record /\ asked[d][c] \in Record
           /\ \/ c \in reopened[d]
              \/ At(desc[d], c) = asked[d][c]
              \/ /\ c \in broken[d] /\ At(desc[d], c).data = Null
                 /\ At(desc[d], c).size = asked[d][c].size
<1>1. /\ Ok(desc[d], asked[d], reopened[d], broken[d]) /\ Sound(desc[d])
      /\ asked[d][c] \in Record
  BY DEF Inv, Ok
<1> QED BY <1>1, FoundIsInEffect DEF Ok, Claim

\* A record with a field replaced.
LEMMA WithField ==
    ASSUME NEW r \in Record
    PROVE  /\ \A t \in Type : /\ [r EXCEPT !.type = t] \in Record
                             /\ [r EXCEPT !.type = t] = [type |-> t, data |-> r.data, size |-> r.size]
           /\ \A p \in Pointer : /\ [r EXCEPT !.data = p] \in Record
                                /\ [r EXCEPT !.data = p] = [type |-> r.type, data |-> p, size |-> r.size]
           /\ \A q \in Pointer : /\ [r EXCEPT !.size = q] \in Record
                                /\ [r EXCEPT !.size = q] = [type |-> r.type, data |-> r.data, size |-> q]
BY DEF Record

\* The record SQLBindCol and SQLSetDescRec leave is the one asked for.
LEMMA BoundAsAsked ==
    ASSUME NEW r \in Record, NEW t \in Type, NEW p \in Pointer, NEW q \in Pointer
    PROVE  /\ [SetType(r, t) EXCEPT !.data = p, !.size = q] = [type |-> t, data |-> p, size |-> q]
           /\ [type |-> t, data |-> p, size |-> q] \in Record
<1> DEFINE typed == SetType(r, t)
           placed == [typed EXCEPT !.data = p]
<1>1. typed \in Record /\ typed.type = t
  <2>1. typed \in Record
    BY SetTypeKeeps
  <2>2. CASE r.type = t
    BY <2>1, <2>2 DEF SetType
  <2>3. CASE r.type # t
    <3> DEFINE s == [r EXCEPT !.type = t]
    <3>0. s \in Record /\ s = [type |-> t, data |-> r.data, size |-> r.size]
      BY WithField
    <3>1. s \in Record /\ s.type = t
      <4> HIDE DEF s
      <4> QED BY <3>0
    <3>2. typed = [s EXCEPT !.data = Null]
      BY <2>3 DEF SetType
    <3> HIDE DEF s, typed
    <3>3. [s EXCEPT !.data = Null] = [type |-> s.type, data |-> Null, size |-> s.size]
      BY <3>1, WithField DEF Pointer
    <3> QED BY <2>1, <3>1, <3>2, <3>3
  <2> QED BY <2>1, <2>2, <2>3
<1> HIDE DEF typed
<1>2. placed \in Record /\ placed = [type |-> t, data |-> p, size |-> typed.size]
  BY <1>1, WithField
<1>3. [typed EXCEPT !.data = p, !.size = q] = [placed EXCEPT !.size = q]
  OBVIOUS
<1> HIDE DEF placed
<1>4. /\ [placed EXCEPT !.size = q] = [type |-> placed.type, data |-> placed.data, size |-> q]
      /\ [placed EXCEPT !.size = q] \in Record
  BY <1>2, WithField
<1>5. placed.type = t /\ placed.data = p
  BY <1>2
<1> QED BY <1>3, <1>4, <1>5 DEF typed

\* SQLBindCol and SQLSetDescRec.
LEMMA BindKeeps ==
    ASSUME ColumnBindingAssumption, Inv, NEW d \in Desc, NEW c \in Column,
           NEW t \in Type, NEW p \in Pointer, NEW q \in Pointer,
           Bind(d, c, t, p, q) \/ SetDescRec(d, c, t, p, q)
    PROVE  Inv'
<1> DEFINE found == GetRecord(desc[d], c, BlankRecord)
           r == [type |-> t, data |-> p, size |-> q]
<1>1. found.records[c] \in Record
  BY Before
<1> HIDE DEF found
<1>2. /\ [SetType(found.records[c], t) EXCEPT !.data = p, !.size = q] = r
      /\ r \in Record
  BY <1>1, BoundAsAsked
<1>3. desc' = [desc EXCEPT ![d] = SetRecord(found, c,
                  [SetType(found.records[c], t) EXCEPT !.data = p, !.size = q])]
  BY DEF Bind, SetDescRec, found
<1>4. Ask(d, c, r) /\ dressed' \in [Desc -> BOOLEAN]
  BY DEF Bind, SetDescRec, Inv
<1> HIDE DEF r
<1>5. desc' = [desc EXCEPT ![d] = SetRecord(found, c, r)]
  BY <1>2, <1>3
<1>6. /\ asked' = [asked EXCEPT ![d][c] = r]
      /\ reopened' = [reopened EXCEPT ![d] = reopened[d] \ {c}]
      /\ broken' = [broken EXCEPT ![d] = broken[d] \ {c}]
  BY <1>4 DEF Ask
<1>7. Writes(d, c, r, r, reopened[d] \ {c}, broken[d] \ {c})
  BY <1>4, <1>5, <1>6 DEF Writes, found
<1> QED BY <1>2, <1>7, WriteKeeps

\* SQLBindCol that fails.
LEMMA BindFailsKeeps ==
    ASSUME ColumnBindingAssumption, Inv, NEW d \in Desc, NEW c \in Column,
           NEW t \in Type, NEW p \in Pointer, NEW q \in Pointer, BindFails(d, c, t, p, q)
    PROVE  Inv'
<1> DEFINE found == GetRecord(desc[d], c, BlankRecord)
           D2 == SetCount(SetRecord(found, c, SetType(found.records[c], t)), desc[d].count)
           B2 == IF c <= desc[d].count THEN broken[d] \cup {c} ELSE broken[d]
<1>1. Ok(desc[d], asked[d], reopened[d], broken[d])
  BY DEF Inv
<1>2. Ok(D2, asked[d], reopened[d], B2)
  BY <1>1, PutFails
<1>3. desc' = [desc EXCEPT ![d] = D2] /\ broken' = [broken EXCEPT ![d] = B2]
  BY DEF BindFails
<1>4. /\ asked' = [asked EXCEPT ![d] = asked[d]]
      /\ reopened' = [reopened EXCEPT ![d] = reopened[d]]
      /\ dressed' \in [Desc -> BOOLEAN]
  BY DEF BindFails, Inv
<1> HIDE DEF D2, B2
<1>5. Becomes(d, D2, asked[d], reopened[d], B2)
  BY <1>3, <1>4 DEF Becomes
<1> QED BY <1>2, <1>5, OneDescriptor

\* SQLSetDescField of the count, and SQLFreeStmt(SQL_UNBIND).
LEMMA SetDescCountKeeps ==
    ASSUME ColumnBindingAssumption, Inv, NEW d \in Desc, NEW n \in 0..MaxColumn,
           SetDescCount(d, n), dressed' \in [Desc -> BOOLEAN]
    PROVE  Inv'
<1>1. Ok(desc[d], asked[d], reopened[d], broken[d])
  BY DEF Inv
<1> DEFINE D2 == SetCount(desc[d], n)
           A2 == [k \in Column |-> IF k > n THEN BlankRecord ELSE asked[d][k]]
           R2 == (reopened[d] \cap 1..n) \cup (desc[d].count + 1)..n
           B2 == broken[d] \cap 1..n
<1>2. Ok(D2, A2, R2, B2)
  BY <1>1, Count
<1>3. /\ desc' = [desc EXCEPT ![d] = D2] /\ asked' = [asked EXCEPT ![d] = A2]
      /\ reopened' = [reopened EXCEPT ![d] = R2] /\ broken' = [broken EXCEPT ![d] = B2]
  BY DEF SetDescCount
<1> HIDE DEF D2, A2, R2, B2
<1>4. Becomes(d, D2, A2, R2, B2)
  BY <1>3 DEF Becomes
<1> QED BY <1>2, <1>4, OneDescriptor

\* SQLBindCol with two null pointers.
LEMMA UnbindKeeps ==
    ASSUME ColumnBindingAssumption, Inv, NEW d \in Desc, NEW c \in Column, Unbind(d, c)
    PROVE  Inv'
<1> DEFINE n == desc[d].count
           h == HighestLeft(d, c)
           D1 == IF c > 1 THEN GetRecord(desc[d], n, BlankRecord) ELSE desc[d]
           D2 == SetCount(D1, h)
           A2 == [k \in Column |-> IF k > h THEN BlankRecord ELSE asked[d][k]]
           R2 == (reopened[d] \cap 1..h) \cup (D1.count + 1)..h
           B2 == broken[d] \cap 1..h
<1>1. Ok(desc[d], asked[d], reopened[d], broken[d]) /\ n \in 0..MaxColumn /\ n \in Nat
  BY DEF Inv, Ok, Sound, Descr, ColumnBindingAssumption
<1>2. h \in 0..n /\ h \in 0..MaxColumn
  <2>1. h \in 0..n
    BY <1>1, HighestLeftIsLower
  <2> HIDE DEF h, n
  <2> QED BY <1>1, <2>1 DEF ColumnBindingAssumption
<1>3. Ok(D1, asked[d], reopened[d], broken[d]) /\ D1.count = n
  <2>1. Ok(GetRecord(desc[d], n, BlankRecord), asked[d], reopened[d], broken[d])
    BY <1>1, Read
  <2>2. GetRecord(desc[d], n, BlankRecord).count = Larger(n, n)
    BY <1>1, GetRecordKeeps DEF Ok
  <2>3. Larger(n, n) = n
    BY DEF Larger
  <2> QED BY <1>1, <2>1, <2>2, <2>3
<1>4. /\ desc' = [desc EXCEPT ![d] = D2] /\ asked' = [asked EXCEPT ![d] = A2]
      /\ reopened' = [reopened EXCEPT ![d] = reopened[d] \cap 1..h]
      /\ broken' = [broken EXCEPT ![d] = B2] /\ dressed' \in [Desc -> BOOLEAN]
  BY DEF Unbind, Inv
<1> HIDE DEF D1, h
<1>5. Ok(D2, A2, R2, B2)
  BY <1>2, <1>3, Count
<1>6. R2 = reopened[d] \cap 1..h
  <2>1. (D1.count + 1)..h = {}
    <3> HIDE DEF n
    <3> QED BY <1>1, <1>2, <1>3
  <2> QED BY <2>1
<1> HIDE DEF D2, A2, R2, B2
<1>7. Becomes(d, D2, A2, R2, B2)
  BY <1>4, <1>6 DEF Becomes
<1> QED BY <1>5, <1>7, OneDescriptor

\* SQLSetDescField of the type or the size pointer, or of a type refused.
LEMMA SetDescTypeKeeps ==
    ASSUME ColumnBindingAssumption, Inv, NEW d \in Desc, NEW c \in Column,
           NEW t \in Type, SetDescType(d, c, t)
    PROVE  Inv'
<1> DEFINE r == SetType(At(desc[d], c), t)
           a == SetType(asked[d][c], t)
<1>1. /\ GetRecord(desc[d], c, BlankRecord).records[c] = At(desc[d], c)
      /\ At(desc[d], c) \in Record /\ asked[d][c] \in Record
      /\ \/ c \in reopened[d]
         \/ At(desc[d], c) = asked[d][c]
         \/ /\ c \in broken[d] /\ At(desc[d], c).data = Null
            /\ At(desc[d], c).size = asked[d][c].size
  BY Before
<1>2. Writes(d, c, r, a, reopened[d], broken[d])
  BY <1>1 DEF SetDescType, SetDescField, Writes, Inv
<1>3. r \in Record /\ a \in Record
  BY <1>1, SetTypeKeeps
<1>4. c \in reopened[d] \/ r = a \/ (c \in broken[d] /\ r.data = Null /\ r.size = a.size)
  BY <1>1, SetTypeKeeps
<1> HIDE DEF r, a
<1> QED BY <1>2, <1>3, <1>4, WriteKeeps

\* SQLSetDescField of a type that is refused.
LEMMA SetDescTypeFailsKeeps ==
    ASSUME ColumnBindingAssumption, Inv, NEW d \in Desc, NEW c \in Column,
           SetDescTypeFails(d, c)
    PROVE  Inv'
<1> DEFINE r == At(desc[d], c)
           a == asked[d][c]
<1>1. /\ GetRecord(desc[d], c, BlankRecord).records[c] = r
      /\ r \in Record /\ a \in Record
      /\ c \in reopened[d] \/ r = a \/ (c \in broken[d] /\ r.data = Null /\ r.size = a.size)
  BY Before
<1>2. Writes(d, c, r, a, reopened[d], broken[d])
  BY <1>1 DEF SetDescTypeFails, SetDescField, Writes, Inv
<1> HIDE DEF r, a
<1> QED BY <1>1, <1>2, WriteKeeps

\* SQLSetDescField of the pointer to the length and the indicator.
LEMMA SetDescSizePtrKeeps ==
    ASSUME ColumnBindingAssumption, Inv, NEW d \in Desc, NEW c \in Column,
           NEW q \in Pointer, SetDescSizePtr(d, c, q)
    PROVE  Inv'
<1> DEFINE r == [At(desc[d], c) EXCEPT !.size = q]
           a == [asked[d][c] EXCEPT !.size = q]
<1>1. /\ GetRecord(desc[d], c, BlankRecord).records[c] = At(desc[d], c)
      /\ At(desc[d], c) \in Record /\ asked[d][c] \in Record
      /\ \/ c \in reopened[d]
         \/ At(desc[d], c) = asked[d][c]
         \/ /\ c \in broken[d] /\ At(desc[d], c).data = Null
            /\ At(desc[d], c).size = asked[d][c].size
  BY Before
<1>2. Writes(d, c, r, a, reopened[d], broken[d])
  BY <1>1 DEF SetDescSizePtr, SetDescField, Writes, Inv
<1>3. /\ r \in Record /\ a \in Record /\ r.size = q /\ a.size = q
      /\ r.data = At(desc[d], c).data
  BY <1>1 DEF Record
<1>4. c \in reopened[d] \/ r = a \/ (c \in broken[d] /\ r.data = Null /\ r.size = a.size)
  BY <1>1, <1>3
<1> HIDE DEF r, a
<1> QED BY <1>2, <1>3, <1>4, WriteKeeps

\* SQLSetDescField of the data pointer, which mends a broken column.
LEMMA SetDescDataPtrKeeps ==
    ASSUME ColumnBindingAssumption, Inv, NEW d \in Desc, NEW c \in Column,
           NEW p \in Pointer, SetDescDataPtr(d, c, p)
    PROVE  Inv'
<1> DEFINE e == At(desc[d], c)
           b == asked[d][c]
           r == [e EXCEPT !.data = p, !.type = IF c \in broken[d] THEN e.type ELSE @]
           a == [b EXCEPT !.data = p, !.type = IF c \in broken[d] THEN e.type ELSE @]
<1>1. /\ GetRecord(desc[d], c, BlankRecord).records[c] = e
      /\ e \in Record /\ b \in Record
      /\ c \in reopened[d] \/ e = b \/ (c \in broken[d] /\ e.data = Null /\ e.size = b.size)
  BY Before
<1>2. InEffect(d, c) = e
  BY DEF InEffect, At
<1>3. Writes(d, c, r, a, reopened[d], broken[d] \ {c})
  BY <1>1, <1>2 DEF SetDescDataPtr, SetDescField, Writes, Inv
<1> DEFINE s == [e EXCEPT !.data = p]
           z == [b EXCEPT !.data = p]
           t == IF c \in broken[d] THEN s.type ELSE z.type
<1> HIDE DEF e, b
<1>4. /\ s \in Record /\ s = [type |-> e.type, data |-> p, size |-> e.size]
      /\ z \in Record /\ z = [type |-> b.type, data |-> p, size |-> b.size]
  BY <1>1, WithField
<1>5. r = [s EXCEPT !.type = s.type] /\ a = [z EXCEPT !.type = t]
  BY <1>4
<1> HIDE DEF r, a, s, z
<1>6. r \in Record /\ a \in Record
      /\ r = [type |-> s.type, data |-> s.data, size |-> s.size]
      /\ a = [type |-> t, data |-> z.data, size |-> z.size]
  <2>1. s.type \in Type /\ t \in Type
    BY <1>4 DEF Record
  <2> HIDE DEF t
  <2> QED BY <1>4, <1>5, <2>1, WithField
<1>7. c \in reopened[d] \/ r = a
  <2>1. c \in reopened[d] \/ e = b \/ (c \in broken[d] /\ e.size = b.size)
    BY <1>1
  <2> QED BY <1>4, <1>6, <2>1
<1> QED BY <1>3, <1>6, <1>7, WriteKeeps

\* SQLCopyDesc.
LEMMA CopyDescKeeps ==
    ASSUME Inv, NEW source \in Desc, NEW d \in Desc, CopyDesc(source, d)
    PROVE  Inv'
<1>1. Ok(desc[source], asked[source], reopened[source], broken[source])
  BY DEF Inv
<1>2. Becomes(d, desc[source], asked[source], reopened[source], broken[source])
  BY DEF CopyDesc, Becomes, Inv
<1> QED BY <1>1, <1>2, OneDescriptor

\* The initial descriptors are in order: nothing is bound.
LEMMA InitIsInOrder == ColumnBindingAssumption /\ Init => Inv
<1> SUFFICES ASSUME ColumnBindingAssumption, Init PROVE Inv
  OBVIOUS
<1> DEFINE D == NewDescriptor
           A == [c \in Column |-> BlankRecord]
<1>1. D.count = 0 /\ D.records = <<>> /\ D = [count |-> 0, records |-> <<>>]
  BY DEF NewDescriptor
<1>2. <<>> \in Seq(Record) /\ Len(<<>>) = 0
  BY EmptySeq
<1>3. MaxColumn \in Nat
  BY DEF ColumnBindingAssumption
<1>4. D \in Descr /\ Len(D.records) <= MaxColumn
  BY <1>1, <1>2, <1>3 DEF Descr
<1>5. A \in [Column -> Record] /\ \A c \in Column : A[c] = BlankRecord
  BY BlankIsRecord
<1>6. \A c \in Column : At(D, c) = BlankRecord
  <2>1. TAKE c \in Column
  <2>2. ~(c <= 0)
    BY <1>3 DEF Column
  <2>3. ~(c <= D.count)
    BY <1>1, <2>2
  <2> QED BY <2>3 DEF At, RecordAt
<1> HIDE DEF D, A
<1>7. Ok(D, A, {}, {})
  <2>1. \A c \in Column : Claim(D, A, {}, {}, c)
    BY <1>5, <1>6 DEF Claim
  <2>2. \A c \in Column : Past(D, A, {}, {}, c)
    BY <1>5 DEF Past
  <2> QED BY <1>4, <1>5, <2>1, <2>2 DEF Ok, Sound
<1>8. /\ desc = [d \in Desc |-> D] /\ asked = [d \in Desc |-> A]
      /\ reopened = [d \in Desc |-> {}] /\ broken = [d \in Desc |-> {}]
      /\ dressed = [d \in Desc |-> FALSE]
  BY DEF Init, D, A
<1> QED BY <1>4, <1>5, <1>7, <1>8 DEF Inv

\* Every call keeps the invariant.
LEMMA NextKeeps == ColumnBindingAssumption /\ Inv /\ [Next]_vars => Inv'
<1> SUFFICES ASSUME ColumnBindingAssumption, Inv, [Next]_vars PROVE Inv'
  OBVIOUS
<1>1. CASE UNCHANGED vars
  BY <1>1 DEF vars, Inv
<1>2. CASE Next
  <2>1. PICK d \in Desc, c \in Column :
          \/ Unbind(d, c)
          \/ \E type \in Type, data, size \in Pointer :
                \/ Bind(d, c, type, data, size)
                \/ BindFails(d, c, type, data, size)
                \/ SetDescRec(d, c, type, data, size)
          \/ ResetColBindings(d)
          \/ \E n \in 0..MaxColumn : RaiseOrLowerCount(d, n)
          \/ \E type \in Type : SetDescType(d, c, type)
          \/ SetDescTypeFails(d, c)
          \/ \E p \in Pointer : SetDescDataPtr(d, c, p) \/ SetDescSizePtr(d, c, p)
          \/ \E source \in Desc : CopyDesc(source, d)
          \/ ReadRecord(d, c)
          \/ GetData(d, c)
    BY <1>2, Zenon DEF Next
  <2>2. CASE Unbind(d, c)
    BY <2>2, UnbindKeeps
  <2>3. CASE \E type \in Type, data, size \in Pointer :
                \/ Bind(d, c, type, data, size)
                \/ BindFails(d, c, type, data, size)
                \/ SetDescRec(d, c, type, data, size)
    BY <2>3, BindKeeps, BindFailsKeeps
  <2>4. CASE ResetColBindings(d)
    <3>1. SetDescCount(d, 0) /\ dressed' \in [Desc -> BOOLEAN]
      BY <2>4 DEF ResetColBindings, Inv
    <3>2. 0 \in 0..MaxColumn
      BY DEF ColumnBindingAssumption
    <3> QED BY <3>1, <3>2, SetDescCountKeeps
  <2>5. CASE \E n \in 0..MaxColumn : RaiseOrLowerCount(d, n)
    <3>1. PICK n \in 0..MaxColumn : RaiseOrLowerCount(d, n)
      BY <2>5
    <3>2. SetDescCount(d, n) /\ dressed' \in [Desc -> BOOLEAN]
      BY <3>1 DEF RaiseOrLowerCount, Inv
    <3> QED BY <3>2, SetDescCountKeeps
  <2>6. CASE \E type \in Type : SetDescType(d, c, type)
    BY <2>6, SetDescTypeKeeps
  <2>7. CASE SetDescTypeFails(d, c)
    BY <2>7, SetDescTypeFailsKeeps
  <2>8. CASE \E p \in Pointer : SetDescDataPtr(d, c, p) \/ SetDescSizePtr(d, c, p)
    BY <2>8, SetDescDataPtrKeeps, SetDescSizePtrKeeps
  <2>9. CASE \E source \in Desc : CopyDesc(source, d)
    BY <2>9, CopyDescKeeps
  <2>10. CASE ReadRecord(d, c) \/ GetData(d, c)
    BY <2>10, ReadRecordKeeps
  <2> QED BY <2>1, <2>2, <2>3, <2>4, <2>5, <2>6, <2>7, <2>8, <2>9, <2>10
<1> QED BY <1>1, <1>2
-----------------------------------------------------------------------------
(* The count.  A column at the count whose SQLBindCol failed is not bound  *)
(* any more: until it is bound again it is one of the broken ones.         *)
Top(D, B, u) ==
    ~u /\ D.count > 0 => D.count \in B \/ IsBound(At(D, D.count))

TopBound == \A d \in Desc : Top(desc[d], broken[d], dressed[d])

\* The claim of one descriptor is enough when it alone changes.
LEMMA OneTop ==
    ASSUME Inv, TopBound, NEW d \in Desc, NEW D2, NEW B2, NEW u2, Top(D2, B2, u2),
           desc' = [desc EXCEPT ![d] = D2], broken' = [broken EXCEPT ![d] = B2],
           dressed' = [dressed EXCEPT ![d] = u2]
    PROVE  TopBound'
<1>1. ASSUME NEW e \in Desc PROVE Top(desc'[e], broken'[e], dressed'[e])
  <2>1. CASE e = d
    BY <2>1 DEF Inv
  <2>2. CASE e # d
    BY <2>2 DEF Inv, TopBound
  <2> QED BY <2>1, <2>2
<1> QED BY <1>1 DEF TopBound

\* A descriptor written to as a descriptor makes no claim.
LEMMA DressedTop ==
    ASSUME Inv, TopBound, NEW d \in Desc, NEW D2, NEW B2,
           desc' = [desc EXCEPT ![d] = D2], broken' = [broken EXCEPT ![d] = B2],
           dressed' = [dressed EXCEPT ![d] = TRUE]
    PROVE  TopBound'
<1>1. Top(D2, B2, TRUE) BY DEF Top
<1> QED BY <1>1, OneTop

\* SQLBindCol: past the count it moves the count to a column it binds, below
\* it leaves the highest alone.
LEMMA BindTop ==
    ASSUME ColumnBindingAssumption, Inv, TopBound, NEW d \in Desc, NEW c \in Column,
           NEW t \in Type, NEW p \in Pointer, NEW q \in Pointer, Bind(d, c, t, p, q)
    PROVE  TopBound'
<1> DEFINE D     == desc[d]
           found == GetRecord(D, c, BlankRecord)
           r     == [type |-> t, data |-> p, size |-> q]
           E     == SetRecord(found, c, r)
           B2    == broken[d] \ {c}
<1>1. /\ Sound(D) /\ D.count \in 0..MaxColumn /\ c \in Nat /\ MaxColumn \in Nat
      /\ D.count \in Nat /\ c \in Column /\ c > 0
  BY DEF Inv, Ok, Sound, Descr, Column, ColumnBindingAssumption
<1>2. r \in Record /\ r.data = p /\ r.size = q BY DEF Record
<1>3. /\ [SetType(found.records[c], t) EXCEPT !.data = p, !.size = q] = r
  <2>1. found.records[c] \in Record BY Before
  <2> HIDE DEF found
  <2> QED BY <2>1, BoundAsAsked
<1>4. /\ desc' = [desc EXCEPT ![d] = E] /\ broken' = [broken EXCEPT ![d] = B2]
      /\ dressed' = [dressed EXCEPT ![d] = dressed[d]]
      /\ ~(p = Null /\ q = Null /\ c >= D.count)
  BY <1>3 DEF Bind, Ask, Inv
<1> HIDE DEF r, found
<1>5. /\ E.count = Larger(D.count, c)
      /\ \A k \in Column : At(E, k) = IF k = c THEN r ELSE At(D, k)
  BY <1>1, <1>2, MakeAndSet DEF found
<1>6. Top(D, broken[d], dressed[d]) BY DEF TopBound
<1> HIDE DEF D, E
<1>7. Top(E, B2, dressed[d])
  <2>1. CASE c >= D.count
    <3>1. E.count = c BY <1>1, <1>5, <2>1 DEF Larger
    <3>2. IsBound(At(E, E.count)) BY <1>1, <1>2, <1>4, <1>5, <2>1, <3>1 DEF IsBound
    <3> QED BY <3>2 DEF Top
  <2>2. CASE ~(c >= D.count)
    <3>1. E.count = D.count /\ D.count # c /\ D.count \in Column
      BY <1>1, <1>5, <2>2 DEF Larger, Column
    <3>2. At(E, E.count) = At(D, D.count) BY <1>5, <3>1
    <3>3. E.count \in B2 <=> D.count \in broken[d] BY <3>1
    <3> QED BY <1>6, <3>1, <3>2, <3>3 DEF Top
  <2> QED BY <2>1, <2>2
<1> QED BY <1>4, <1>7, OneTop

\* SQLBindCol that fails: the count is put back.
LEMMA BindFailsTop ==
    ASSUME ColumnBindingAssumption, Inv, TopBound, NEW d \in Desc, NEW c \in Column,
           NEW t \in Type, NEW p \in Pointer, NEW q \in Pointer, BindFails(d, c, t, p, q)
    PROVE  TopBound'
<1> DEFINE D     == desc[d]
           found == GetRecord(D, c, BlankRecord)
           r     == SetType(found.records[c], t)
           E     == SetRecord(found, c, r)
           G     == SetCount(E, D.count)
           B2    == IF c <= D.count THEN broken[d] \cup {c} ELSE broken[d]
<1>1. /\ Sound(D) /\ D.count \in 0..MaxColumn /\ c \in Nat /\ MaxColumn \in Nat
      /\ D.count \in Nat /\ c \in Column
  BY DEF Inv, Ok, Sound, Descr, Column, ColumnBindingAssumption
<1>2. r \in Record
  <2>1. found.records[c] \in Record BY Before
  <2> HIDE DEF found
  <2> QED BY <2>1, SetTypeKeeps
<1>3. /\ desc' = [desc EXCEPT ![d] = G] /\ broken' = [broken EXCEPT ![d] = B2]
      /\ dressed' = [dressed EXCEPT ![d] = dressed[d]]
  BY DEF BindFails, Inv
<1> HIDE DEF r, found
<1>4. /\ Sound(E) /\ E.count = Larger(D.count, c)
      /\ \A k \in Column : At(E, k) = IF k = c THEN r ELSE At(D, k)
  BY <1>1, <1>2, MakeAndSet DEF found
<1>5. Top(D, broken[d], dressed[d]) BY DEF TopBound
<1>6. D.count <= E.count /\ E.count \in Nat
  BY <1>1, <1>4 DEF Larger
<1> HIDE DEF D, E
<1>7. /\ G.count = D.count
      /\ \A k \in Column : k <= D.count /\ k <= E.count => At(G, k) = At(E, k)
  BY <1>1, <1>4, SetCountCuts
<1> HIDE DEF G
<1>8. Top(G, B2, dressed[d])
  <2> SUFFICES ASSUME ~dressed[d], D.count > 0
               PROVE  D.count \in B2 \/ IsBound(At(G, D.count))
    BY <1>7 DEF Top
  <2>1. D.count \in Column /\ At(G, D.count) = At(E, D.count)
    BY <1>1, <1>6, <1>7 DEF Column
  <2>2. CASE c = D.count
    BY <1>1, <2>2
  <2>3. CASE c # D.count
    BY <1>4, <1>5, <2>1, <2>3 DEF Top
  <2> QED BY <2>2, <2>3
<1> QED BY <1>3, <1>8, OneTop

\* SQLBindCol with two null pointers: the column the count goes down to is
\* bound.
LEMMA UnbindTop ==
    ASSUME ColumnBindingAssumption, Inv, TopBound, NEW d \in Desc, NEW c \in Column,
           Unbind(d, c)
    PROVE  TopBound'
<1> DEFINE D  == desc[d]
           n  == D.count
           h  == HighestLeft(d, c)
           F  == GetRecord(D, n, BlankRecord)
           D1 == IF c > 1 THEN F ELSE D
           m  == Smaller(n + 1, c)
           below == {i \in 1..(m - 1) : i <= F.count /\ IsBound(F.records[i])}
           B2 == broken[d] \cap 1..h
<1>1. /\ Sound(D) /\ n \in 0..MaxColumn /\ n \in Nat /\ MaxColumn \in Nat /\ c \in Nat /\ c > 0
  BY DEF Inv, Ok, Sound, Descr, Column, ColumnBindingAssumption
<1>2. /\ desc' = [desc EXCEPT ![d] = SetCount(D1, h)] /\ broken' = [broken EXCEPT ![d] = B2]
      /\ dressed' = [dressed EXCEPT ![d] = dressed[d]]
  BY DEF Unbind, Inv
<1>3. h = IF below = {} THEN 0 ELSE CHOOSE i \in below : \A j \in below : j <= i
  BY DEF HighestLeft, HighestBelow
<1>4. /\ Sound(F) /\ F.count = n /\ (n # 0 => n \in 1..Len(F.records))
  <2>1. Larger(n, n) = n BY DEF Larger
  <2> HIDE DEF F, n
  <2> QED BY <1>1, <2>1, GetRecordKeeps DEF F, n
<1>5. m - 1 \in Nat /\ m - 1 <= n /\ (c = 1 => m - 1 = 0)
  BY <1>1 DEF Smaller
<1>6. below \subseteq 1..(m - 1) OBVIOUS
<1>7. \A i \in below : i <= F.count /\ IsBound(F.records[i]) OBVIOUS
<1> HIDE DEF h, below, F, m
<1>8. CASE below = {}
  <2>1. h = 0 BY <1>3, <1>8
  <2>2. SetCount(D1, h).count = 0
    <3>1. Sound(D1) BY <1>1, <1>4
    <3> HIDE DEF D1
    <3> QED BY <2>1, <3>1 DEF SetCount, Sound, Descr
  <2> HIDE DEF D1, B2
  <2>3. Top(SetCount(D1, h), B2, dressed[d]) BY <2>2 DEF Top
  <2> QED BY <1>2, <2>3, OneTop
<1>9. CASE below # {}
  <2>1. \E i \in below : \A j \in below : j <= i
    BY <1>5, <1>6, <1>9, Highest
  <2>2. h \in below BY <1>3, <1>9, <2>1
  <2>3. h \in 1..(m - 1) /\ h <= n /\ IsBound(F.records[h]) /\ c > 1
    BY <1>1, <1>4, <1>5, <1>6, <1>7, <2>2
  <2> DEFINE G == SetCount(F, h)
  <2>4. D1 = F BY <2>3
  <2>5. G.count = h /\ G.records = F.records
    BY <1>4 DEF SetCount, Sound, Descr
  <2>6. h <= Len(F.records)
    <3>1. n # 0 BY <1>1, <1>5, <2>3
    <3>2. n <= Len(F.records) /\ Len(F.records) \in Nat
      BY <1>4, <3>1, LenProperties DEF Sound, Descr
    <3> QED BY <1>1, <1>5, <2>3, <3>2
  <2> HIDE DEF G
  <2>7. h <= h BY <1>5, <2>3
  <2>8. At(G, h) = F.records[h] BY <2>5, <2>6, <2>7 DEF At, RecordAt
  <2>9. Top(G, B2, dressed[d]) BY <2>3, <2>5, <2>8 DEF Top
  <2> QED BY <1>2, <2>4, <2>9, OneTop DEF G
<1> QED BY <1>8, <1>9

\* Reading a record that is there moves nothing.
LEMMA ReadRecordTop ==
    ASSUME ColumnBindingAssumption, Inv, TopBound, NEW d \in Desc, NEW c \in Column,
           ReadRecord(d, c)
    PROVE  TopBound'
<1> DEFINE D == desc[d]
           E == GetRecord(D, c, BlankRecord)
<1>1. /\ Sound(D) /\ D.count \in 0..MaxColumn /\ c \in 0..MaxColumn /\ MaxColumn \in Nat
      /\ c <= D.count
  BY DEF Inv, Ok, Sound, Descr, Column, ColumnBindingAssumption, ReadRecord
<1>2. /\ desc' = [desc EXCEPT ![d] = E] /\ broken' = [broken EXCEPT ![d] = broken[d]]
      /\ dressed' = [dressed EXCEPT ![d] = dressed[d]]
  BY DEF ReadRecord, ghosts, Inv
<1> HIDE DEF E, D
<1>3. E.count = Larger(D.count, c) /\ \A k \in Column : At(E, k) = At(D, k)
  BY <1>1, GetRecordKeeps DEF E
<1>4. E.count = D.count BY <1>1, <1>3 DEF Larger
<1>5. Top(D, broken[d], dressed[d]) BY DEF TopBound, D
<1>6. Top(E, broken[d], dressed[d])
  <2>1. D.count > 0 => D.count \in Column BY <1>1 DEF Column
  <2> QED BY <1>3, <1>4, <1>5, <2>1 DEF Top
<1> QED BY <1>2, <1>6, OneTop

LEMMA NextTop == ColumnBindingAssumption /\ Inv /\ TopBound /\ [Next]_vars => TopBound'
<1> SUFFICES ASSUME ColumnBindingAssumption, Inv, TopBound, [Next]_vars PROVE TopBound'
  OBVIOUS
<1>1. CASE UNCHANGED vars
  BY <1>1 DEF vars, TopBound
<1>2. CASE Next
  <2>1. PICK d \in Desc, c \in Column :
          \/ Unbind(d, c)
          \/ \E type \in Type, data, size \in Pointer :
                \/ Bind(d, c, type, data, size)
                \/ BindFails(d, c, type, data, size)
                \/ SetDescRec(d, c, type, data, size)
          \/ ResetColBindings(d)
          \/ \E n \in 0..MaxColumn : RaiseOrLowerCount(d, n)
          \/ \E type \in Type : SetDescType(d, c, type)
          \/ SetDescTypeFails(d, c)
          \/ \E p \in Pointer : SetDescDataPtr(d, c, p) \/ SetDescSizePtr(d, c, p)
          \/ \E source \in Desc : CopyDesc(source, d)
          \/ ReadRecord(d, c)
          \/ GetData(d, c)
    BY <1>2, Zenon DEF Next
  <2>b. broken = [broken EXCEPT ![d] = broken[d]] BY DEF Inv
  <2>2. CASE Unbind(d, c)
    BY <2>2, UnbindTop
  <2>3. ASSUME NEW t \in Type, NEW p \in Pointer, NEW q \in Pointer, SetDescRec(d, c, t, p, q)
        PROVE  TopBound'
    BY <2>3, DressedTop DEF SetDescRec, Ask
  <2>4. CASE ResetColBindings(d)
    <3> DEFINE D2 == SetCount(desc[d], 0)
    <3>1. /\ desc' = [desc EXCEPT ![d] = D2] /\ dressed' = [dressed EXCEPT ![d] = FALSE]
          /\ broken' = [broken EXCEPT ![d] = broken[d] \cap 1..0]
      BY <2>4 DEF ResetColBindings, SetDescCount
    <3>2. D2.count = 0 BY DEF SetCount, Inv, Descr
    <3>3. Top(D2, broken[d] \cap 1..0, FALSE) BY <3>2 DEF Top
    <3> QED BY <3>1, <3>3, OneTop
  <2>5. ASSUME NEW n \in 0..MaxColumn, RaiseOrLowerCount(d, n)
        PROVE  TopBound'
    BY <2>5, DressedTop DEF RaiseOrLowerCount, SetDescCount
  <2>6. ASSUME NEW t \in Type, SetDescType(d, c, t)
        PROVE  TopBound'
    BY <2>6, <2>b, DressedTop DEF SetDescType, SetDescField
  <2>7. CASE SetDescTypeFails(d, c)
    BY <2>7, <2>b, DressedTop DEF SetDescTypeFails, SetDescField
  <2>8. ASSUME NEW p \in Pointer, SetDescDataPtr(d, c, p) \/ SetDescSizePtr(d, c, p)
        PROVE  TopBound'
    BY <2>8, <2>b, DressedTop DEF SetDescDataPtr, SetDescSizePtr, SetDescField
  <2>9. ASSUME NEW source \in Desc, CopyDesc(source, d)
        PROVE  TopBound'
    <3>1. Top(desc[source], broken[source], dressed[source]) BY DEF TopBound
    <3> QED BY <2>9, <3>1, OneTop DEF CopyDesc
  <2>10. CASE ReadRecord(d, c)
    BY <2>10, ReadRecordTop
  <2>11. CASE GetData(d, c)
    BY <2>11, <2>b, DressedTop DEF GetData
  <2> QED BY <2>1, <2>2, <2>3, <2>4, <2>5, <2>6, <2>7, <2>8, <2>9, <2>10, <2>11,
             BindTop, BindFailsTop
<1> QED BY <1>1, <1>2
-----------------------------------------------------------------------------
(* The theorems.                                                           *)

\* The invariant holds of every behaviour.
THEOREM Invariance == Spec => []Inv
<1>1. ColumnBindingAssumption
  BY ColumnBindingAssumption
<1>2. Init => Inv
  BY <1>1, InitIsInOrder
<1>3. Inv /\ [Next]_vars => Inv'
  BY <1>1, NextKeeps
<1> QED BY <1>2, <1>3, PTL DEF Spec

\* The descriptors stay within their columns, whatever is bound and unbound.
THEOREM TypeCorrect == Spec => []TypeOK
<1>1. Inv => TypeOK
  BY DEF Inv, TypeOK, Ok, Sound, Descr
<1> QED BY <1>1, Invariance, PTL

\* A fetch writes to the buffers the application asked for, as the types it
\* gave, and a failed SQLBindCol costs at most the binding it was to replace.
THEOREM WritesWhereAskedHolds == Spec => []WritesWhereAsked
<1>1. Inv => WritesWhereAsked
  BY DEF Inv, WritesWhereAsked, Ok, Claim, At, InEffect
<1> QED BY <1>1, Invariance, PTL

\* However columns are bound, unbound and failed to be bound, in any order, a
\* descriptor used for nothing else has its count at a bound column.
THEOREM CountIsHighest == Spec => []CountIsHighestBound
<1>1. ColumnBindingAssumption
  BY ColumnBindingAssumption
<1>2. Init => TopBound
  BY DEF Init, TopBound, Top, NewDescriptor
<1>3. Inv /\ TopBound /\ [Next]_vars => TopBound'
  BY <1>1, NextTop
<1>4. TopBound => CountIsHighestBound
  BY DEF TopBound, Top, CountIsHighestBound, InEffect, At
<1> QED BY <1>2, <1>3, <1>4, Invariance, PTL DEF Spec
=============================================================================
