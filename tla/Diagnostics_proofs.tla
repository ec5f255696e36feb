------------------------- MODULE Diagnostics_proofs -------------------------
(***************************************************************************)
(* The diagnostics of every object are those of its own last call, for any *)
(* number of handles and errors.  The invariant says how calls nest: a     *)
(* visit is innermost, the only other nested call is that of a connection  *)
(* on a statement, so no object is in two calls with diagnostics; and that *)
(* an object in such a call shows nothing yet.                             *)
(***************************************************************************)
EXTENDS Diagnostics, SequenceTheorems, TLAPS

Record == State \cup {None}

\* A visit is innermost, an error handed up waits there, and only the
\* outermost object may be gone.
NestedAt(i) ==
    LET call == frames[i]
    IN  /\ call.skip => i # 1 /\ i = Len(frames) /\ call.handle \in Descriptor
        /\ ~call.skip /\ i # 1 =>
              i = 2 /\ call.handle \in Statement /\ frames[1].handle \in Connection
        /\ call.ex # None => i = Len(frames) /\ ~call.skip
        /\ call.handle \notin alive =>
              i = 1 /\ Len(frames) = 1 /\ call.handle \in Statement

Nested == \A i \in 1..Len(frames) : NestedAt(i)

\* An object in a call shows nothing before the call ends.
Quiet ==
    \A i \in 1..Len(frames) : ~frames[i].skip => diag[frames[i].handle].number = 0

OwedAtTop == owed # None => frames # <<>> /\ Top.ex = owed

Inv == TypeOK /\ Nested /\ Quiet /\ OwedAtTop

Sound(d) == d \in Container /\ d.number <= Len(d.records) /\ d.number <= 1

-----------------------------------------------------------------------------
(* The container.                                                           *)

\* A new container shows nothing, and a reset one neither.
LEMMA NewContainerSound ==
    ASSUME DiagnosticsAssumption
    PROVE  Sound(NewContainer) /\ NewContainer.number = 0 /\ Visible(NewContainer) = <<>>
<1>1. <<>> \in Seq(Record) /\ Len(<<>>) = 0
  BY EmptySeq
<1>2. NewContainer \in Container /\ NewContainer.records = <<>> /\ NewContainer.number = 0
  BY <1>1 DEF NewContainer, Container, Record, DiagnosticsAssumption
<1>3. Visible(NewContainer) = <<>>
  BY <1>2, SubSeqEmpty DEF Visible
<1> QED BY <1>1, <1>2, <1>3 DEF Sound

\* A reset keeps the old records but shows none.
LEMMA ResetSound ==
    ASSUME DiagnosticsAssumption, NEW d, Sound(d)
    PROVE  /\ Sound(ResetDiag(d)) /\ ResetDiag(d).number = 0
           /\ ResetDiag(d).code = "SUCCESS" /\ Visible(ResetDiag(d)) = <<>>
<1>1. /\ ResetDiag(d) \in Container /\ ResetDiag(d).number = 0
      /\ ResetDiag(d).code = "SUCCESS" /\ ResetDiag(d).records = d.records
  BY DEF ResetDiag, Sound, Container, DiagnosticsAssumption
<1>2. Visible(ResetDiag(d)) = <<>>
  BY <1>1, SubSeqEmpty DEF Visible
<1>3. Len(d.records) \in Nat
  BY DEF Sound, Container
<1> QED BY <1>1, <1>2, <1>3 DEF Sound

\* A return code is stored beside the records.
LEMMA SetReturnCodeSound ==
    ASSUME NEW d, Sound(d), NEW code \in ReturnCode
    PROVE  /\ Sound(SetReturnCode(d, code)) /\ SetReturnCode(d, code).number = d.number
           /\ SetReturnCode(d, code).code = code
           /\ Visible(SetReturnCode(d, code)) = Visible(d)
<1>1. /\ SetReturnCode(d, code) \in Container
      /\ SetReturnCode(d, code).number = d.number
      /\ SetReturnCode(d, code).code = code
      /\ SetReturnCode(d, code).records = d.records
  BY DEF SetReturnCode, Sound, Container
<1> QED BY <1>1 DEF Sound, Visible

\* A container without records shows, once filled, the error and only it,
\* whatever its vector held.
LEMMA FillSound ==
    ASSUME NEW d, Sound(d), d.number = 0, NEW code \in ReturnCode, NEW state \in State
    PROVE  /\ Sound(FillDiag(d, code, state))
           /\ FillDiag(d, code, state).code = code
           /\ Visible(FillDiag(d, code, state)) = <<state>>
<1> DEFINE e == SetReturnCode(d, code)
           g == GetDiagStatus(e, 1)
           f == FillDiag(d, code, state)
           n == Larger(Len(e.records), 1)
<1>1. Sound(e) /\ e.number = 0 /\ e.code = code
  BY SetReturnCodeSound
<1>2. e.records \in Seq(Record) /\ Len(e.records) \in Nat
  BY <1>1 DEF Sound, Container, Record
<1>3. n \in Nat /\ n >= 1
  BY <1>2 DEF Larger
<1>4. \A i \in 1..n : (IF i <= Len(e.records) /\ i \notin (e.number + 1)..1
                      THEN e.records[i] ELSE None) \in Record
  BY <1>1, <1>2, <1>3, ElementOfSeq DEF Record
<1>5. /\ g.records \in [1..n -> Record] /\ g.number = 1 /\ g.code = code
      /\ g = [records |-> g.records, number |-> g.number, code |-> g.code]
  <2> DEFINE r == [i \in 1..n |-> IF i <= Len(e.records) /\ i \notin (e.number + 1)..1
                                  THEN e.records[i] ELSE None]
             m == Larger(e.number, 1)
  <2>1. r \in [1..n -> Record] /\ m = 1
    BY <1>1, <1>4 DEF Larger
  <2>2. g = [e EXCEPT !.records = r, !.number = m]
    BY DEF GetDiagStatus
  <2>3. e = [records |-> e.records, number |-> e.number, code |-> e.code]
    BY <1>1 DEF Sound, Container
  <2> HIDE DEF r, m, n, e, g
  <2>4. g = [records |-> r, number |-> m, code |-> e.code]
    BY <2>2, <2>3
  <2> QED BY <1>1, <2>1, <2>4
<1>6. f = [g EXCEPT !.records[1] = state]
  BY <1>1 DEF FillDiag, InsertDiagStatus
<1> HIDE DEF g, f, e, n
<1>7. /\ f.records \in [1..n -> Record] /\ f.records[1] = state
      /\ f.number = 1 /\ f.code = code
      /\ f = [records |-> f.records, number |-> f.number, code |-> f.code]
  <2> DEFINE r == [g.records EXCEPT ![1] = state]
  <2>1. r \in [1..n -> Record] /\ r[1] = state
    BY <1>3, <1>5 DEF Record
  <2>2. f = [g EXCEPT !.records = r]
    BY <1>6
  <2> HIDE DEF r
  <2>3. f = [records |-> r, number |-> g.number, code |-> g.code]
    BY <1>5, <2>2
  <2> QED BY <1>5, <2>1, <2>3
<1>8. f.records \in Seq(Record) /\ Len(f.records) = n
  <2>1. f.records \in Seq(Record)
    BY <1>3, <1>7, SeqDef
  <2> DEFINE r == f.records
  <2> HIDE DEF r
  <2>2. r \in Seq(Record) => Len(r) \in Nat /\ DOMAIN r = 1..Len(r)
    BY LenProperties
  <2>3. DOMAIN r = 1..n
    BY <1>7 DEF r
  <2> QED BY <1>3, <2>1, <2>2, <2>3 DEF r
<1>9. Visible(f) = <<state>>
  <2> DEFINE r == f.records
  <2>1. Visible(f) = SubSeq(r, 1, 1)
    BY <1>7 DEF Visible
  <2>2. \A i \in 1..1 : r[i] \in Record
    BY <1>7 DEF Record
  <2> HIDE DEF r
  <2>3. /\ SubSeq(r, 1, 1) \in Seq(Record) /\ Len(SubSeq(r, 1, 1)) = 1
        /\ SubSeq(r, 1, 1)[1] = r[1]
    BY <2>2, SubSeqProperties
  <2>4. SubSeq(r, 1, 1) = <<r[1]>>
    <3> DEFINE t == <<r[1]>>
    <3>1. t \in Seq(Record) /\ Len(t) = 1 /\ t[1] = r[1]
      BY <2>2
    <3> HIDE DEF t
    <3>2. SubSeq(r, 1, 1) = t
      BY <2>3, <3>1, SeqEqual
    <3> QED BY <3>2 DEF t
  <2> QED BY <1>7, <2>1, <2>4 DEF r
<1>10. f \in Container
  BY <1>7, <1>8 DEF Container, Record
<1> QED BY <1>3, <1>7, <1>8, <1>9, <1>10 DEF Sound, f

\* Reading a record that is there changes nothing.
LEMMA ReadKeeps ==
    ASSUME NEW d, Sound(d), NEW num \in 0..1, num <= d.number
    PROVE  GetDiagStatus(d, num) = d
<1>1. d.records \in Seq(Record) /\ Len(d.records) \in Nat /\ d.number \in Nat
  BY DEF Sound, Container, Record
<1>2. Larger(Len(d.records), num) = Len(d.records) /\ Larger(d.number, num) = d.number
  BY <1>1 DEF Larger, Sound
<1>3. d.records = [i \in 1..Len(d.records) |-> d.records[i]]
  <2> DEFINE r == d.records
  <2> HIDE DEF r
  <2>1. r \in Seq(Record) => r = [i \in 1..Len(r) |-> r[i]]
    BY LenProperties
  <2> QED BY <1>1, <2>1 DEF r
<1>4. [i \in 1..Larger(Len(d.records), num) |->
          IF i <= Len(d.records) /\ i \notin (d.number + 1)..num THEN d.records[i] ELSE None]
      = [i \in 1..Len(d.records) |-> d.records[i]]
  BY <1>1, <1>2 DEF Sound
<1> QED BY <1>2, <1>3, <1>4 DEF GetDiagStatus, Sound, Container

-----------------------------------------------------------------------------
(* The calls in progress.                                                   *)

Typed ==
    /\ alive \in SUBSET Handle /\ Connection \subseteq alive
    /\ \A h \in Handle : Sound(diag[h])
    /\ diag = [h \in Handle |-> diag[h]]
    /\ frames \in Seq(Frame)
    /\ owed \in State \cup {None}

\* The type invariant, container by container.
LEMMA TypedIsTypeOK == TypeOK <=> Typed
  BY DEF TypeOK, Typed, Sound

\* The objects of the calls in progress.
LEMMA FramesTyped ==
    ASSUME Typed
    PROVE  \A i \in 1..Len(frames) : frames[i].handle \in Handle
<1>1. \A i \in 1..Len(frames) : frames[i] \in Frame
  BY ElementOfSeq DEF Typed
<1> QED BY <1>1 DEF Frame

\* What the innermost call can be.
LEMMA TopProperties ==
    ASSUME DiagnosticsAssumption, Typed, Nested, ~Idle
    PROVE  /\ Len(frames) \in Nat /\ Len(frames) >= 1
           /\ Top \in Frame /\ Top = frames[Len(frames)]
           /\ Top.skip \in BOOLEAN
           /\ Top.handle \in Connection => Len(frames) = 1
<1>1. Len(frames) \in Nat /\ frames # <<>> /\ Len(frames) >= 1
  BY EmptySeq DEF Typed, Idle
<1>2. Top \in Frame /\ Top = frames[Len(frames)]
  BY <1>1, ElementOfSeq DEF Typed, Top
<1>3. Top.skip \in BOOLEAN
  BY <1>2 DEF Frame
<1>4. Len(frames) \in 1..Len(frames)
  BY <1>1
<1>5. NestedAt(Len(frames))
  BY <1>4 DEF Nested
<1>6. Top.handle \in Connection => Len(frames) = 1
  BY <1>2, <1>3, <1>5 DEF NestedAt, DiagnosticsAssumption
<1> QED BY <1>1, <1>2, <1>3, <1>6, Zenon

\* No object is in two calls with diagnostics of its own.
LEMMA Distinct ==
    ASSUME DiagnosticsAssumption, Typed, Nested,
           NEW i \in 1..Len(frames), NEW j \in 1..Len(frames), i # j,
           ~frames[i].skip, ~frames[j].skip
    PROVE  frames[i].handle # frames[j].handle
  BY DEF Nested, NestedAt, DiagnosticsAssumption

\* A call on a live object, inside a live one that has no error to hand up,
\* keeps the nesting.
LEMMA Pushed ==
    ASSUME DiagnosticsAssumption, Typed, Nested, NEW h \in alive, NEW skip \in BOOLEAN,
           frames' = Append(frames, [handle |-> h, skip |-> skip, ex |-> None]),
           alive' = alive,
           \/ Idle /\ skip = FALSE
           \/ In(Connection) /\ h \in Statement /\ skip = FALSE
           \/ In(Statement \cup Descriptor) /\ h \in Descriptor /\ skip = TRUE
    PROVE  /\ frames' \in Seq(Frame) /\ Len(frames') = Len(frames) + 1
           /\ \A i \in 1..Len(frames) : frames'[i] = frames[i]
           /\ frames'[Len(frames) + 1] = [handle |-> h, skip |-> skip, ex |-> None]
           /\ Nested'
<1> DEFINE f == [handle |-> h, skip |-> skip, ex |-> None]
           n == Len(frames)
<1>1. f \in Frame
  BY DEF Frame, Typed
<1>2. n \in Nat /\ frames \in Seq(Frame)
  BY DEF Typed
<1>3. /\ frames' \in Seq(Frame) /\ Len(frames') = n + 1
      /\ \A i \in 1..n : frames'[i] = frames[i]
      /\ frames'[n + 1] = f
  BY <1>1, <1>2, AppendProperties
<1>4. ASSUME NEW i \in 1..n PROVE NestedAt(i)'
  <2>1. frames'[i] = frames[i] /\ frames'[1] = frames[1] /\ NestedAt(i)
    BY <1>2, <1>3 DEF Nested
  <2>2. ~Idle
    BY <1>2, EmptySeq DEF Idle
  <2>3. Top = frames[n] /\ Top.skip = FALSE /\ Top.ex = None /\ Top.handle \in alive
    BY <2>2, TopProperties DEF In
  <2>4. i # n => frames[i].handle \in alive \/ n = 1
    BY <2>1 DEF NestedAt
  <2>5. ~frames[i].skip /\ frames[i].ex = None /\ frames[i].handle \in alive
    BY <1>2, <2>1, <2>3, <2>4 DEF NestedAt
  <2> QED BY <2>1, <2>5 DEF NestedAt
<1>5. ASSUME NEW k \in Nat, k = n + 1 PROVE NestedAt(k)'
  <2> DEFINE top == frames'[k]
  <2>4. top.handle = h /\ top.skip = skip /\ top.ex = None /\ top.handle \in alive'
    BY <1>3, <1>5
  <2>5. Len(frames') = n + 1 /\ \A i \in 1..n : frames'[i] = frames[i]
    BY <1>3
  <2> HIDE DEF f
  <2>1. CASE Idle /\ skip = FALSE
    <3>1. n = 0
      BY <2>1, EmptySeq DEF Idle
    <3> QED BY <1>5, <2>1, <2>4, <2>5, <3>1 DEF NestedAt
  <2>2. CASE In(Connection) /\ h \in Statement /\ skip = FALSE
    <3>1. Top.handle \in Connection /\ ~Idle
      BY <2>2 DEF In
    <3>2. n = 1 /\ frames[1].handle \in Connection
      BY <3>1, TopProperties
    <3> QED BY <1>5, <2>2, <2>4, <2>5, <3>2 DEF NestedAt
  <2>3. CASE In(Statement \cup Descriptor) /\ h \in Descriptor /\ skip = TRUE
    <3>1. n >= 1
      BY <2>3, TopProperties DEF In
    <3> QED BY <1>2, <1>5, <2>3, <2>4, <2>5, <3>1 DEF NestedAt
  <2> QED BY <2>1, <2>2, <2>3
<1> QED BY <1>2, <1>3, <1>4, <1>5 DEF Nested
\* The innermost call ends, perhaps handing an error to its caller, which is
\* then innermost and not a visit.
LEMMA Popped ==
    ASSUME DiagnosticsAssumption, Typed, Nested, ~Idle, NEW up \in Seq(Frame),
           Len(up) = Len(frames),
           \A i \in 1..(Len(frames) - 1) :
              /\ up[i].handle = frames[i].handle /\ up[i].skip = frames[i].skip
              /\ up[i].ex = frames[i].ex \/ i = Len(frames) - 1,
           frames' = SubSeq(up, 1, Len(frames) - 1),
           alive' = alive
    PROVE  /\ frames' \in Seq(Frame) /\ Len(frames') = Len(frames) - 1
           /\ \A i \in 1..(Len(frames) - 1) : frames'[i] = up[i] /\ ~frames[i].skip
           /\ Nested'
<1> DEFINE n == Len(frames)
           m == Len(frames) - 1
<1>1. m \in Nat /\ n = m + 1
  BY TopProperties
<1>2. \A i \in 1..m : up[i] \in Frame
  BY <1>1, ElementOfSeq
<1>3. frames' \in Seq(Frame) /\ Len(frames') = m /\ \A i \in 1..m : frames'[i] = up[i]
  BY <1>1, <1>2, SubSeqProperties
<1>4. ASSUME NEW i \in 1..m
      PROVE  ~frames[i].skip /\ NestedAt(i)'
  <2>1. i \in 1..n /\ i # n /\ 1 \in 1..m
    BY <1>1
  <2>2. NestedAt(i)
    BY <2>1 DEF Nested
  <2>3. /\ ~frames[i].skip
        /\ i # 1 => i = 2 /\ frames[i].handle \in Statement /\ frames[1].handle \in Connection
        /\ frames[i].ex = None /\ frames[i].handle \in alive
    BY <1>1, <2>1, <2>2 DEF NestedAt
  <2>4. /\ frames'[i].handle = frames[i].handle /\ frames'[1].handle = frames[1].handle
        /\ frames'[i].skip = frames[i].skip /\ (frames'[i].ex = None \/ i = Len(frames'))
    BY <1>3, <2>1, <2>3
  <2>5. ~frames'[i].skip
    BY <2>3, <2>4, Zenon
  <2> QED BY <2>3, <2>4, <2>5 DEF NestedAt
<1> QED BY <1>1, <1>3, <1>4 DEF Nested

\* One container changes.
LEMMA Updated ==
    ASSUME Typed, NEW h \in Handle, NEW c, Sound(c), diag' = [diag EXCEPT ![h] = c]
    PROVE  /\ \A g \in Handle : Sound(diag'[g])
           /\ \A g \in Handle : diag'[g] = IF g = h THEN c ELSE diag[g]
           /\ diag' = [g \in Handle |-> diag'[g]]
           /\ Report' = [Report EXCEPT ![h] = [code |-> c.code, states |-> Visible(c)]]
<1>1. diag = [g \in Handle |-> diag[g]]
  BY DEF Typed
<1>2. \A g \in Handle : diag'[g] = IF g = h THEN c ELSE diag[g]
  BY <1>1
<1>3. diag' = [g \in Handle |-> diag'[g]]
  BY <1>1
<1>4. \A g \in Handle : Sound(diag'[g])
  BY <1>2 DEF Typed
<1>5. Report' = [Report EXCEPT ![h] = [code |-> c.code, states |-> Visible(c)]]
  <2> DEFINE Shown(d) == [code |-> d.code, states |-> Visible(d)]
  <2>1. Report = [g \in Handle |-> Shown(diag[g])]
    BY DEF Report
  <2>2. Report' = [g \in Handle |-> Shown(diag'[g])]
    BY DEF Report, Visible
  <2> HIDE DEF Shown
  <2>3. Report' = [g \in Handle |-> IF g = h THEN Shown(c) ELSE Shown(diag[g])]
    BY <1>2, <2>2
  <2>4. Report' = [Report EXCEPT ![h] = Shown(c)]
    BY <2>1, <2>3
  <2> QED BY <2>4 DEF Shown
<1> QED BY <1>2, <1>3, <1>4, <1>5
-----------------------------------------------------------------------------
(* Each action keeps the invariant and is a step of the reports, or none.   *)

Good == Typed /\ Nested /\ Quiet /\ OwedAtTop
Reported == [Reports!Next]_(Reports!vars)

\* The invariant with the type invariant in that form.
LEMMA GoodIsInv == Inv <=> Good
  BY TypedIsTypeOK DEF Inv, Good

\* An object with a call of its own in progress begins a new report.
LEMMA EnterStep ==
    ASSUME DiagnosticsAssumption, Good, NEW h \in Handle, NEW skip \in BOOLEAN,
           Enter(h, skip),
           \/ Idle /\ skip = FALSE
           \/ In(Connection) /\ h \in Statement /\ skip = FALSE
           \/ In(Statement \cup Descriptor) /\ h \in Descriptor /\ skip = TRUE
    PROVE  Good' /\ Reported
<1> DEFINE n == Len(frames)
<1>1. /\ h \in alive /\ alive' = alive /\ owed' = owed
      /\ frames' = Append(frames, [handle |-> h, skip |-> skip, ex |-> None])
      /\ diag' = IF skip THEN diag ELSE [diag EXCEPT ![h] = ResetDiag(@)]
  BY DEF Enter
<1>2. Typed /\ Nested /\ Quiet /\ OwedAtTop /\ n \in Nat /\ alive \subseteq Handle
  BY DEF Good, Typed
<1>3. /\ frames' \in Seq(Frame) /\ Len(frames') = n + 1
      /\ \A i \in 1..n : frames'[i] = frames[i]
      /\ frames'[n + 1] = [handle |-> h, skip |-> skip, ex |-> None]
      /\ Nested'
  BY <1>1, <1>2, Pushed
<1>4. owed = None /\ OwedAtTop'
  BY <1>1, <1>2 DEF OwedAtTop, In, Idle
<1>5. CASE skip = TRUE
  <2>1. diag' = diag
    BY <1>1, <1>5
  <2>2. frames'[n + 1].skip = TRUE
    BY <1>3, <1>5
  <2>3. Typed'
    BY <1>1, <1>2, <1>3, <2>1 DEF Typed, Sound
  <2>4. Quiet'
    BY <1>2, <1>3, <2>1, <2>2 DEF Quiet
  <2>5. Report' = Report
    BY <2>1 DEF Report, Visible
  <2>6. Active' = Active
    BY <1>1, <1>2, <1>3, <2>2 DEF Active
  <2> QED BY <1>3, <1>4, <2>3, <2>4, <2>5, <2>6 DEF Good, Reported, Reports!vars
<1>6. CASE skip = FALSE
  <2> DEFINE c == ResetDiag(diag[h])
  <2>1. /\ Sound(c) /\ c.number = 0 /\ c.code = "SUCCESS" /\ Visible(c) = <<>>
    BY <1>2, ResetSound DEF Typed
  <2>2. diag' = [diag EXCEPT ![h] = c]
    BY <1>1, <1>6
  <2> HIDE DEF c
  <2>3. /\ \A g \in Handle : Sound(diag'[g])
        /\ \A g \in Handle : diag'[g] = IF g = h THEN c ELSE diag[g]
        /\ diag' = [g \in Handle |-> diag'[g]]
        /\ Report' = [Report EXCEPT ![h] = [code |-> c.code, states |-> Visible(c)]]
    BY <1>2, <2>1, <2>2, Updated
  <2>4. Typed'
    BY <1>1, <1>2, <1>3, <2>3 DEF Typed, Sound
  <2>5. frames'[n + 1].skip = FALSE /\ frames'[n + 1].handle = h
    BY <1>3, <1>6
  <2>6. \A i \in 1..n : frames[i].handle \in Handle
    BY <1>2, FramesTyped
  <2>7. Quiet'
    BY <1>2, <1>3, <2>1, <2>3, <2>5, <2>6 DEF Quiet
  <2>8. \A i \in 1..n : frames[i].handle # h
    <3>1. CASE Idle
      BY <3>1, <1>2, EmptySeq DEF Idle
    <3>2. CASE In(Connection) /\ h \in Statement
      BY <3>2, <1>2, TopProperties DEF In, DiagnosticsAssumption
    <3> QED BY <1>6, <3>1, <3>2
  <2>9. h \notin Active /\ Active' = Active \cup {h}
    BY <1>1, <1>2, <1>3, <2>5, <2>8 DEF Active
  <2>10. Reports!Begin(h)
    BY <2>1, <2>3, <2>9 DEF Reports!Begin, Reports!Clean
  <2> QED BY <1>3, <1>4, <2>4, <2>7, <2>10 DEF Good, Reported, Reports!Next
<1> QED BY <1>5, <1>6
\* A visit ends without a trace; another call stores its code, unless the
\* object is gone.
LEMMA ReturnStep ==
    ASSUME DiagnosticsAssumption, Good, NEW code \in ReturnCode, Return(code)
    PROVE  Good' /\ Reported
<1> DEFINE n == Len(frames)
           m == Len(frames) - 1
           h == Top.handle
<1>1. /\ ~Idle /\ Top.ex = None /\ frames' = SubSeq(frames, 1, m)
      /\ diag' = IF Top.skip \/ h \notin alive THEN diag
                 ELSE [diag EXCEPT ![h] = SetReturnCode(@, code)]
      /\ owed' = None /\ alive' = alive
  BY DEF Return
<1>2. Typed /\ Nested /\ Quiet /\ alive \subseteq Handle /\ frames \in Seq(Frame)
  BY DEF Good, Typed
<1>3. /\ m \in Nat /\ n = m + 1 /\ Top = frames[n] /\ h \in Handle /\ n \in 1..n
  BY <1>1, <1>2, TopProperties, FramesTyped
<1>4. /\ frames' \in Seq(Frame) /\ Len(frames') = m
      /\ \A i \in 1..m : frames'[i] = frames[i] /\ ~frames[i].skip
      /\ Nested'
  BY <1>1, <1>2, Popped
<1>5. OwedAtTop'
  BY <1>1 DEF OwedAtTop
<1>6. CASE Top.skip \/ h \notin alive
  <2>1. diag' = diag
    BY <1>1, <1>6
  <2>2. Typed'
    BY <1>1, <1>2, <1>4, <2>1 DEF Typed, Sound
  <2>3. Quiet'
    BY <1>2, <1>3, <1>4, <2>1 DEF Quiet
  <2>4. Report' = Report
    BY <2>1 DEF Report, Visible
  <2>5. Active' = Active
    BY <1>1, <1>3, <1>4, <1>6 DEF Active
  <2> QED BY <1>4, <1>5, <2>2, <2>3, <2>4, <2>5 DEF Good, Reported, Reports!vars
<1>7. CASE ~Top.skip /\ h \in alive
  <2> DEFINE c == SetReturnCode(diag[h], code)
  <2>1. diag[h].number = 0 /\ Visible(diag[h]) = <<>>
    <3>1. diag[h].number = 0
      BY <1>2, <1>3, <1>7 DEF Quiet
    <3> QED BY <3>1, SubSeqEmpty DEF Visible
  <2>2. Sound(c) /\ c.number = 0 /\ c.code = code /\ Visible(c) = <<>>
    BY <1>2, <1>3, <2>1, SetReturnCodeSound DEF Typed
  <2>3. diag' = [diag EXCEPT ![h] = c]
    BY <1>1, <1>7
  <2> HIDE DEF c, h
  <2>4. /\ \A g \in Handle : Sound(diag'[g])
        /\ \A g \in Handle : diag'[g] = IF g = h THEN c ELSE diag[g]
        /\ diag' = [g \in Handle |-> diag'[g]]
        /\ Report' = [Report EXCEPT ![h] = [code |-> c.code, states |-> Visible(c)]]
    BY <1>2, <1>3, <2>2, <2>3, Updated
  <2>5. Typed'
    BY <1>1, <1>2, <1>4, <2>4 DEF Typed, Sound
  <2>6. Quiet'
    BY <1>2, <1>3, <1>4, <2>2, <2>4, FramesTyped DEF Quiet
  <2>7. h \in Active /\ Active' = Active \ {h}
    BY <1>1, <1>2, <1>3, <1>4, <1>7, Distinct DEF Active, h
  <2>8. Reports!Succeed(h, code)
    BY <2>2, <2>4, <2>7 DEF Reports!Succeed
  <2> QED BY <1>3, <1>4, <1>5, <2>5, <2>6, <2>8 DEF Good, Reported, Reports!Next
<1> QED BY <1>6, <1>7
\* A visit hands its error to the call around it; another call stores it.
LEMMA ThrowStep ==
    ASSUME DiagnosticsAssumption, Good,
           NEW code \in ReturnCode \ {"SUCCESS"}, NEW state \in State, Throw(code, state)
    PROVE  Good' /\ Reported
<1> DEFINE n == Len(frames)
           m == Len(frames) - 1
           h == Top.handle
           up == IF Top.skip /\ n > 1 THEN HandedUp(state) ELSE frames
<1>1. /\ ~Idle /\ h \in alive /\ frames' = SubSeq(up, 1, m)
      /\ diag' = IF Top.skip THEN diag
                 ELSE [diag EXCEPT ![h] = FillDiag(@, code, state)]
      /\ owed' = (IF Top.skip THEN state ELSE None) /\ alive' = alive
  BY DEF Throw
<1>2. Typed /\ Nested /\ Quiet /\ alive \subseteq Handle /\ frames \in Seq(Frame)
  BY DEF Good, Typed
<1>3. /\ n \in Nat /\ m \in Nat /\ n = m + 1 /\ Top = frames[n] /\ h \in Handle /\ n \in 1..n
  BY <1>1, <1>2, TopProperties, FramesTyped
<1>4. CASE Top.skip
  <2> DEFINE f == [frames[m] EXCEPT !.ex = state]
  <2>1. NestedAt(n)
    BY <1>2, <1>3 DEF Nested
  <2>2. n > 1 /\ m \in 1..n /\ m # n
    <3>1. frames[n].skip
      BY <1>3, <1>4, Zenon
    <3>2. n # 1
      BY <2>1, <3>1 DEF NestedAt
    <3>3. n \in Nat /\ n >= 1 /\ m = n - 1
      BY <1>1, <1>2, TopProperties
    <3> HIDE DEF n, m
    <3> QED BY <3>2, <3>3
  <2>3. frames[m] \in Frame
    BY <1>2, <2>2, ElementOfSeq
  <2>4. f \in Frame /\ f.handle = frames[m].handle /\ f.skip = frames[m].skip /\ f.ex = state
    BY <2>3 DEF Frame
  <2>5. up = [frames EXCEPT ![m] = f]
    BY <1>4, <2>2 DEF HandedUp
  <2> HIDE DEF f, up
  <2>6. /\ up \in Seq(Frame) /\ Len(up) = n
        /\ \A i \in 1..n : up[i] = IF i = m THEN f ELSE frames[i]
    BY <1>2, <2>2, <2>4, <2>5, ExceptSeq
  <2>7. \A i \in 1..m : up[i].handle = frames[i].handle /\ up[i].skip = frames[i].skip
                       /\ (up[i].ex = frames[i].ex \/ i = m)
    <3> SUFFICES ASSUME NEW i \in 1..m
                 PROVE  /\ up[i].handle = frames[i].handle /\ up[i].skip = frames[i].skip
                        /\ up[i].ex = frames[i].ex \/ i = m
      OBVIOUS
    <3>1. i \in 1..n
      BY <2>2
    <3>2. up[i] = IF i = m THEN f ELSE frames[i]
      BY <2>6, <3>1
    <3> QED BY <2>4, <3>2, Zenon
  <2>8. /\ frames' \in Seq(Frame) /\ Len(frames') = m
        /\ \A i \in 1..m : frames'[i] = up[i] /\ ~frames[i].skip
        /\ Nested'
    BY <1>1, <1>2, <2>6, <2>7, Popped
  <2>15. \A i \in 1..m : frames'[i].handle = frames[i].handle /\ ~frames'[i].skip
    BY <2>7, <2>8, Zenon
  <2>9. diag' = diag /\ owed' = state
    BY <1>1, <1>4
  <2>10. Typed'
    BY <1>1, <1>2, <2>8, <2>9 DEF Typed, Sound
  <2>11. Quiet'
    BY <1>2, <1>3, <2>8, <2>9, <2>15 DEF Quiet
  <2>12. OwedAtTop'
    <3>1. m \in 1..m /\ frames'[m] = f
      BY <2>2, <2>6, <2>8
    <3>2. frames' # <<>> /\ Top' = f
      BY <2>2, <2>8, <3>1, EmptySeq DEF Top
    <3> QED BY <2>4, <2>9, <3>2 DEF OwedAtTop
  <2>13. Report' = Report
    BY <2>9 DEF Report, Visible
  <2>14. Active' = Active
    <3>1. frames[n].skip
      BY <1>3, <1>4, Zenon
    <3> QED BY <1>1, <1>3, <2>8, <2>15, <3>1 DEF Active
  <2> QED BY <2>8, <2>10, <2>11, <2>12, <2>13, <2>14 DEF Good, Reported, Reports!vars
<1>5. CASE ~Top.skip
  <2> DEFINE c == FillDiag(diag[h], code, state)
  <2>1. diag[h].number = 0
    BY <1>2, <1>3, <1>5 DEF Quiet
  <2>2. Sound(c) /\ c.code = code /\ Visible(c) = <<state>>
    BY <1>2, <1>3, <2>1, FillSound DEF Typed
  <2>3. diag' = [diag EXCEPT ![h] = c] /\ owed' = None
    BY <1>1, <1>5
  <2>4. up = frames
    BY <1>5
  <2> HIDE DEF c, h, up
  <2>5. /\ frames' \in Seq(Frame) /\ Len(frames') = m
        /\ \A i \in 1..m : frames'[i] = frames[i] /\ ~frames[i].skip
        /\ Nested'
    BY <1>1, <1>2, <2>4, Popped
  <2>6. /\ \A g \in Handle : Sound(diag'[g])
        /\ \A g \in Handle : diag'[g] = IF g = h THEN c ELSE diag[g]
        /\ diag' = [g \in Handle |-> diag'[g]]
        /\ Report' = [Report EXCEPT ![h] = [code |-> c.code, states |-> Visible(c)]]
    BY <1>2, <1>3, <2>2, <2>3, Updated
  <2>7. Typed'
    BY <1>1, <1>2, <2>3, <2>5, <2>6 DEF Typed, Sound
  <2>8. \A i \in 1..m : frames[i].handle # h
    BY <1>2, <1>3, <1>5, <2>5, Distinct DEF h
  <2>9. Quiet'
    BY <1>2, <1>3, <2>5, <2>6, <2>8, FramesTyped DEF Quiet
  <2>10. h \in Active /\ Active' = Active \ {h}
    <3>1. ~frames[n].skip /\ frames[n].handle = h
      BY <1>3, <1>5, Zenon DEF h
    <3>2. \A i \in 1..m : frames'[i].handle = frames[i].handle
      BY <2>5
    <3>3. h \in alive /\ alive' = alive
      BY <1>1
    <3> QED BY <1>3, <2>5, <2>8, <3>1, <3>2, <3>3 DEF Active
  <2>11. Reports!Fail(h, code, state)
    BY <2>2, <2>6, <2>10 DEF Reports!Fail
  <2>12. OwedAtTop'
    BY <2>3 DEF OwedAtTop
  <2> QED BY <1>3, <2>5, <2>7, <2>9, <2>11, <2>12 DEF Good, Reported, Reports!Next
<1> QED BY <1>4, <1>5

\* A new object has a clean report, whatever was at its address.
LEMMA AllocateStep ==
    ASSUME DiagnosticsAssumption, Good, NEW h \in Handle, Allocate(h)
    PROVE  Good' /\ Reported
<1> DEFINE n == Len(frames)
<1>1. /\ In(Connection) /\ h \in Handle \ alive /\ alive' = alive \cup {h}
      /\ \A i \in 1..n : frames[i].handle # h
      /\ diag' = [diag EXCEPT ![h] = NewContainer] /\ frames' = frames /\ owed' = owed
  BY DEF Allocate
<1>2. Typed /\ Nested /\ Quiet /\ OwedAtTop
  BY DEF Good
<1>3. Sound(NewContainer) /\ Visible(NewContainer) = <<>> /\ NewContainer.code = "SUCCESS"
  BY NewContainerSound DEF NewContainer
<1>4. /\ \A g \in Handle : Sound(diag'[g])
      /\ \A g \in Handle : diag'[g] = IF g = h THEN NewContainer ELSE diag[g]
      /\ diag' = [g \in Handle |-> diag'[g]]
      /\ Report' = [Report EXCEPT ![h] = [code |-> NewContainer.code,
                                          states |-> Visible(NewContainer)]]
  BY <1>1, <1>2, <1>3, Updated
<1>5. Typed'
  BY <1>1, <1>2, <1>4 DEF Typed, Sound
<1>6. Nested'
  BY <1>1, <1>2 DEF Nested, NestedAt
<1>7. Quiet'
  BY <1>1, <1>2, <1>4, FramesTyped DEF Quiet
<1>8. OwedAtTop'
  BY <1>1, <1>2 DEF OwedAtTop, Top
<1>9. Active' = Active \ {h}
  BY <1>1 DEF Active
<1>10. Reports!Renew(h)
  BY <1>3, <1>4, <1>9 DEF Reports!Renew, Reports!Clean
<1> QED BY <1>5, <1>6, <1>7, <1>8, <1>10 DEF Good, Reported, Reports!Next

\* So has the address of one that is gone.
LEMMA FreeStep ==
    ASSUME DiagnosticsAssumption, Good, NEW h \in Handle, Free(h)
    PROVE  Good' /\ Reported
<1> DEFINE n == Len(frames)
<1>1. /\ h \in alive /\ h \notin Connection /\ alive' = alive \ {h}
      /\ diag' = [diag EXCEPT ![h] = NewContainer] /\ frames' = frames /\ owed' = owed
  BY DEF Free
<1>2. Typed /\ Nested /\ Quiet /\ OwedAtTop /\ Connection \subseteq alive
  BY DEF Good, Typed
<1>3. /\ Sound(NewContainer) /\ NewContainer.number = 0 /\ NewContainer.code = "SUCCESS"
      /\ Visible(NewContainer) = <<>>
  BY NewContainerSound DEF NewContainer
<1>4. /\ \A g \in Handle : Sound(diag'[g])
      /\ \A g \in Handle : diag'[g] = IF g = h THEN NewContainer ELSE diag[g]
      /\ diag' = [g \in Handle |-> diag'[g]]
      /\ Report' = [Report EXCEPT ![h] = [code |-> NewContainer.code,
                                          states |-> Visible(NewContainer)]]
  BY <1>1, <1>2, <1>3, Updated
<1>5. Typed'
  BY <1>1, <1>2, <1>4 DEF Typed, Sound
<1>6. n = 0 \/ (n = 1 /\ (frames[1].handle \in Connection \/ (frames[1].handle = h /\ h \in Statement)))
  <2>1. CASE Idle
    BY <2>1, EmptySeq DEF Idle
  <2>2. CASE In(Connection)
    BY <2>2, <1>2, TopProperties DEF In
  <2>3. CASE In(Statement) /\ n = 1 /\ Top.handle = h
    BY <2>3 DEF In, Top
  <2> QED BY <2>1, <2>2, <2>3 DEF Free
<1>7. Nested'
  BY <1>1, <1>2, <1>6 DEF Nested, NestedAt
<1>8. Quiet'
  BY <1>1, <1>2, <1>3, <1>4, FramesTyped DEF Quiet
<1>9. OwedAtTop'
  BY <1>1, <1>2 DEF OwedAtTop, Top
<1>10. Active' = Active \ {h}
  BY <1>1 DEF Active
<1>11. Reports!Renew(h)
  BY <1>3, <1>4, <1>10 DEF Reports!Renew, Reports!Clean
<1> QED BY <1>5, <1>7, <1>8, <1>9, <1>11 DEF Good, Reported, Reports!Next

\* Reading a record leaves everything as it was.
LEMMA ReadStep ==
    ASSUME DiagnosticsAssumption, Good, NEW h \in Handle, NEW num \in 0..1, ReadDiag(h, num)
    PROVE  UNCHANGED vars
<1>1. Sound(diag[h]) /\ num <= diag[h].number /\ diag = [g \in Handle |-> diag[g]]
  BY DEF Good, Typed, ReadDiag
<1>2. GetDiagStatus(diag[h], num) = diag[h]
  BY <1>1, ReadKeeps
<1>3. diag' = [diag EXCEPT ![h] = diag[h]] /\ UNCHANGED <<alive, frames, owed>>
  BY <1>2 DEF ReadDiag
<1>4. diag' = diag
  BY <1>1, <1>3
<1> QED BY <1>3, <1>4 DEF vars

\* Nothing happens: the invariant stays, and the reports.
LEMMA StutterStep ==
    ASSUME Good, UNCHANGED vars
    PROVE  Good' /\ Reported
<1>1. Report' = Report /\ Active' = Active
  BY DEF vars, Report, Active, Visible
<1>2. Typed' /\ Nested' /\ Quiet' /\ OwedAtTop'
  BY DEF vars, Good, Typed, Sound, Nested, NestedAt, Quiet, OwedAtTop, Top
<1> QED BY <1>1, <1>2 DEF Good, Reported, Reports!vars
\* Every step of the driver does so.
LEMMA NextStep ==
    ASSUME DiagnosticsAssumption, Good, [Next]_vars
    PROVE  Good' /\ Reported
<1>1. ASSUME NEW h \in Handle, Call(h) PROVE Good' /\ Reported
  <2>1. Enter(h, FALSE) /\ Idle
    BY <1>1 DEF Call
  <2>2. FALSE \in BOOLEAN /\ FALSE = FALSE
    OBVIOUS
  <2> QED BY <2>1, <2>2, EnterStep
<1>2. ASSUME NEW h \in Handle, VisitDescriptor(h) \/ VisitSource(h) PROVE Good' /\ Reported
  <2>1. Enter(h, TRUE) /\ h \in Descriptor /\ In(Statement \cup Descriptor)
    BY <1>2 DEF VisitDescriptor, VisitSource, In
  <2>2. TRUE \in BOOLEAN /\ TRUE = TRUE
    OBVIOUS
  <2> QED BY <2>1, <2>2, EnterStep
<1>3. ASSUME NEW h \in Handle, FetchInConnect(h) PROVE Good' /\ Reported
  <2>1. Enter(h, FALSE) /\ h \in Statement /\ In(Connection)
    BY <1>3 DEF FetchInConnect
  <2>2. FALSE \in BOOLEAN /\ FALSE = FALSE
    OBVIOUS
  <2> QED BY <2>1, <2>2, EnterStep
<1>4. ASSUME NEW h \in Handle, \E num \in 0..1 : ReadDiag(h, num) PROVE Good' /\ Reported
  BY <1>4, ReadStep, StutterStep
<1>5. CASE UNCHANGED vars
  BY <1>5, StutterStep
<1> QED
  BY <1>1, <1>2, <1>3, <1>4, <1>5, AllocateStep, FreeStep, ReturnStep, ThrowStep DEF Next

\* At first nothing is in progress and nothing to show.
LEMMA InitGood ==
    ASSUME DiagnosticsAssumption, Init
    PROVE  Good /\ Reports!Init
<1>1. frames = <<>> /\ owed = None /\ alive = Connection /\ diag = [h \in Handle |-> NewContainer]
  BY DEF Init
<1>2. frames \in Seq(Frame) /\ Len(frames) = 0
  BY <1>1, EmptySeq
<1>3. Sound(NewContainer) /\ Visible(NewContainer) = <<>> /\ NewContainer.code = "SUCCESS"
  BY NewContainerSound DEF NewContainer
<1>4. \A h \in Handle : diag[h] = NewContainer
  BY <1>1
<1>5. Typed
  <2>1. \A h \in Handle : Sound(diag[h])
    BY <1>3, <1>4
  <2>2. diag = [h \in Handle |-> diag[h]]
    BY <1>1
  <2> QED BY <1>1, <1>2, <2>1, <2>2 DEF Typed, Handle
<1>6. Nested /\ Quiet /\ OwedAtTop
  BY <1>1, <1>2 DEF Nested, Quiet, OwedAtTop
<1>7. Active = {}
  BY <1>2 DEF Active
<1>8. Report = [h \in Handle |-> Reports!Clean]
  BY <1>3, <1>4 DEF Report, Reports!Clean
<1> QED BY <1>5, <1>6, <1>7, <1>8 DEF Good, Reports!Init

\* The error a visit handed up is what the call around it ends with.
LEMMA ForwardStep ==
    ASSUME DiagnosticsAssumption, Good, Next, owed # None, Len(frames') < Len(frames)
    PROVE  Visible(diag'[Top.handle]) = <<owed>>
<1>1. ~Idle /\ Top.ex = owed
  BY DEF Good, OwedAtTop, Idle
<1>2. /\ Typed /\ Nested /\ Quiet /\ owed \in State /\ Len(frames) \in 1..Len(frames)
      /\ Top = frames[Len(frames)]
  BY <1>1, TopProperties DEF Good, Typed
<1>3. PICK code \in ReturnCode \ {"SUCCESS"}, state \in State : Throw(code, state)
  BY <1>1 DEF Next, Call, VisitDescriptor, VisitSource, FetchInConnect, Allocate, Free,
              ReadDiag, Return, In
<1>4. state = owed /\ Top.handle \in Handle
  BY <1>1, <1>2, <1>3, FramesTyped DEF Throw
<1>5. ~frames[Len(frames)].skip
  <2>1. NestedAt(Len(frames))
    BY <1>2 DEF Nested
  <2> QED BY <1>1, <1>2, <2>1 DEF NestedAt
<1>6. ~Top.skip /\ diag[Top.handle].number = 0
  BY <1>2, <1>5 DEF Quiet
<1>7. diag' = [diag EXCEPT ![Top.handle] = FillDiag(@, code, owed)]
  BY <1>3, <1>4, <1>6 DEF Throw
<1>8. Visible(FillDiag(diag[Top.handle], code, owed)) = <<owed>>
  BY <1>2, <1>4, <1>6, FillSound DEF Typed
<1> QED BY <1>2, <1>4, <1>7, <1>8 DEF Typed

-----------------------------------------------------------------------------
\* The invariant, for any handles, errors and codes.
THEOREM Invariance == Spec => []Inv
<1>1. Init => Inv
  BY DiagnosticsAssumption, InitGood, GoodIsInv
<1>2. Inv /\ [Next]_vars => Inv'
  <2>1. Inv' <=> Good'
    BY DEF Inv, Good, TypeOK, Typed, Sound, Nested, NestedAt, Quiet, OwedAtTop, Top
  <2> QED BY <2>1, DiagnosticsAssumption, NextStep, GoodIsInv
<1> QED BY <1>1, <1>2, PTL DEF Spec

\* The record vectors and the calls in progress are always well formed.
THEOREM TypeCorrect == Spec => []TypeOK
<1>1. Inv => TypeOK
  BY DEF Inv
<1> QED BY <1>1, Invariance, PTL

\* Every object shows the diagnostics of its own last call.
THEOREM CallsReportedHolds == Spec => CallsReported
<1>1. Init => Reports!Init
  BY DiagnosticsAssumption, InitGood
<1>2. Inv /\ [Next]_vars => [Reports!Next]_(Reports!vars)
  BY DiagnosticsAssumption, NextStep, GoodIsInv DEF Reported
<1> QED BY <1>1, <1>2, Invariance, PTL DEF Spec, CallsReported, Reports!Spec

\* An error in a visited descriptor is reported by the call that visited it.
THEOREM ErrorForwardedHolds == Spec => ErrorForwarded
<1>1. Inv /\ [Next]_vars =>
          [owed # None /\ Len(frames') < Len(frames) =>
              Visible(diag'[Top.handle]) = <<owed>>]_vars
  BY DiagnosticsAssumption, ForwardStep, GoodIsInv
<1> QED BY <1>1, Invariance, PTL DEF Spec, ErrorForwarded
=============================================================================
