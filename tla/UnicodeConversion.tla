-------------------------- MODULE UnicodeConversion --------------------------
(* UnicodeConverter and convertEncoding: a text goes through an ICU         *)
(* converter in a loop that grows the destination until all of it is        *)
(* written.  The signature (byte order mark) is put before the text, so     *)
(* that ICU knows the byte order, and taken off the result.  A converter    *)
(* serves one conversion after another, those of a result set share one.    *)
(*                                                                          *)
(* A text is a sequence of characters.  Its narrow form has the bytes of    *)
(* each character, its wide form one unit for each.  ICU is outside of the  *)
(* driver: what it does here is what its interface promises.                *)
EXTENDS Integers, SequencesExt

CONSTANTS
    Texts,         \* the texts converted
    Bom,           \* the signature, a character
    Bytes,         \* for each character, the bytes of its narrow form
    ExtraReserve, MinIncrement, Conservative,  \* the sizes of the code, in symbols
    None           \* no conversion

ASSUME TextAssumption ==
    /\ Bom \in DOMAIN Bytes /\ Bytes[Bom] # << >>
    /\ \A c \in DOMAIN Bytes : Bytes[c] \in Seq(Range(Bytes[c]))
    /\ Texts \subseteq Seq(DOMAIN Bytes)

ASSUME SizeAssumption ==
    /\ ExtraReserve \in Nat /\ ExtraReserve >= 2 * Len(Bytes[Bom])
    /\ MinIncrement \in Nat /\ MinIncrement >= ExtraReserve
    /\ Conservative \in Nat \ {0}

VARIABLES
    job,      \* the running conversion: its text, its forms and its flags
    source,   \* the characters not consumed
    overflow, \* what ICU has converted and not delivered
    dest,     \* the destination; "?" is memory never written
    written,  \* target_symbols_written: also where target points to
    end,      \* target_end
    trimmed,  \* the signature is off the destination, or is not there
    result    \* of the last conversion: "ok", "error" or None

unicode == << job, source, overflow, dest, written, end, trimmed, result >>

Form == {"narrow", "wide"}

Symbols(c, form)    == IF form = "narrow" THEN Bytes[c] ELSE << c >>
Encoded(text, form) == FlattenSeq([i \in DOMAIN text |-> Symbols(text[i], form)])
Signature(form)     == Symbols(Bom, form)

MinOf(a, b) == IF a < b THEN a ELSE b
MaxOf(a, b) == IF a > b THEN a ELSE b

Running == job # None

Idle ==
    /\ job = None /\ source = << >> /\ overflow = << >> /\ dest = << >>
    /\ written = 0 /\ end = 0 /\ trimmed = FALSE /\ result = None

-----------------------------------------------------------------------------
(* ICU                                                                      *)

\* What a call delivers of what it holds, with room symbols of space: what
\* fits; the rest waits inside.
Parted(held, left, room) ==
    LET fits == MinOf(room, Len(held))
    IN  [out |-> SubSeq(held, 1, fits), waiting |-> SubSeq(held, fits + 1, Len(held)), source |-> left]

\* It consumes characters until the space is full.
Delivered(src, waiting, room) ==
    LET held(n) == waiting \o Encoded(SubSeq(src, 1, n), job.to)
        enough  == {n \in 0 .. Len(src) : Len(held(n)) >= room}
        taken   == IF enough = {} THEN Len(src) ELSE Min(enough)
    IN  Parted(held(taken), SubSeq(src, taken + 1, Len(src)), room)

\* Some forms have a signature of ICU's own before the first character.
OwnSignature(form) == { << >>, Signature(form) }

-----------------------------------------------------------------------------
(* Start of a conversion                                                    *)

\* resize_without_initialization: new memory is not written, nothing is lost.
Resized(d, n) == IF n <= Len(d) THEN SubSeq(d, 1, n) ELSE d \o [i \in 1 .. n - Len(d) |-> "?"]

Put(d, at, out) == SubSeq(d, 1, at) \o out \o SubSeq(d, at + Len(out) + 1, Len(d))

\* The signature goes through ICU in a call of its own, when the text does not
\* begin with it; some converters consume it without output.
Begin(path, from, to, text, trim) ==
    LET size == MinOf(Len(Encoded(text, from)) + ExtraReserve, MinIncrement)
        has  == text # << >> /\ text[1] = Bom
    IN  /\ ~Running
        /\ \E own \in OwnSignature(to), eats \in BOOLEAN :
             LET signature == IF has \/ eats THEN << >> ELSE Signature(to)
                 out       == overflow \o (IF has \/ eats THEN << >> ELSE own \o signature)
             IN  /\ job' = [path |-> path, from |-> from, to |-> to, text |-> text, trim |-> trim]
                 /\ source'   = IF has /\ eats THEN Tail(text) ELSE text
                 /\ dest'     = Put(Resized(<< >>, size), 0, out)
                 /\ written'  = Len(out)
                 /\ overflow' = << >>
                 /\ end'      = size
        /\ trimmed' = FALSE
        /\ result' = None

\* convertToPivot: a narrow text becomes wide.
StartToPivot ==
    \E text \in Texts, trim \in BOOLEAN : Begin("convertToPivot", "narrow", "wide", text, trim)

\* convertFromPivot: a wide text becomes narrow.
StartFromPivot ==
    \E text \in Texts : Begin("convertFromPivot", "wide", "narrow", text, TRUE)

\* convertEncoding: from any form to any form, through a pivot of ICU's own.
StartEncoding ==
    \E text \in Texts, from, to \in Form : Begin("convertEncoding", from, to, text, TRUE)

-----------------------------------------------------------------------------
(* One turn of the loop                                                     *)

\* consumeSignatureInPlace as often as there is a signature: rest is what is
\* left of each end of the symbols.
WithoutSignature(d, form) ==
    LET rest[n \in 0 .. Len(d)] ==
            IF IsPrefix(Signature(form), SubSeq(d, Len(d) - n + 1, Len(d)))
            THEN rest[n - Len(Signature(form))] ELSE SubSeq(d, Len(d) - n + 1, Len(d))
    IN  rest[Len(d)]

\* Without the end of the new space the loop has no progress to make.
Grown_Fault(d, at, pending) == Resized(d, at + pending)

\* The new size of the destination when ICU ran out of space.
Grown(d, at, pending) ==
    Resized(d, MaxOf(at + pending + ExtraReserve, Len(d) + MinIncrement))

\* As long as a signature is to be found, ICU is called with little space ...
Seeks == job.trim /\ ~trimmed
Room  == (IF Seeks THEN MinOf(written + Conservative, end) ELSE end) - written

\* ... and the destination shrinks to what is written when it is searched.
Searches(n)       == Seeks /\ n >= Len(Signature(job.to))
Searched(full, n) == IF Searches(n) THEN WithoutSignature(SubSeq(full, 1, n), job.to) ELSE full

\* The loop goes on while ICU has more.
Settled(icu, n, short, at) ==
    /\ source'   = icu.source
    /\ overflow' = icu.waiting
    /\ trimmed'  = (trimmed \/ (Searches(n) /\ at >= Len(Signature(job.to))))
    /\ written'  = at
    /\ IF icu.waiting # << >> \/ icu.source # << >>
       THEN /\ dest' = Grown(short, at, Len(Encoded(icu.source, job.from)))
            /\ end'  = Len(dest')
            /\ UNCHANGED << job, result >>
       ELSE /\ dest' = SubSeq(short, 1, at)
            /\ result' = "ok"
            /\ job' = [job EXCEPT !.path = "ended"]
            /\ UNCHANGED end

Turn ==
    \E icu \in {Delivered(source, overflow, Room)} :
      LET n == written + Len(icu.out)
      IN  \E short \in {Searched(Put(dest, written, icu.out), n)} :
            Settled(icu, n, short, IF Searches(n) THEN Len(short) ELSE n)

Going(path) == Running /\ job.path = path

ConvertToPivot   == Going("convertToPivot") /\ Turn
ConvertFromPivot == Going("convertFromPivot") /\ Turn
ConvertEncoding  == Going("convertEncoding") /\ Turn

\* What the converter holds stays for the next text.
Reset_Fault == UNCHANGED overflow

\* ucnv_resetToUnicode and ucnv_resetFromUnicode.
Reset == overflow' = << >>

\* ICU reports an error or there is no memory: the destination is cleared.
Fail ==
    /\ Running /\ job.path # "ended"
    /\ Reset
    /\ source' = << >>
    /\ dest' = << >>
    /\ written' = 0
    /\ end' = 0
    /\ trimmed' = FALSE
    /\ result' = "error"
    /\ job' = [job EXCEPT !.path = "ended"]

\* The caller takes the result.
Take ==
    /\ Going("ended")
    /\ job' = None
    /\ source' = << >> /\ dest' = << >> /\ written' = 0 /\ end' = 0 /\ trimmed' = FALSE
    /\ UNCHANGED << overflow, result >>

Loop == ConvertToPivot \/ ConvertFromPivot \/ ConvertEncoding \/ Take

UnicodeStep == StartToPivot \/ StartFromPivot \/ StartEncoding \/ Loop \/ Fail

UnicodeSpec == Idle /\ [][UnicodeStep]_unicode

\* A conversion is a loop inside one call: nothing but its own end stops it.
LoopRuns == WF_unicode(Loop)

-----------------------------------------------------------------------------
(* Properties                                                               *)

\* The result of a conversion is the text in its new form without the
\* signatures before it, whatever the converter has served before; with an
\* error there is none.  (Without trimming a signature may remain.)
ConvertedWhole ==
    Going("ended") =>
        IF result = "error" THEN dest = << >>
        ELSE /\ WithoutSignature(dest, job.to) = WithoutSignature(Encoded(job.text, job.to), job.to)
             /\ job.trim => dest = WithoutSignature(dest, job.to)

\* Every conversion ends: each turn finds space that ICU can use.
ConversionEnds == Running ~> ~Running
=============================================================================
