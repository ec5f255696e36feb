------------------------------ MODULE OneCall ------------------------------
(* What a call computes from its arguments alone: catalog queries and       *)
(* descriptions, attributes, texts the driver reads and writes, values it   *)
(* converts.  A behaviour is one call of any of them, or any number of      *)
(* conversions between encodings, which share a converter.                  *)
EXTENDS Promises, Announced, Translation, Strings, Documents, Conversion, UnicodeConversion

vars == << call, unicode >>

Init == NotCalled /\ Idle

Computed == /\ NotCalled /\ Idle
            /\ \/ CatalogCall \/ AttributeCall \/ AnnouncedCall
               \/ TranslationCall \/ StringCall \/ DocumentCall \/ ConversionCall
            /\ UNCHANGED unicode

Next == (NotCalled /\ UnicodeStep /\ UNCHANGED call) \/ Computed

Spec == Init /\ [][Next]_vars /\ LoopRuns

-----------------------------------------------------------------------------
(* Properties: those of the parts, put together where they say one thing    *)

\* What passes between the driver and the service is understood: the escapes an
\* application may write (replaceEscapeSequences), those with the functions and
\* intervals SQLGetInfo announces among them, reach the service as what they
\* mean, and the JSON of requests and answers is read as what was written.
UnderstoodByService == WrittenTranslated /\ AnnouncedTranslated /\ DocumentsReadBack
=============================================================================
