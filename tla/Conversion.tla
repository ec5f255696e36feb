----------------------------- MODULE Conversion -----------------------------
(* Values between the service and the application.  A cell of a result is a *)
(* text; it is read into the buffer of a bound column as the type the       *)
(* application asks for.  A parameter is read out of a buffer of any type   *)
(* as a text and written for the service.                                   *)
(*                                                                          *)
(* Numbers are texts of characters; the widths of integers are scaled down. *)
EXTENDS Call, Calendar, SequencesExt

CONSTANTS
    Bits,             \* for each integer type, its width
    DecimalBits,      \* the width of the integer inside a Decimal
    Byte, ValLength,  \* values of a byte, bytes of the value of an SQL_NUMERIC_STRUCT
    NumberText,       \* texts read as numbers
    Precision, Scale, \* specifications of a numeric column
    Day, Ms,          \* days and milliseconds the service sends
    Year,             \* years of which every day is computed
    Zone,             \* seconds the local time is ahead of UTC
    Longest,          \* the length of the longest text
    Buffer,           \* sizes of a buffer
    Error             \* no value: the conversion throws

ASSUME ConversionAssumption ==
    /\ Bits \in [{"int8", "int16", "int32", "int64", "uint8", "uint16", "uint32", "uint64"} -> Nat \ {0, 1}]
    /\ \A t \in {"int8", "int16", "int32"} : Bits[t] <= Bits["int64"]
    /\ \A t \in {"uint8", "uint16", "uint32"} : Bits[t] <= Bits["uint64"]
    /\ DecimalBits \in Nat \ {0} /\ Byte \in Nat /\ Byte >= 10
    /\ ValLength \in Nat /\ Power(Byte, ValLength) >= Power(2, DecimalBits)
    /\ NumberText \subseteq Seq(STRING) /\ Precision \subseteq Nat /\ Scale \subseteq Int
    /\ Day \cup Ms \cup Year \cup Zone \subseteq Int
    /\ Longest \in Nat /\ Buffer \subseteq Nat

\* Error is neither an integer, nor a decimal, nor what a text is read to on
\* the way, nor an SQL_NUMERIC_STRUCT.
ASSUME ErrorAssumption ==
    Error \notin Int \cup [value : Nat, minus : BOOLEAN, precision : Nat, scale : Int]
                 \cup [ value : Nat, minus : BOOLEAN, precision : Nat, scale : Nat,
                       sign : BOOLEAN, dot : BOOLEAN, digit : BOOLEAN ]
                 \cup [precision : Nat, scale : Int, minus : BOOLEAN, val : Seq(Nat)]

SmallerOf(a, b) == IF a < b THEN a ELSE b

-----------------------------------------------------------------------------
(* Integers                                                                 *)

Signed   == {"int8", "int16", "int32", "int64"}
Unsigned == {"uint8", "uint16", "uint32", "uint64"}

\* readReadyDataTo and writeDataFrom: the integers behind the C types.
IntegerOf ==
    [ SQL_C_BIT |-> "uint8", SQL_C_TINYINT |-> "int8", SQL_C_STINYINT |-> "int8", SQL_C_UTINYINT |-> "uint8",
      SQL_C_SHORT |-> "int16", SQL_C_SSHORT |-> "int16", SQL_C_USHORT |-> "uint16",
      SQL_C_LONG |-> "int32", SQL_C_SLONG |-> "int32", SQL_C_ULONG |-> "uint32",
      SQL_C_SBIGINT |-> "int64", SQL_C_UBIGINT |-> "uint64" ]

Least(t)    == IF t \in Signed THEN -Power(2, Bits[t] - 1) ELSE 0
Greatest(t) == IF t \in Signed THEN Power(2, Bits[t] - 1) - 1 ELSE Power(2, Bits[t]) - 1

Numeral == << "0", "1", "2", "3", "4", "5", "6", "7", "8", "9" >>
Digit   == ToSet(Numeral)
DigitOf == [c \in Digit |-> (CHOOSE i \in DOMAIN Numeral : Numeral[i] = c) - 1]

ValueOf(digits) == NumberOf([i \in DOMAIN digits |-> DigitOf[digits[i]]])

\* strtoll and strtoull: a sign, the digits after it, and what is left.
Scanned(text) ==
    LET signs  == IF text # << >> /\ text[1] \in {"+", "-"} THEN 1 ELSE 0
        stop   == SelectInSubSeq(text, signs + 1, Len(text), LAMBDA c : c \notin Digit)
        end    == IF stop = 0 THEN Len(text) ELSE stop - 1
    IN  [ minus |-> signs = 1 /\ text[1] = "-", digits |-> SubSeq(text, signs + 1, end),
          whole |-> end = Len(text) ]

\* The widest integers, from a text: partial texts and overflow are errors,
\* but a negative text comes round to a large unsigned number.
Widest(text, t) ==
    LET scan == Scanned(text)
        n    == ValueOf(scan.digits)
        v    == IF scan.minus THEN -n ELSE n
    IN  CASE text = << "true" >>  -> 1
          [] text = << "false" >> -> 0
          [] OTHER ->
               IF \/ scan.digits = << >>
                  \/ ~scan.whole
                  \/ t \in Signed /\ v \notin Least(t) .. Greatest(t)
                  \/ t \in Unsigned /\ n > Greatest(t)
               THEN Error ELSE IF t \in Unsigned THEN v % Power(2, Bits[t]) ELSE v

WidestOf(t) == IF t \in Signed THEN "int64" ELSE "uint64"

ToInteger_Fault(text, t) ==
    LET v == Widest(text, WidestOf(t))
    IN  IF v # Error /\ v > Greatest(t) THEN Error ELSE v

\* from_value<std::string> to an integer: a narrower one checks its range.
ToInteger(text, t) ==
    LET v == Widest(text, WidestOf(t))
    IN  IF v # Error /\ v \notin Least(t) .. Greatest(t) THEN Error ELSE v

\* ieee_ull_str_to_double: the bits of the double, whatever the text is.
ToDouble(text) ==
    LET scan == Scanned(text)
        n    == SmallerOf(ValueOf(scan.digits), Greatest("uint64"))
    IN  IF scan.minus /\ n < Greatest("uint64") THEN (-n) % Power(2, Bits["uint64"]) ELSE n

-----------------------------------------------------------------------------
(* Decimals: value is the number without its point, scale the digits after  *)
(* it.                                                                      *)

DecimalMax == Power(2, DecimalBits) - 1

\* One character of a text.
DecimalStep(d, c) ==
    IF d = Error THEN Error
    ELSE CASE c \in {"+", "-"} /\ ~d.sign /\ ~d.dot /\ ~d.digit ->
                [d EXCEPT !.sign = TRUE, !.minus = (c = "-")]
           [] c = "." /\ ~d.dot -> [d EXCEPT !.dot = TRUE]
           [] c \in Digit /\ DecimalMax \div 10 >= d.value /\ DecimalMax - DigitOf[c] >= d.value * 10 ->
                [d EXCEPT !.value = 10 * d.value + DigitOf[c], !.digit = TRUE,
                          !.precision = d.precision + 1, !.scale = IF d.dot THEN d.scale + 1 ELSE d.scale]
           [] OTHER -> Error

NothingRead ==
    [ value |-> 0, minus |-> FALSE, precision |-> 0, scale |-> 0, sign |-> FALSE, dot |-> FALSE, digit |-> FALSE ]

ToDecimal(text) ==
    LET read[i \in 0 .. Len(text)] == IF i = 0 THEN NothingRead ELSE DecimalStep(read[i - 1], text[i])
        d == read[Len(text)]
    IN  IF d = Error THEN Error
        ELSE [value |-> d.value, minus |-> d.minus /\ d.value # 0, precision |-> d.precision, scale |-> d.scale]

\* The value with more decimals, while the integer holds it, or with fewer.
Rescaled(d, scale) ==
    LET value == IF scale <= d.scale THEN d.value \div TenTo(d.scale - scale)
                 ELSE d.value * TenTo(scale - d.scale)
    IN  IF value > DecimalMax THEN Error ELSE [d EXCEPT !.value = value, !.scale = scale]

\* The digits of n to a base, as many as it needs: from the lowest one, as
\* bytes, and from the highest one, with zeros before them.
Places(n, base) == CHOOSE k \in 0 .. n : n < Power(base, k) /\ (k = 0 \/ Power(base, k - 1) <= n)

BytesOf(n) == [i \in 1 .. Places(n, Byte) |-> (n \div Power(Byte, i - 1)) % Byte]

DigitsOf(n, least) ==
    LET k == IF Places(n, 10) < least THEN least ELSE Places(n, 10)
    IN  [i \in 1 .. k |-> Numeral[((n \div TenTo(k - i)) % 10) + 1]]

\* Decimal to SQL_NUMERIC_STRUCT: with a precision of 0 the text decides.  The
\* precision asked for limits the bytes, not the digits.
ToNumeric(d, precision, scale) ==
    LET p == IF precision = 0 THEN d.precision ELSE precision
        s == IF precision = 0 THEN d.scale ELSE scale
        r == Rescaled(d, s)
    IN  IF precision < scale \/ r = Error THEN Error
        ELSE LET val == BytesOf(r.value)
             IN  IF Len(val) > ValLength \/ Len(val) > p + 1 THEN Error
                 ELSE [precision |-> p, scale |-> s, minus |-> d.minus, val |-> val]

\* SQL_NUMERIC_STRUCT to Decimal, with the precision and the scale of the
\* binding: the bytes from the highest one.
FromNumeric(num, precision, scale) ==
    LET size == Len(num.val)
        step(n, b) == IF n = Error \/ DecimalMax \div Byte < n \/ DecimalMax - b < n * Byte THEN Error
                      ELSE n * Byte + b
        read[i \in 0 .. size] == IF i = 0 THEN 0 ELSE step(read[i - 1], num.val[size + 1 - i])
        value == read[size]
    IN  IF value = Error THEN Error
        ELSE [value |-> value, minus |-> num.minus, precision |-> precision, scale |-> scale]

\* An integer to a text.
IntegerText(n) ==
    (IF n < 0 THEN << "-" >> ELSE << >>) \o (IF n = 0 THEN << "0" >> ELSE DigitsOf(Magnitude(n), 0))

\* Decimal to a text: no digit before the point of a number below 1.  With a
\* negative scale the text grows until there is no memory for it.
DecimalText(d) ==
    LET digits == DigitsOf(d.value, d.scale)
        ahead  == Len(digits) - d.scale
    IN  CASE d.scale < 0                      -> Error
          [] d.scale >= 0 /\ digits = << >>   -> << "0" >>
          [] OTHER ->
               (IF d.minus /\ d.value # 0 THEN << "-" >> ELSE << >>) \o SubSeq(digits, 1, ahead)
               \o (IF d.scale > 0 THEN << "." >> ELSE << >>) \o SubSeq(digits, ahead + 1, Len(digits))

\* from_buffer of an SQL_NUMERIC_STRUCT: the precision and the scale of the
\* binding stand in for those of the struct.
FromNumericBuffer(num, precision, scale) ==
    DecimalText(FromNumeric(num, precision, scale))

-----------------------------------------------------------------------------
(* Dates and times                                                          *)

Dated(text)   == text.size = 10 \/ text.size \in 19 .. 20 + TickDigits
Midnight      == << 0, 0, 0 >>

\* A year is read from four characters: a minus as a digit, three below zero,
\* and 0 as 1970.
YearRead(y) == IF y = 0 THEN 1970 ELSE IF y < 0 THEN Magnitude(y) - 3000 ELSE y

\* normalize_date.
Normal(c) == << YearRead(c[1]), IF c[2] = 0 THEN 1 ELSE c[2], IF c[3] = 0 THEN 1 ELSE c[3] >>

\* A text to SQL_DATE_STRUCT, SQL_TIME_STRUCT (the time of a timestamp is left
\* out) and SQL_TIMESTAMP_STRUCT (a fraction of the ticks of a second).
ToDate(text) == IF Dated(text) THEN [date |-> Normal(text.date)] ELSE Error

ToTime(text) ==
    CASE text.size = 8                   -> [time |-> text.time]
      [] text.size # 10 /\ Dated(text)   -> [time |-> Midnight]
      [] OTHER                           -> Error

Fraction_Fault(decimals) == NumberOf(decimals)

\* The decimals there are, and zeros for those of a tick that are not.
Fraction(decimals) == NumberOf(decimals) * TenTo(TickDigits - Len(decimals))

ToTimestamp(text) ==
    CASE ~Dated(text)   -> Error
      [] text.size = 10 -> [date |-> Normal(text.date), time |-> Midnight, fraction |-> 0]
      [] OTHER          -> [date |-> Normal(text.date), time |-> text.time, fraction |-> Fraction(text.decimals)]

\* The structs as texts, for parameters.
FromDate(d) == DateText(d.date)
FromTime(t) == TimeText(t.time)
FromTimestamp(ts) ==
    TimestampText(ts.date, ts.time,
                  IF ts.fraction \in 1 .. TicksPerSecond - 1 THEN Decimals(ts.fraction, TickDigits) ELSE << >>)

\* mktime, of a local time.
MkTime(c, t, zone) ==
    ToDays(c) * SecondsPerDay + (t[1] * Minutes + t[2]) * Seconds + t[3] - zone

\* getMillisecondsFromODBCtimestamp: a text that goes on after the seconds is
\* not understood.
Milliseconds(text, zone) ==
    IF text.decimals # << >> THEN -1 ELSE MkTime(text.date, text.time, zone) * MsPerSecond

-----------------------------------------------------------------------------
(* Texts in buffers                                                         *)

FilledEnd_Fault(n, room) == IF n < room THEN n + 1 ELSE IF room > 0 THEN room + 1 ELSE 0

\* Where the terminating null of n symbols is written in a buffer of room.
FilledEnd(n, room) == IF n < room THEN n + 1 ELSE IF room > 0 THEN room ELSE 0

\* fillOutputString: size is that of the buffer, in bytes or in symbols of
\* width bytes; length is what the length pointer is given.
FillOutputString(n, given, size, width, inBytes) ==
    LET room == IF inBytes THEN size \div width ELSE size
        end  == IF given THEN FilledEnd(n, room) ELSE 0
    IN  IF given /\ inBytes /\ size % width # 0 THEN Error
        ELSE [ memory |-> [i \in 1 .. Longest + 2 |->
                             CASE i = end -> "null"
                               [] i # end /\ given /\ i <= SmallerOf(n, room) -> "text"
                               [] OTHER -> "old"],
               length |-> IF inBytes THEN n * width ELSE n,
               result |-> IF n + 1 > room THEN "01004" ELSE "success" ]

SQL_NULL_DATA     == -1
SQL_DATA_AT_EXEC  == -2
SQL_NTS           == -3
SQL_DEFAULT_PARAM == -5

\* from_buffer of a text of symbols with a null after them: what the indicator
\* and the length say; each is empty if its pointer is null.
FromBuffer(n, indicator, length, width) ==
    LET says(values) == indicator # << >> /\ indicator[1] \in values
    IN  CASE says({0, SQL_NTS})                     -> n
          [] says({SQL_NULL_DATA, SQL_DEFAULT_PARAM}) -> 0
          [] says({SQL_DATA_AT_EXEC})               -> Error
          [] OTHER -> IF length # << >> /\ length[1] >= 0 THEN length[1] \div width ELSE n

-----------------------------------------------------------------------------
(* Calls                                                                    *)

ReadInteger ==
    \E text \in NumberText, c \in DOMAIN IntegerOf :
        call' = [op |-> "integer", text |-> text, type |-> IntegerOf[c], out |-> ToInteger(text, IntegerOf[c])]

\* An integer is given as a parameter and read again from a result.
WriteInteger ==
    \E c, d \in DOMAIN IntegerOf :
      \E n \in {Least(IntegerOf[c]), -1, 0, 1, 10, Greatest(IntegerOf[c])} :
        /\ n \in Least(IntegerOf[c]) .. Greatest(IntegerOf[c])
        /\ call' = [op |-> "sent", value |-> n, type |-> IntegerOf[d], back |-> ToInteger(IntegerText(n), IntegerOf[d])]

ReadDouble ==
    \E text \in NumberText : call' = [op |-> "double", text |-> text, out |-> ToDouble(text)]

\* A number is fetched and given back as a parameter.
ReadNumeric ==
    \E text \in NumberText, p \in Precision, s \in Scale :
        LET d   == ToDecimal(text)
            num == IF d = Error THEN Error ELSE ToNumeric(d, p, s)
        IN  call' = [ op |-> "numeric", text |-> text, precision |-> p, scale |-> s, out |-> num,
                      back |-> IF num = Error THEN Error ELSE FromNumericBuffer(num, num.precision, num.scale) ]

ReadDate ==
    \E n \in Day :
        LET date == ToDate(DateString(n))
        IN  call' = [ op |-> "date", days |-> n, date |-> date, timestamp |-> ToTimestamp(DateString(n)),
                      back |-> IF date = Error THEN Error ELSE ToDate(FromDate(date)) ]

ReadTime ==
    \E ms \in Ms :
        /\ ms \in 0 .. SecondsPerDay * MsPerSecond - 1
        /\ LET time == ToTime(TimeString(ms))
           IN  call' = [op |-> "time", ms |-> ms, time |-> time, back |-> ToTime(FromTime(time))]

ReadDateTime ==
    \E ms \in Ms :
        LET text == DateTimeString(ms)
        IN  call' = [ op |-> "datetime", ms |-> ms, timestamp |-> ToTimestamp(text),
                      date |-> ToDate(text), time |-> ToTime(text) ]

\* A timestamp is given as a parameter and read again from a result.
WriteTimestamp ==
    \E ms \in Ms, zone \in Zone, fraction \in {0, 1} :
        LET given == [ToTimestamp(DateTimeString(ms)) EXCEPT !.fraction = fraction]
            sent  == Milliseconds(FromTimestamp(given), zone)
        IN  call' = [ op |-> "timestamp", given |-> given, zone |-> zone, sent |-> sent,
                      back |-> ToTimestamp(DateTimeString(sent)) ]

\* Every day of a year.
ComputeYear ==
    \E y \in Year :
        LET first == ToDays(<< y, 1, 1 >>)
        IN  call' = [ op |-> "year", year |-> y, first |-> first,
                      days |-> [i \in 1 .. ToDays(<< y + 1, 1, 1 >>) - first |-> FromDays(first + i - 1)] ]

\* A text is written to a buffer, and again to one of the length reported.
WriteText ==
    \E n \in 0 .. Longest, given, inBytes \in BOOLEAN, size \in Buffer, width \in {1, 2} :
        LET out == FillOutputString(n, given, size, width, inBytes)
        IN  call' = [ op |-> "write", n |-> n, given |-> given, size |-> size, width |-> width,
                      inBytes |-> inBytes, out |-> out,
                      again |-> IF out = Error THEN Error
                                ELSE FillOutputString(n, TRUE, out.length + (IF inBytes THEN width ELSE 1), width, inBytes) ]

\* A text is read from the buffer of a parameter.
ReadParameter ==
    \E n \in 0 .. Longest, width \in {1, 2}, named \in 0 .. Longest :
      \E indicator \in { << >>, << 0 >>, << SQL_NTS >>, << SQL_NULL_DATA >>, << SQL_DATA_AT_EXEC >>,
                         << SQL_DEFAULT_PARAM >>, << named * width >> },
         length \in { << >>, << named * width >> } :
        call' = [ op |-> "parameter", n |-> n, width |-> width, indicator |-> indicator, length |-> length,
                  out |-> FromBuffer(n, indicator, length, width) ]

ConversionCall ==
    \/ ReadInteger \/ WriteInteger \/ ReadDouble \/ ReadNumeric \/ ReadDate \/ ReadTime \/ ReadDateTime
    \/ WriteTimestamp \/ ComputeYear \/ WriteText \/ ReadParameter

ConversionSpec == NotCalled /\ [][ConversionCall]_call

-----------------------------------------------------------------------------
(* Properties                                                               *)

(* What a text says, place by place. *)
Unsign(text)    == IF text # << >> /\ text[1] \in {"+", "-"} THEN Tail(text) ELSE text
IsInteger(text) == Unsign(text) # << >> /\ ToSet(Unsign(text)) \subseteq Digit
Minus(text)     == text # << >> /\ text[1] = "-"
SumOf(numbers) ==
    LET sum[i \in 0 .. Len(numbers)] == IF i = 0 THEN 0 ELSE sum[i - 1] + numbers[i]
    IN  sum[Len(numbers)]
IntegerIn(text) ==
    LET digits == Unsign(text)
        n      == SumOf([i \in DOMAIN digits |-> DigitOf[digits[i]] * TenTo(Len(digits) - i)])
    IN  IF Minus(text) THEN -n ELSE n

IntegersExact ==
    /\ call.op = "integer" /\ ~(call.type \in Unsigned /\ Minus(call.text)) =>
          call.out = IF IsInteger(call.text) /\ IntegerIn(call.text) \in Least(call.type) .. Greatest(call.type)
                     THEN IntegerIn(call.text)
                     ELSE IF call.text = << "true" >> THEN 1 ELSE IF call.text = << "false" >> THEN 0 ELSE Error
    /\ call.op = "double" /\ IsInteger(call.text) /\ IntegerIn(call.text) \in 0 .. Greatest("uint64") =>
          call.out = IntegerIn(call.text)
    /\ call.op = "sent" /\ ~(call.type \in Unsigned /\ call.value < 0) =>
          call.back = IF call.value \in Least(call.type) .. Greatest(call.type) THEN call.value ELSE Error

\* A decimal without its point, and the digits after the point.
PointIn(text)   == CHOOSE i \in DOMAIN text : text[i] = "."
Unpointed(text) == IF Contains(text, ".")
                   THEN SubSeq(text, 1, PointIn(text) - 1) \o SubSeq(text, PointIn(text) + 1, Len(text))
                   ELSE text
IsDecimal(text) == IsInteger(Unpointed(text))
                   /\ (Unsign(text) # text <=> Unpointed(text) # Unsign(Unpointed(text)))
After(text)     == IF Contains(text, ".") THEN Len(text) - PointIn(text) ELSE 0

\* n tenths, hundredths... of one scale in those of another, the rest cut off.
Cut(n, from, to) == IF to >= from THEN n * TenTo(to - from) ELSE n \div TenTo(from - to)

InBytes(val) == SumOf([i \in DOMAIN val |-> val[i] * Power(Byte, i - 1)])

DecimalsExact ==
    call.op = "numeric" =>
        LET n     == Magnitude(IntegerIn(Unpointed(call.text)))
            scale == IF call.precision = 0 THEN After(call.text) ELSE call.scale
            exact == Cut(n, After(call.text), scale)
            fits  == call.precision # 0 => exact < TenTo(call.precision)
        IN  /\ ~IsDecimal(call.text) /\ ToSet(call.text) \cap Digit # {} => call.out = Error
            /\ IsDecimal(call.text) /\ fits /\ call.out # Error =>
                  /\ InBytes(call.out.val) = exact /\ call.out.scale = scale
                  /\ call.out.minus <=> Minus(call.text) /\ n # 0
                  /\ scale >= 0 => ToDecimal(call.back) =
                        [ToDecimal(call.back) EXCEPT !.value = exact, !.scale = scale,
                                                     !.minus = Minus(call.text) /\ exact # 0]
            /\ /\ IsDecimal(call.text) /\ n <= DecimalMax
               /\ Magnitude(Cut(n, After(call.text), scale)) <= DecimalMax
               /\ call.precision >= call.scale
               /\ fits
               => call.out # Error

\* from_value<std::string>: a text that is an integer within the range of the
\* type asked for is that integer, and any other an error; one that is a decimal
\* whose digits, cut to the scale asked for, are as many as the precision asked
\* for has, or fewer, is that decimal, and a text that is not a number is an
\* error; the bits of a double are those sent; an integer sent as a parameter
\* and a decimal given back as one are those fetched.  Three cases are outside:
\* a decimal with more digits than the precision (type_info.h:1711 has it
\* enforced, and the code passes the number on unless it has more bytes than
\* that), a negative number asked for as unsigned, which may come round, and a
\* text without a digit, which is the decimal zero.
NumbersExact == IntegersExact /\ DecimalsExact

MonthLength(y, m) == CASE m \in {4, 6, 9, 11} -> 30 [] m = 2 -> (IF IsLeap(y) THEN 29 ELSE 28) [] OTHER -> 31

NextDay(c) ==
    IF c[3] < MonthLength(c[1], c[2]) THEN << c[1], c[2], c[3] + 1 >>
    ELSE IF c[2] < 12 THEN << c[1], c[2] + 1, 1 >>
    ELSE << c[1] + 1, 1, 1 >>

\* The number of the first day of a year, counting the leap years.
YearStart(y) ==
    365 * (y - 1970) + Cardinality({x \in 1970 .. y - 1 : IsLeap(x)}) - Cardinality({x \in y .. 1969 : IsLeap(x)})

DaysBefore(y, m) ==
    << 0, 31, 59, 90, 120, 151, 181, 212, 243, 273, 304, 334 >>[m] + (IF m > 2 /\ IsLeap(y) THEN 1 ELSE 0)

IsDate(c) == c[2] \in 1 .. 12 /\ c[3] \in 1 .. MonthLength(c[1], c[2])

IsDay(c, n) == IsDate(c) /\ n = YearStart(c[1]) + DaysBefore(c[1], c[2]) + c[3] - 1

\* The days of the years 1 to 9999, whose dates can be read.
LegibleDays == YearStart(1) .. YearStart(10000) - 1

SecondOf(t) == (t[1] * Minutes + t[2]) * Seconds + t[3]

MsPerDay == SecondsPerDay * MsPerSecond

\* The timestamp of a number of milliseconds.
IsTimestamp(ts, ms) ==
    /\ IsDay(ts.date, ms \div MsPerDay)
    /\ SecondOf(ts.time) = (ms % MsPerDay) \div MsPerSecond
    /\ ts.fraction = (ms % MsPerSecond) * TicksPerMs

\* Milliseconds that fit the ticks, of a year of four digits.
Shown(ms) == InWidth(ms * TicksPerMs, TickBits) = ms * TicksPerMs /\ ms \div MsPerDay \in LegibleDays

\* The dates and times the service sends as numbers arrive in the structs of
\* the application as the calendar has them, before and after 1970 and in
\* leap years, as long as the milliseconds fit the ticks of the system clock
\* and the year has four digits; a timestamp without a fraction given as a
\* parameter comes back in UTC.
TimesReadBack ==
    /\ call.op = "year" =>
          /\ call.first = YearStart(call.year) /\ call.days[1] = << call.year, 1, 1 >>
          /\ \A i \in DOMAIN call.days \ {1} : call.days[i] = NextDay(call.days[i - 1])
    /\ call.op = "date" /\ call.days \in LegibleDays =>
          /\ IsDay(call.date.date, call.days) /\ call.back = call.date
          /\ call.timestamp = [date |-> call.date.date, time |-> Midnight, fraction |-> 0]
    /\ call.op = "time" => SecondOf(call.time.time) = call.ms \div MsPerSecond /\ call.back = call.time
    /\ call.op = "datetime" /\ Shown(call.ms) =>
          /\ IsTimestamp(call.timestamp, call.ms)
          /\ call.date = [date |-> call.timestamp.date]
    /\ call.op = "timestamp" /\ call.given.fraction = 0 /\ IsDate(call.given.date) /\ Shown(call.sent) =>
          /\ IsTimestamp(call.back, call.sent)
          /\ call.zone = 0 => call.back = call.given

Whole(memory, n) == (\A i \in 1 .. n : memory[i] = "text") /\ memory[n + 1] = "null"

\* fillOutputString: nothing is written behind a buffer; there is a null in
\* it, after the text or the part of it that fits; success says that all of
\* the text is there; and the length reported, with room for a null, is what
\* a second call needs.  (Of the memory of a buffer of size zero it says
\* nothing: type_info.h:152 has it hold the whole text, and the code writes
\* none of it.)  from_buffer: a parameter given by its length or by its null is
\* read so, unless its length is zero.
TextsInBuffers ==
    /\ call.op = "write" /\ call.out # Error =>
          LET room   == IF call.inBytes THEN call.size \div call.width ELSE call.size
              memory == call.out.memory
          IN  /\ \A i \in DOMAIN memory : ~call.given \/ (i > room /\ call.size > 0) => memory[i] = "old"
              /\ call.given /\ room > 0 => \E k \in 0 .. SmallerOf(room, Longest + 2) - 1 : Whole(memory, k)
              /\ call.given /\ call.out.result = "success" => Whole(memory, call.n)
              /\ call.again.result = "success" /\ Whole(call.again.memory, call.n)
    /\ call.op = "parameter" =>
          /\ call.indicator = << SQL_NTS >> => call.out = call.n
          /\ call.indicator # << >> /\ call.indicator = call.length /\ call.length # << 0 >> =>
                call.out = call.length[1] \div call.width
=============================================================================
