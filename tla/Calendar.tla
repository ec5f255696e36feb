------------------------------ MODULE Calendar ------------------------------
(* The calendar of date.h and the texts made with it: days since 1970 and   *)
(* milliseconds, of the day or since 1970, become dates and times.          *)
(*                                                                          *)
(* The fields of a day are scaled down; the years and days are the real     *)
(* ones.  A text of a date or time is a record of its fields; its size is   *)
(* that of the characters.                                                  *)
EXTENDS Numbers

CONSTANTS
    Hours, Minutes, Seconds,  \* hours of a day, minutes of an hour, seconds of a minute
    MsDigits, TickDigits,     \* decimals of a second in milliseconds and in system_clock's ticks
    TickBits                  \* width of a count of ticks

ASSUME CalendarAssumption ==
    /\ Hours \in 1 .. 24 /\ Minutes \in 1 .. 60 /\ Seconds \in 1 .. 60
    /\ MsDigits \in Nat \ {0} /\ TickDigits \in Nat /\ TickDigits > MsDigits
    /\ TickBits \in Nat \ {0}

NumberOf(digits) == NumberIn(10, digits)
TenTo(k)         == Power(10, k)

MsPerSecond    == TenTo(MsDigits)
TicksPerSecond == TenTo(TickDigits)
TicksPerMs     == TenTo(TickDigits - MsDigits)
SecondsPerDay  == Hours * Minutes * Seconds

\* A count of ticks, of nanoseconds in 64 bits, is at most some centuries from
\* 1970: the year of a timestamp has four digits.
ASSUME TicksAssumption == Power(2, TickBits - 1) <= 300 * 365 * SecondsPerDay * TicksPerSecond

\* A count of w bits that is too large or too small comes round again.
InWidth(n, w) == ((n + Power(2, w - 1)) % Power(2, w)) - Power(2, w - 1)

-----------------------------------------------------------------------------
(* Days                                                                     *)

IsLeap(y) == y % 4 = 0 /\ (y % 100 # 0 \/ y % 400 = 0)

\* year_month_day::from_days: year, month and day of a day; a year of the
\* computation begins in March, an era has 400 of them.
FromDays(n) ==
    LET z   == n + 719468
        doe == z % 146097
        yoe == (doe - doe \div 1460 + doe \div 36524 - doe \div 146096) \div 365
        doy == doe - (365 * yoe + yoe \div 4 - yoe \div 100)
        mp  == (5 * doy + 2) \div 153
        m   == IF mp < 10 THEN mp + 3 ELSE mp - 9
    IN  << yoe + (z \div 146097) * 400 + (IF m <= 2 THEN 1 ELSE 0), m, doy - (153 * mp + 2) \div 5 + 1 >>

\* year_month_day::to_days.
ToDays(c) ==
    LET y   == IF c[2] <= 2 THEN c[1] - 1 ELSE c[1]
        yoe == y % 400
        doy == (153 * (IF c[2] > 2 THEN c[2] - 3 ELSE c[2] + 9) + 2) \div 5 + c[3] - 1
    IN  (y \div 400) * 146097 + yoe * 365 + yoe \div 4 - yoe \div 100 + doy - 719468

-----------------------------------------------------------------------------
(* Times                                                                    *)

Magnitude(n) == IF n < 0 THEN -n ELSE n

\* hh_mm_ss of a count with perSecond of them in a second: hours, minutes,
\* seconds and what is left.
HhMmSs(n, perSecond) ==
    LET t == Magnitude(n)
        s == t \div perSecond
    IN  << s \div (Seconds * Minutes), (s \div Seconds) % Minutes, s % Seconds, t % perSecond >>

-----------------------------------------------------------------------------
(* Texts                                                                    *)

\* The decimals of n, as many as asked for.
Decimals(n, digits) == [i \in 1 .. digits |-> (n \div TenTo(digits - i)) % 10]

\* %04d-%02d-%02d, %02d:%02d:%02d and both with a fraction.
DateText(c)    == [size |-> IF c[1] \in -999 .. 9999 THEN 10 ELSE 11, date |-> c]
TimeText(t)    == [size |-> 8, time |-> SubSeq(t, 1, 3)]
TimestampText(c, t, decimals) ==
    [ size     |-> DateText(c).size + 9 + (IF decimals = << >> THEN 0 ELSE 1 + Len(decimals)),
      date     |-> c,
      time     |-> SubSeq(t, 1, 3),
      decimals |-> decimals ]

\* convertDaysSinceEpochToDateString, with 1970-01-01 for the day 0.
DateString(days) == DateText(FromDays(ToDays(<< 1970, 1, 1 >>) + days))

\* convertMillisecondsSinceBeginningOfDayToTimeString: the fraction is left out.
TimeString(ms) == TimeText(HhMmSs(ms, MsPerSecond))

\* convertMillisecondsSinceEpochToDateTimeString: in ticks of the system clock,
\* floor and the rest of the day; all decimals are written, then the text is
\* cut after the milliseconds.
DateTimeString(ms) ==
    LET ticks == InWidth(ms * TicksPerMs, TickBits)
        day   == ticks \div (SecondsPerDay * TicksPerSecond)
        time  == HhMmSs(ticks % (SecondsPerDay * TicksPerSecond), TicksPerSecond)
    IN  TimestampText(FromDays(day), time, SubSeq(Decimals(time[4], TickDigits), 1, MsDigits))
=============================================================================
