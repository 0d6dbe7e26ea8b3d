------------------------------ MODULE DateTime ------------------------------
(***************************************************************************)
(* Base/src/DateTime.cpp: a date and time of day, set in range and         *)
(* adjusted by years, months, days, hours, minutes and seconds; and        *)
(* Base/include/BasicFormat.h and CustomFormat.h: the texts it is written  *)
(* as and read from, and the numbers it is given and set as.               *)
(*                                                                         *)
(* Years, months and days are those of the code.  The code's day of 24     *)
(* hours of 60 minutes of 60 seconds is shortened by three constants, so   *)
(* that TLC can count the seconds since the year 1; every carry remains.   *)
(***************************************************************************)
EXTENDS Integers, Sequences, FiniteSets, FiniteSetsExt, SequencesExt

CONSTANTS HoursPerDay, MinutesPerHour, SecondsPerMinute,
          Inputs,      \* dates passed to SetDate and SetDateTime
          Amounts,     \* amounts added or subtracted
          MaxCalls,    \* BOUND: additions and subtractions on one date
          FarYear,     \* BOUND: latest year from which seconds are subtracted,
                       \*   which takes a turn for every month since 1900
          Stray        \* what lies before the array mdays

VARIABLES date,    \* the fields of the DateTime
          call,    \* the latest call: what it added or subtracted
          calls    \* additions and subtractions since the date was set

vars == <<date, call, calls>>

MINYEAR == 1900
MAXYEAR == 3000

SecondsPerHour == MinutesPerHour * SecondsPerMinute
SecondsPerDay == HoursPerDay * SecondsPerHour

\* C++ rounds a quotient towards 0, and the remainder has the dividend's sign.
Quotient(a, b) == IF a >= 0 THEN a \div b ELSE -((-a) \div b)
Remainder(a, b) == a - b * Quotient(a, b)

mdays == <<31, 28, 31, 30, 31, 30, 31, 31, 30, 31, 30, 31>>

IsLeapYear(year) == \/ year % 400 = 0
                    \/ year % 4 = 0 /\ year % 100 # 0

\* Init and SetDate leave the time of day at its minimum.
Midnight(y, m, d) == [year |-> y, month |-> m, day |-> d, hour |-> 0, min |-> 0, sec |-> 0]
FirstDate == Midnight(MINYEAR, 1, 1)

-----------------------------------------------------------------------------
(* The calendar as the code has it.                                        *)

\* Days since the beginning of the year 1, without the leap day of `year'.
GetDaysFromFirstYear(year, month, day) ==
  LET past == year - 1
  IN  past * 365 + (past \div 4) - (past \div 100) + (past \div 400)
        + MapThenSumSet(LAMBDA i : mdays[i], 1..(month - 1)) + day

GetTotalSeconds(dt) ==
  GetDaysFromFirstYear(dt.year, dt.month, dt.day) * SecondsPerDay
    + dt.hour * SecondsPerHour + dt.min * SecondsPerMinute + dt.sec

\* operator- of two dates: what lies between them, in seconds.
Difference(advanced, lated) == GetTotalSeconds(advanced) - GetTotalSeconds(lated)

\* Sunday is 0.
GetDayofWeek(dt) == GetDaysFromFirstYear(dt.year, dt.month, dt.day) % 7

ClampLeapDay(dt) ==
  IF ~IsLeapYear(dt.year) /\ dt.month = 2 /\ dt.day = 29 THEN [dt EXCEPT !.day = 28] ELSE dt

AddYear(dt, y) == ClampLeapDay([dt EXCEPT !.year = @ + y])
SubtractYear(dt, y) == ClampLeapDay([dt EXCEPT !.year = @ - y])

AddMonth(dt, m) ==
  LET sum_mon == dt.month + m
  IN  ClampLeapDay([dt EXCEPT !.month = sum_mon % 12, !.year = @ + sum_mon \div 12])

SubtractMonth(dt, m) ==
  LET sub_month == m % 12
      before == [dt EXCEPT !.year = @ - (m \div 12)]
  IN  ClampLeapDay(IF dt.month > sub_month
                   THEN [before EXCEPT !.month = @ - sub_month]
                   ELSE [before EXCEPT !.month = 12 + @ - sub_month, !.year = @ - 1])

\* mdays[_month - 1] and the leap day; AddMonth can leave month 0.
MonthDays(year, month, stray) ==
  IF month = 0 THEN stray
  ELSE mdays[month] + IF IsLeapYear(year) /\ month = 2 THEN 1 ELSE 0

\* The last day of the month before `month': the day is 0 for a moment.
NextMonth(dt) == IF dt.month = 12 THEN [dt EXCEPT !.year = @ + 1, !.month = 1, !.day = 0]
                                  ELSE [dt EXCEPT !.month = @ + 1, !.day = 0]

\* The six members, whatever calls made of them.
Members == [year : Int, month : Int, day : Int, hour : Int, min : Int, sec : Int]

\* Month by month until the remaining days fit into the month.
AddDays(dt, days, stray) ==
  LET added[d \in Members, remain_days \in Int] ==
        LET cur_month_remainday == MonthDays(d.year, d.month, stray) - d.day
        IN  IF remain_days <= cur_month_remainday
            THEN [d EXCEPT !.day = @ + remain_days]
            ELSE added[NextMonth(d), remain_days - cur_month_remainday]
  IN  added[dt, days]

\* Mutant: a full hour does not carry into the hours of the day.
AddSecondsNoHourCarry(dt, s, stray) ==
  LET sum_sec == s + dt.sec
      sum_min == Quotient(sum_sec, SecondsPerMinute) + dt.min
      day == (sum_min \div MinutesPerHour) \div HoursPerDay
      timed == [dt EXCEPT !.sec = Remainder(sum_sec, SecondsPerMinute),
                          !.min = sum_min % MinutesPerHour]
  IN  IF day > 0 THEN AddDays(timed, day, stray) ELSE timed

\* Seconds, minutes, hours, days, each only if the one before carries.
AddSeconds(dt, s, stray) ==
  LET sum_sec == s + dt.sec
      carry_min == Quotient(sum_sec, SecondsPerMinute)
      sum_min == carry_min + dt.min
      carry_hour == sum_min \div MinutesPerHour
      sum_hour == carry_hour + dt.hour
      day == sum_hour \div HoursPerDay
      sec_set == [dt EXCEPT !.sec = Remainder(sum_sec, SecondsPerMinute)]
      min_set == [sec_set EXCEPT !.min = sum_min % MinutesPerHour]
      hour_set == [min_set EXCEPT !.hour = sum_hour % HoursPerDay]
  IN  IF carry_min <= 0 THEN sec_set
      ELSE IF carry_hour <= 0 THEN min_set
      ELSE IF day <= 0 THEN hour_set
      ELSE AddDays(hour_set, day, stray)

\* _precalc_intermid_sec.
BeforeFirstDate == GetDaysFromFirstYear(MINYEAR, 1, 1) * SecondsPerDay

\* Init, and what is left of the seconds is added to the first date.
SubtractSeconds(dt, s, stray) ==
  AddSeconds(FirstDate, GetTotalSeconds(dt) - BeforeFirstDate - s, stray)

\* What SetDate and SetDateTime accept.
InRange(dt) == /\ dt.year \in MINYEAR..MAXYEAR
               /\ dt.month \in 1..12
               /\ dt.day \in 1..31
               /\ dt.hour \in 0..(HoursPerDay - 1)
               /\ dt.min \in 0..(MinutesPerHour - 1)
               /\ dt.sec \in 0..(SecondsPerMinute - 1)

-----------------------------------------------------------------------------
(* Texts and numbers.  A text is a sequence of digits, 0..9, and of        *)
(* separators, which are all the same one: Parse reads the digits at fixed *)
(* places and looks at nothing else.  A format is a record of what         *)
(* distinguishes the formats.                                              *)

Separator == -1
IsDigit(c) == c \in 0..9

Fields == <<"year", "month", "day", "hour", "min", "sec">>

\* atoi of a piece of a text: its digits up to the first other character.
atoi(text) ==
  LET ends == {n \in 0..Len(text) : \A i \in 1..n : IsDigit(text[i])}
  IN  FoldLeft(LAMBDA n, digit : 10 * n + digit, 0, SubSeq(text, 1, Max(ends)))

\* The digits of a number that is not negative; %0wd pads them to w.
Digits[n \in Nat] == IF n < 10 THEN <<n>> ELSE Append(Digits[n \div 10], n % 10)

\* Mutant: they are not padded.
Unpadded(n, w) == Digits[n]

Padded(n, w) == [i \in 1..Max({0, w - Len(Digits[n])}) |-> 0] \o Digits[n]

\* size: the shortest text Parse takes; at: where it looks for each field
\* (counted from 0); gaps: how many separators ToString puts in front of each
\* field and, at the end, behind the last.
Format(size, at, gaps) == [size |-> size, at |-> at, gaps |-> gaps]

YYYYMMDDHHMISS == Format(14, <<0, 4, 6, 8, 10, 12>>, <<0, 0, 0, 0, 0, 0, 0>>)
\* YYYY-MM-DD HH:MI:SS; Parse refuses 19 characters and fewer, and ToString
\* writes 19.
DashedDateTime == Format(20, <<0, 5, 8, 11, 14, 17>>, <<0, 1, 1, 1, 1, 1, 0>>)
YYYYMMDD == Format(8, <<0, 4, 6>>, <<0, 0, 0, 0>>)
SlashedDate == Format(10, <<0, 5, 8>>, <<0, 1, 1, 0>>)
DashedDate == Format(10, <<0, 5, 8>>, <<0, 1, 1, 0>>)
CustomFormat1 == Format(27, <<0, 6, 10, 16, 20, 24>>, <<0, 2, 2, 4, 2, 2, 1>>)

Width(k) == IF k = 1 THEN 4 ELSE 2
Gap(n) == [i \in 1..n |-> Separator]

DateText(f, dt) ==
  FlattenSeq([k \in 1..Len(f.at) |-> Gap(f.gaps[k]) \o Padded(dt[Fields[k]], Width(k))])
    \o Gap(f.gaps[Len(f.at) + 1])

\* A text that is too short gives zeros, and so do the fields a format lacks.
Parse(f, text) ==
  LET field(k) == IF Len(text) < f.size \/ k > Len(f.at) THEN 0
                  ELSE atoi(SubSeq(text, f.at[k] + 1, f.at[k] + Width(k)))
  IN  [year |-> field(1), month |-> field(2), day |-> field(3),
       hour |-> field(4), min |-> field(5), sec |-> field(6)]

\* SetDateTime and SetDate with a text: what the DateTime is afterwards, and
\* NoDate where they return false.
NoDate == <<>>
SetDateTimeFrom(f, text) == IF InRange(Parse(f, text)) THEN Parse(f, text) ELSE NoDate
SetDateFrom(f, text) ==
  LET dt == Parse(f, text)
  IN  IF InRange(Midnight(dt.year, dt.month, dt.day))
      THEN Midnight(dt.year, dt.month, dt.day) ELSE NoDate

\* GetDate and GetTime are numbers; GetDateTime, the one in front of the six
\* digits of the other, does not fit an integer of TLC and is its digits.
GetDate(dt) == dt.year * 10000 + dt.month * 100 + dt.day
GetTime(dt) == dt.hour * 10000 + dt.min * 100 + dt.sec
GetDateTime(dt) == Digits[GetDate(dt)] \o Padded(GetTime(dt), 6)

\* SetDate(int) and SetDateTime(long long): the digits are read as a text.
SetDateNumber(n) == SetDateFrom(YYYYMMDD, Digits[n])
SetDateTimeNumber(digits) == SetDateTimeFrom(YYYYMMDDHHMISS, digits)

-----------------------------------------------------------------------------
(* The calls.                                                              *)

SecondsOf == [HOUR |-> SecondsPerHour, MIN |-> SecondsPerMinute, SEC |-> 1]
Units == {"YEAR", "MONTH", "DAY"} \cup DOMAIN SecondsOf

NoCall == [op |-> "none", unit |-> "none", amount |-> 0]

Init == date = FirstDate /\ call = NoCall /\ calls = 0

\* SetDate and SetDateTime: out of range, they return false.
SetDateTime(dt) ==
  /\ InRange(dt)
  /\ date' = dt
  /\ call' = NoCall
  /\ calls' = 0

Called(op, unit, amount) ==
  /\ calls < MaxCalls
  /\ calls' = calls + 1
  /\ call' = [op |-> op, unit |-> unit, amount |-> amount]

\* operator+ of each unit.
Add(unit, amount) ==
  /\ Called("add", unit, amount)
  /\ \E stray \in Stray :
       date' = CASE unit = "YEAR" -> AddYear(date, amount)
                 [] unit = "MONTH" -> AddMonth(date, amount)
                 [] unit = "DAY" -> AddDays(date, amount, stray)
                 [] OTHER -> AddSeconds(date, amount * SecondsOf[unit], stray)

\* operator- of each unit.
Subtract(unit, amount) ==
  /\ Called("subtract", unit, amount)
  /\ unit \in {"YEAR", "MONTH"} \/ date.year <= FarYear
  /\ \E stray \in Stray :
       date' = CASE unit = "YEAR" -> SubtractYear(date, amount)
                 [] unit = "MONTH" -> SubtractMonth(date, amount)
                 [] unit = "DAY" -> SubtractSeconds(date, amount * SecondsPerDay, stray)
                 [] OTHER -> SubtractSeconds(date, amount * SecondsOf[unit], stray)

\* Adjust adds an amount that is not negative and subtracts the opposite of
\* a negative one.
Adjust(unit, amount) == Add(unit, amount) \/ Subtract(unit, amount)

Next == \/ \E dt \in Inputs : SetDateTime(dt)
        \/ \E unit \in Units, amount \in Amounts : Adjust(unit, amount)

Spec == Init /\ [][Next]_vars

-----------------------------------------------------------------------------
(* The Gregorian calendar, to compare with: every year and month counted.  *)

LeapYears(years) == {y \in years : 4 * (y \div 4) = y}
                      \ {y \in years : 100 * (y \div 100) = y /\ 400 * (y \div 400) # y}

MonthLength(year, month) ==
  IF month = 2 /\ year \in LeapYears({year}) THEN 29 ELSE mdays[month]

Real(dt) == InRange(dt) /\ dt.day <= MonthLength(dt.year, dt.month)

DaysSinceFirst(dt) ==
  365 * (dt.year - MINYEAR) + Cardinality(LeapYears(MINYEAR..(dt.year - 1)))
    + MapThenSumSet(LAMBDA m : MonthLength(dt.year, m), 1..(dt.month - 1)) + dt.day - 1

\* Seconds since the first date.
Instant(dt) == DaysSinceFirst(dt) * SecondsPerDay
                 + dt.hour * SecondsPerHour + dt.min * SecondsPerMinute + dt.sec

BehindLeapDay(dt) == dt.year \in LeapYears({dt.year}) /\ dt.month > 2

Calls(op, units) == call'.op = op /\ call'.unit \in units
InSeconds(c) == c.amount * (IF c.unit = "DAY" THEN SecondsPerDay ELSE SecondsOf[c.unit])
Durations == {"DAY"} \cup DOMAIN SecondsOf

-----------------------------------------------------------------------------
(***************************************************************************)
(* Adding days, hours, minutes or seconds to a date of the calendar gives  *)
(* the date that much later, over the ends of months, leap days and years  *)
(* (DateTime.cpp:240-300).                                                 *)
(***************************************************************************)
AddIsExact ==
  [][Real(date) /\ Calls("add", Durations)
       => Real(date') /\ Instant(date') = Instant(date) + InSeconds(call')]_vars

(***************************************************************************)
(* Subtracting them gives the date that much earlier, unless the date is   *)
(* behind the leap day of its year, which GetDaysFromFirstYear leaves out, *)
(* or the result lies before 1900 (DateTime.cpp:171-205, 328-335).         *)
(***************************************************************************)
SubtractIsExact ==
  [][Real(date) /\ ~BehindLeapDay(date) /\ Calls("subtract", Durations)
       /\ Instant(date) >= InSeconds(call')
       => Real(date') /\ Instant(date') = Instant(date) - InSeconds(call')]_vars

(***************************************************************************)
(* Years and months move the date by exactly so many months, whatever the  *)
(* month they start in, even the month 0 AddMonth makes of a December      *)
(* (DateTime.cpp:222-238, 302-326).                                        *)
(***************************************************************************)
MonthsOf(dt) == 12 * dt.year + dt.month
Months(c) == IF c.unit = "YEAR" THEN 12 * c.amount ELSE c.amount

MonthsAreCounted ==
  [][/\ Calls("add", {"YEAR", "MONTH"}) => MonthsOf(date') = MonthsOf(date) + Months(call')
     /\ Calls("subtract", {"YEAR", "MONTH"})
          => MonthsOf(date') = MonthsOf(date) - Months(call')]_vars

(***************************************************************************)
(* The day of the week follows the calendar - 1900 began on a Monday -     *)
(* except behind a leap day (DateTime.cpp:166-192).                        *)
(***************************************************************************)
DayofWeekFollows ==
  Real(date) /\ ~BehindLeapDay(date) => GetDayofWeek(date) = (DaysSinceFirst(date) + 1) % 7

(***************************************************************************)
(* DateTime.h:139: the difference of two dates is returned in seconds.     *)
(* The code leaves out the leap day of the current year.                   *)
(***************************************************************************)
DifferenceIsElapsed ==
  \A dt \in Inputs :
    Real(date) /\ Real(dt) => Difference(date, dt) = Instant(date) - Instant(dt)

(***************************************************************************)
(* What a date is written as, text or number, sets the same date again, in *)
(* every format; but that of YYYY-MM-DD HH:MI:SS reads only texts longer   *)
(* than the one it writes, and is given one character more                 *)
(* (BasicFormat.h:11-170, CustomFormat.h:12-45, DateTime.cpp:82-117).      *)
(***************************************************************************)
DateReadsBack ==
  InRange(date) =>
    /\ \A f \in {YYYYMMDDHHMISS, CustomFormat1} : SetDateTimeFrom(f, DateText(f, date)) = date
    /\ \A f \in {YYYYMMDD, SlashedDate, DashedDate} :
         SetDateFrom(f, DateText(f, date)) = Midnight(date.year, date.month, date.day)
    /\ SetDateNumber(GetDate(date)) = Midnight(date.year, date.month, date.day)
    /\ SetDateTimeNumber(GetDateTime(date)) = date
    /\ SetDateTimeFrom(DashedDateTime, Append(DateText(DashedDateTime, date), Separator)) = date
=============================================================================
