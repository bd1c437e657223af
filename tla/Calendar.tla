------------------------------- MODULE Calendar -------------------------------
(***************************************************************************)
(* The mktime experiments of src/RingQueue/main.cpp: linux_mktime,         *)
(* git_mktime, fast_mktime_v1, _v2 and _v3, get_day_of_week and            *)
(* adjust_dst_time, checked against a calendar that is walked day by day.  *)
(* A timestamp is its minutes, and its seconds beyond them.  Months count  *)
(* from 1, in a struct tm from 0.                                          *)
(***************************************************************************)
EXTENDS Integers, Sequences

CONSTANTS
  FirstYear, LastYear,  \* the walk: from 1 January to 31 December
  V3Years,              \* the years fast_mktime_v3 is asked about: a bound
  DayOffsets,           \* how many days off a struct tm may be
  Clocks,               \* its hour, minute and second
  MaxCarries,           \* rounds of fast_mktime_v3's loop over years: a bound
  TableYears            \* rows of the three tables, 128 in the code

START_YEAR == 1970
BASE_YEAR == 1900

ASSUME CalendarAssumption ==
  /\ FirstYear \in Nat /\ LastYear \in Nat /\ FirstYear >= 1970
  /\ TableYears \in Nat \ {0}
  /\ V3Years \subseteq START_YEAR..(START_YEAR + TableYears - 1)

-----------------------------------------------------------------------------
(* The tables *)

is_leap(y) == IF (y % 4 = 0 /\ y % 100 # 0) \/ y % 400 = 0 THEN 1 ELSE 0

\* total_days of the row of year y.
total_days(y) ==
  LET before(z) == z \div 4 - z \div 100 + z \div 400 IN
  (y - START_YEAR) * 365 + before(y - 1) - before(START_YEAR - 1)

s_month_days == <<31, 28, 31, 30, 31, 30, 31, 31, 30, 31, 30, 31>>
s_month_ydays == <<-1, 30, 58, 89, 119, 150, 180, 211, 242, 272, 303, 333>>
YDays(leap, m) == s_month_ydays[m] + (IF m > 2 THEN leap ELSE 0)
MDays(leap, m) == s_month_days[m] + (IF m = 2 THEN leap ELSE 0)

-----------------------------------------------------------------------------
(* The functions *)

\* February is moved to the end of the year before.
linux_days(year, month, day) ==
  LET early == month <= 2
      y == IF early THEN year - 1 ELSE year
      m == IF early THEN month + 10 ELSE month - 2
  IN  (y \div 4 - y \div 100 + y \div 400 + (367 * m) \div 12 + day) + y * 365 - 719499

\* Mutant: 29 February is counted from January on.
GitDaysEager(year, month, day) ==
  LET y == year - 1970 IN
  y * 365 + (y + 1) \div 4 + (s_month_ydays[month] + 1)
    + (IF ((y + 2) % 4) # 0 THEN day - 1 ELSE day)

git_days(year, month, day) ==
  LET y == year - 1970 IN
  y * 365 + (y + 1) \div 4 + (s_month_ydays[month] + 1)
    + (IF month < 3 \/ ((y + 2) % 4) # 0 THEN day - 1 ELSE day)
git_accepts(year) == year - 1970 \in 0..129

\* fast_mktime_v1 and _v2 differ in the table they read.
fast_accepts(year) == year - START_YEAR \in 0..136
fast_days(year, month, day) == total_days(year) + YDays(is_leap(year), month) + day

get_day_of_week(year, month, day) ==
  (total_days(year) + YDays(is_leap(year), month) + day + 4) % 7

\* The hours between which a year has summer time.
s_zone_02_dst_info ==
  <<<<(5844 + 120 + 3) * 24 + 2, (5844 + 243 + 13) * 24 + 1>>,
    <<(6209 + 90 + 11) * 24 + 2, (6209 + 243 + 12) * 24 + 1>>,
    <<(6574 + 91 + 16) * 24 + 2, (6574 + 244 + 10) * 24 + 1>>,
    <<(6940 + 90 + 15) * 24 + 2, (6940 + 243 + 16) * 24 + 1>>,
    <<(7305 + 90 + 14) * 24 + 2, (7305 + 243 + 15) * 24 + 1>>,
    <<(7670 + 90 + 13) * 24 + 2, (7670 + 243 + 14) * 24 + 1>>>>

\* Minutes to subtract.
adjust_dst_time(tm_year, minutes) ==
  IF tm_year \in 86..91 /\ s_zone_02_dst_info[tm_year - 85][1] * 60 <= minutes
                        /\ minutes < s_zone_02_dst_info[tm_year - 85][2] * 60
  THEN 60 ELSE 0

-----------------------------------------------------------------------------
(* fast_mktime_v3 *)

\* The leap years it tells by its own formula, of the year since 1900.
v3_leap(tm_year) ==
  IF (tm_year % 4 = 0 /\ tm_year % 100 # 0) \/ tm_year % 400 = 0 THEN 1 ELSE 0

\* month >= 3, of a month that counts from 0.
AfterFebruary(month) == month >= 3

\* Mutant: the year that holds the 29 February is taken for the other one.
YearLengthSwapped(leap, next, after) == 365 + (IF after THEN leap ELSE next)

\* Days from a date to the same date of the next year.
YearLength(leap, next, after) == 365 + (IF after THEN next ELSE leap)

\* The loops that carry days into years; d is [year, mday, yday, leap].  More
\* than MaxCarries rounds are taken for ever: ends is then FALSE.
RECURSIVE CarryYears(_, _, _)
CarryYears(month, d, rounds) ==
  LET after == AfterFebruary(month)
      up == IF d.leap = 1 THEN 0 ELSE v3_leap(d.year + 1)
      down == IF d.leap = 1 THEN 0 ELSE v3_leap(d.year - 1)
      n == IF d.yday < 0 THEN -YearLength(down, d.leap, after) ELSE YearLength(d.leap, up, after)
      in == d.yday \in 0..(364 + d.leap)
  IN  IF in \/ rounds = 0 THEN [year |-> d.year, mday |-> d.mday, ends |-> in]
      ELSE CarryYears(month,
             [year |-> IF d.yday < 0 THEN d.year - 1 ELSE d.year + 1,
              mday |-> d.mday - n, yday |-> d.yday - n,
              leap |-> IF d.yday < 0 THEN down ELSE up], rounds - 1)

\* A carry that leaves the minute or the hour in range is not stored in the struct
\* tm, which the result is made of.
Stored(carried, told, base) == IF carried \in 0..(base - 1) THEN told ELSE carried % base

\* The minutes of its value and the struct tm it leaves; ok is FALSE for -1.
\* Seconds, minutes, hours and months are carried by floor division, days only
\* into years: the test that ends the loop over months holds of every day.
fast_mktime_v3(tm) ==
  LET minute == tm.min + tm.sec \div 60
      hour == tm.hour + minute \div 60
      mday == tm.mday + hour \div 24
      tm_min == Stored(minute, tm.min, 60)
      tm_hour == Stored(hour, tm.hour, 24)
      year == tm.year + tm.mon \div 12
      month == tm.mon % 12
      leap == IF year >= 70 THEN is_leap(year + BASE_YEAR) ELSE v3_leap(year)
      d == CarryYears(month, [year |-> year, mday |-> mday, leap |-> leap,
                              yday |-> YDays(leap, month + 1) + mday], MaxCarries)
      y == d.year + BASE_YEAR
      yday == YDays(is_leap(y), month + 1) + d.mday
      timestamp == ((total_days(y) + yday) * 24 + tm_hour) * 60 + tm_min
  IN  IF ~d.ends THEN [ok |-> FALSE, ends |-> FALSE]
      ELSE IF ~fast_accepts(y) THEN [ok |-> FALSE, ends |-> TRUE]
      ELSE [ok |-> TRUE, ends |-> TRUE,
            minutes |-> timestamp - adjust_dst_time(d.year, timestamp),
            tm |-> [year |-> d.year, mon |-> month, mday |-> d.mday, hour |-> tm_hour,
                    min |-> tm_min, sec |-> tm.sec % 60]]

-----------------------------------------------------------------------------
(* The calendar the functions are judged by: every day from 1 January of   *)
(* FirstYear, with the days since 1 January 1970.                          *)

VARIABLES year, month, day, days
vars == <<year, month, day, days>>

\* The days up to FirstYear are counted one year at a time.
DaysTo[y \in START_YEAR..FirstYear] ==
  IF y = START_YEAR THEN 0 ELSE DaysTo[y - 1] + 365 + is_leap(y - 1)

Init == year = FirstYear /\ month = 1 /\ day = 1 /\ days = DaysTo[FirstYear]

Tomorrow ==
  /\ days' = days + 1
  /\ IF day < MDays(is_leap(year), month)
     THEN day' = day + 1 /\ UNCHANGED <<year, month>>
     ELSE /\ day' = 1
          /\ month' = (month % 12) + 1
          /\ year' = IF month = 12 THEN year + 1 ELSE year

Next == year <= LastYear /\ Tomorrow
Spec == Init /\ [][Next]_vars

InTable(y) == y - START_YEAR \in 0..(TableYears - 1)

-----------------------------------------------------------------------------
(* Properties *)

\* linux_mktime counts the days, also around 29 February and in 2000 and 2100.
LinuxCounts == linux_days(year, month, day) = days

\* git_mktime counts them for every year it accepts.
GitCounts == git_accepts(year) => git_days(year, month, day) = days

\* fast_mktime_v1 and _v2 count them for every year of their tables, and
\* get_day_of_week knows that 1 January 1970 was a Thursday.
FastCounts ==
  InTable(year) => /\ fast_days(year, month, day) = days
                   /\ get_day_of_week(year, month, day) = (4 + days) % 7

\* The first and the last day of the summer times that the comments beside
\* s_zone_02_dst_info give, and the minutes to subtract for them.
SummerDays ==
  <<<<5, 4, 9, 14>>, <<4, 12, 9, 13>>, <<4, 17, 9, 11>>,
    <<4, 16, 9, 17>>, <<4, 15, 9, 16>>, <<4, 14, 9, 15>>>>
SummerTime(minutes) ==
  IF \E y \in 1986..1991 :
       LET s == SummerDays[y - 1985] IN
       /\ fast_days(y, s[1], s[2]) * 1440 + 2 * 60 <= minutes
       /\ minutes < fast_days(y, s[3], s[4]) * 1440 + 60
  THEN 60 ELSE 0

\* What a struct tm of the day at hand may be: as test_mktime_tm fills it, ...
Filled ==
  {[year |-> year - BASE_YEAR, mon |-> month - 1, mday |-> day, hour |-> h, min |-> m, sec |-> s] :
     h \in {0, 1, 2, 23}, m \in {0, 59}, s \in {0, 59}}

\* ... and n days on, with a time of day beyond its day, or with months of an
\* earlier or a later year.
Beyond(n) ==
  LET at(years, c) == [year |-> year - BASE_YEAR + years, mon |-> month - 1 - 12 * years,
                       mday |-> day + n, hour |-> c[1], min |-> c[2], sec |-> c[3]]
  IN  {at(0, c) : c \in Clocks} \union {at(years, <<0, 0, 0>>) : years \in {-1, 2}}

\* The minutes it tells.
MinutesTold(tm) ==
  (days + tm.mday - day) * 1440 + tm.hour * 60 + tm.min + tm.sec \div 60

\* The minutes of a carry that is not stored.
Lost(tm) ==
  LET minute == tm.min + tm.sec \div 60
      hour == tm.hour + minute \div 60
  IN  (IF minute \in 0..59 THEN tm.sec \div 60 ELSE 0)
        + (IF hour \in 0..23 THEN 60 * (minute \div 60) ELSE 0)

\* The days a carry into year y skips: from March, which is taken for a month
\* before 29 February, that day of the one year for that of the other; over 29
\* February 2000, unless told in 2000, that day, which is taken not to exist.
Skipped(y, to) ==
  LET march == IF month = 3 THEN is_leap(y) - is_leap(year) ELSE 0
      up == year < 2000 /\ (y > 2000 \/ (y = 2000 /\ month > 3))
      down == year > 2000 /\ (y < 2000 \/ (y = 2000 /\ month <= 3))
      back == year = 2000 /\ month > 3 /\ to = total_days(2000) - 1
  IN  march + (IF up \/ back THEN 1 ELSE IF down THEN -1 ELSE 0)

\* Told from a month after March, the first day of a leap year and the last day
\* before one are each taken for a day of the other year, in both years: of
\* the two the one, when told in a leap year, the other, when not.
Swings(to) ==
  month > 3 /\ \E y \in (year - 4)..(year + 4) :
    is_leap(y) = 1 /\ y # 2000 /\ to = total_days(y) - is_leap(year)

\* A time that its struct tm tells in range, fast_mktime_v3 answers less the hour of
\* a summer time, and leaves the struct tm alone.
V3InRange ==
  InTable(year) => \A tm \in Filled :
    LET minutes == MinutesTold(tm) IN
    fast_mktime_v3(tm) =
      [ok |-> TRUE, ends |-> TRUE, minutes |-> minutes - SummerTime(minutes), tm |-> tm]

\* A time that lies in another minute, hour, day, month or year than its struct tm
\* says is carried there by the lengths of the years between.  What the code does
\* otherwise is exactly this: it does not return where it swings between two
\* years, loses a carry that leaves minute or hour in range, and skips days.
V3Carries ==
  year \in V3Years => \A n \in DayOffsets : \A tm \in Beyond(n) :
    LET r == fast_mktime_v3(tm)
        to == MinutesTold(tm) \div 1440
        minutes == MinutesTold(tm) - Lost(tm) + 1440 * Skipped(r.tm.year + BASE_YEAR, to)
    IN  /\ r.ends <=> ~Swings(to)
        /\ r.ends => r.ok /\ r.minutes = minutes - SummerTime(minutes) /\ r.tm.sec = tm.sec % 60
=============================================================================
