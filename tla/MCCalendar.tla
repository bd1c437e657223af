------------------------------ MODULE MCCalendar ------------------------------
(* Values for the run of Calendar.                                          *)
EXTENDS Calendar

\* The summer times of 1986 to 1991, and leap years on both sides of 2000.
MCV3Years == 1984..2011

\* In range; the seconds, minutes and hours carried, together and one at a time, into
\* a field that the carry leaves out of range or in it.
MCClocks ==
  {<<0, 0, 0>>, <<23, 59, 60>>, <<12, 30, 90>>, <<5, 65, 0>>, <<1, -61, 60>>, <<-30, 0, -1>>,
   <<49, 120, 0>>}

\* Within the month, across one and two ends of year, both ways.
MCDayOffsets == {-800, -366, -40, -1, 0, 1, 40, 365, 366, 800}

\* linux_mktime, git_mktime and fast_mktime_v1 and _v2 all count the days from 1970,
\* each over the years it is made for, also around 29 February and the centuries.
DaysCounted == LinuxCounts /\ GitCounts /\ FastCounts

\* fast_mktime_v3 answers every time told in range, and carries one that lies in another
\* minute, hour, day, month or year than its struct tm says, but for exactly the
\* cases of Swings, Lost and Skipped.
V3Right == V3InRange /\ V3Carries
=============================================================================
