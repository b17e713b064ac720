----------------------------- MODULE CivilDate -----------------------------
(***************************************************************************)
(* rec_timestamp of src/recorder.c, which names every capture: the civil   *)
(* date and time of a number of seconds since 1970, by Hinnant's           *)
(* arithmetic, beside the calendar.                                        *)
(*                                                                         *)
(* A time is its days and the seconds of the day (86400 of them), so that  *)
(* the numbers of the model stay small; the year is capped at 9999.        *)
(***************************************************************************)
EXTENDS Integers, Sequences

CONSTANTS Years      \* years whose every day is looked at

ASSUME YearsAssumption == Years \subseteq 1970 .. 9999

\* Mutant: January and February are counted to the year before.
DateOf_YearOfMarch(n) ==
  LET z == n + 719468
      era == z \div 146097
      doe == z - era * 146097
      yoe == (doe - doe \div 1460 + doe \div 36524 - doe \div 146096) \div 365
      doy == doe - (365 * yoe + yoe \div 4 - yoe \div 100)
      mp == (5 * doy + 2) \div 153
  IN  <<yoe + era * 400, IF mp < 10 THEN mp + 3 ELSE mp - 9, doy - (153 * mp + 2) \div 5 + 1>>

\* civil-from-days: year, month, day.
DateOf(n) ==
  LET z == n + 719468
      era == z \div 146097
      doe == z - era * 146097
      yoe == (doe - doe \div 1460 + doe \div 36524 - doe \div 146096) \div 365
      doy == doe - (365 * yoe + yoe \div 4 - yoe \div 100)
      mp == (5 * doy + 2) \div 153
      d == doy - (153 * mp + 2) \div 5 + 1
      m == IF mp < 10 THEN mp + 3 ELSE mp - 9
      y == yoe + era * 400 + (IF m <= 2 THEN 1 ELSE 0)
  IN  <<IF y > 9999 THEN 9999 ELSE y, m, d>>

\* Hours, minutes, seconds of the day.
TimeOf(s) == <<s \div 3600, (s % 3600) \div 60, s % 60>>

\* A time is [days, secs]; one before 1970 is taken for its first second.
Stamp(t) == IF t.days < 0 THEN <<1970, 1, 1, 0, 0, 0>>
                          ELSE DateOf(t.days) \o TimeOf(t.secs)

-----------------------------------------------------------------------------
Leap(y) == y % 4 = 0 /\ (y % 100 = 0 => y % 400 = 0)

DaysIn(y, m) == IF m = 2 THEN IF Leap(y) THEN 29 ELSE 28
                ELSE IF m \in {4, 6, 9, 11} THEN 30 ELSE 31

\* Days from 1970-01-01 to the first of January of year y, and on to the day.
LeapsBefore(y) == (y - 1) \div 4 - (y - 1) \div 100 + (y - 1) \div 400
YearStart(y) == 365 * (y - 1970) + LeapsBefore(y) - LeapsBefore(1970)
DaysBefore(y, m) ==
  LET upTo[k \in 1 .. 12] == IF k = 1 THEN 0 ELSE upTo[k - 1] + DaysIn(y, k - 1)
  IN  upTo[m]
DayNumber(y, m, d) == YearStart(y) + DaysBefore(y, m) + d - 1

\* DateOf is the calendar's date of every day of Years.
DatesRight ==
  \A y \in Years : \A m \in 1 .. 12 : \A d \in 1 .. DaysIn(y, m) :
    DateOf(DayNumber(y, m, d)) = <<y, m, d>>
=============================================================================
