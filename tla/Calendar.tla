------------------------------- MODULE Calendar -------------------------------
(***************************************************************************)
(* contracts/libraries/DateMath.sol: the key of the calendar month a       *)
(* timestamp falls in, computed with divisions alone, against a calendar   *)
(* that counts the days of years and months one by one.                    *)
(*                                                                         *)
(* A timestamp is reduced to its day since 1970-01-01 (timestamp divided   *)
(* by SECONDS_PER_DAY): 32-bit seconds would end in 2038.  Pampalo takes   *)
(* months of a fixed length, so that a month ends in every behaviour.      *)
(***************************************************************************)
EXTENDS Integers, FiniteSets, FiniteSetsExt

(* DateMath *)

\* The day of an era of 400 years that begins on 1 March of year 0.
DayOfEra(z) == z - (z \div 146097) * 146097

\* Mutant of YearOfEra: the century rule is forgotten.
JulianYear(doe) == (doe - doe \div 1460) \div 365

YearOfEra(doe) ==
  (doe - doe \div 1460 + doe \div 36524 - doe \div 146096) \div 365

\* The year and the month of a day; years begin in March until the last line.
YearMonth(day) ==
  LET z   == day + 719468
      doe == DayOfEra(z)
      yoe == YearOfEra(doe)
      doy == doe - (365 * yoe + yoe \div 4 - yoe \div 100)
      mp  == (5 * doy + 2) \div 153
      m   == IF mp < 10 THEN mp + 3 ELSE mp - 9
      y   == yoe + (z \div 146097) * 400
  IN  [year |-> IF m <= 2 THEN y + 1 ELSE y, month |-> m]

MonthKeyOf(day) == YearMonth(day).year * 12 + (YearMonth(day).month - 1)

-----------------------------------------------------------------------------
(* The calendar *)

Leap(year) == year % 4 = 0 /\ (year % 100 # 0 \/ year % 400 = 0)

DaysIn(year, month) ==
  CASE month = 2 -> IF Leap(year) THEN 29 ELSE 28
    [] month \in {4, 6, 9, 11} -> 30
    [] OTHER -> 31

\* The day since 1970-01-01 that a month begins with.
FirstDay(year, month) ==
  365 * (year - 1970) + Cardinality({y \in 1970 .. year - 1 : Leap(y)})
    + MapThenSumSet(LAMBDA m : DaysIn(year, m), 1 .. month - 1)

DaysOf(year, month) ==
  LET first == FirstDay(year, month)
  IN  first .. first + DaysIn(year, month) - 1

\* Months are counted as MonthKeyOf counts them.  Bound: a whole era, after
\* which the calendar repeats itself.
Months == 1970 * 12 .. 2370 * 12

Follows(key) ==
  \A day \in DaysOf(key \div 12, (key % 12) + 1) : MonthKeyOf(day) = key
=============================================================================
