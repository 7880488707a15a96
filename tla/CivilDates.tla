----------------------------- MODULE CivilDates -----------------------------
(***************************************************************************)
(* The hub's own calendar: the stamp of a moment (epoch_secs_to_iso, of    *)
(* which the store, utils.rs and routes/cost.rs each keep a copy), against *)
(* the day and ISO week keys the budget derives from a stamp (dates.rs).   *)
(* A clock walks over the days; every stamp is made by one piece of code   *)
(* and read back by the other.                                             *)
(***************************************************************************)
EXTENDS Integers, Sequences

CONSTANT CivilDays  \* bound: the days the clock walks over

\* No clock of the hub shows a day before 1970-01-01.
ASSUME CivilAssumption == CivilDays \subseteq Nat

VARIABLE civilDay  \* days since 1970-01-01

CivilInit == civilDay \in CivilDays /\ civilDay - 1 \notin CivilDays

Midnight == civilDay + 1 \in CivilDays /\ civilDay' = civilDay + 1

CivilSpec == CivilInit /\ [][Midnight]_civilDay

-----------------------------------------------------------------------------
(* From a day to its civil date.                                           *)
Leap(year) == year % 4 = 0 /\ (year % 100 # 0 \/ year % 400 = 0)

DaysIn(year) == IF Leap(year) THEN 366 ELSE 365

MonthDays(year) == <<31, IF Leap(year) THEN 29 ELSE 28, 31, 30, 31, 30, 31, 31, 30, 31, 30, 31>>

StampYear == {year \in Nat : year >= 1970}

\* The two loops: whole years, then whole months, are taken off.
FromYear[left \in Nat \X StampYear] ==
  LET days == left[1]
      year == left[2]
  IN IF days < DaysIn(year) THEN <<year, days>> ELSE FromYear[<<days - DaysIn(year), year + 1>>]

\* A loop that no month stops leaves the month at January.
FromMonth(lengths) ==
  LET from[left \in Nat \X (1..13)] ==
        LET days == left[1]
            month == left[2]
        IN IF month = 13 THEN <<1, days + 1>>
           ELSE IF days < lengths[month] THEN <<month, days + 1>>
           ELSE from[<<days - lengths[month], month + 1>>]
  IN from

EpochToCivil(days) ==
  LET year == FromYear[<<days, 1970>>] IN
  <<year[1]>> \o FromMonth(MonthDays(year[1]))[<<year[2], 1>>]

-----------------------------------------------------------------------------
(* From a civil date to its day and its ISO week.                          *)
\* Years are taken to begin in March, and eras of 400 of them are all alike.
DaysFromCivil(y, m, d) ==
  LET year == IF m <= 2 THEN y - 1 ELSE y
      era == (IF year >= 0 THEN year ELSE year - 399) \div 400
      yoe == year - era * 400
      mp == (m + (IF m > 2 THEN -3 ELSE 9)) % 12
      doy == ((153 * mp + 2) \div 5) + d - 1
      doe == yoe * 365 + (yoe \div 4) - (yoe \div 100) + doy
  IN era * 146097 + doe - 719468

IsoWeekday(days) == ((days + 3) % 7) + 1

DecemberWeekday(year) == (year + (year \div 4) - (year \div 100) + (year \div 400)) % 7

WeeksInYear(year) == IF DecemberWeekday(year) = 4 \/ DecemberWeekday(year - 1) = 3 THEN 53 ELSE 52

\* A mutant: the calendar year is kept at both ends.
CalendarWeek(stamp) ==
  LET days == DaysFromCivil(stamp[1], stamp[2], stamp[3])
      ordinal == days - DaysFromCivil(stamp[1], 1, 1) + 1
  IN <<stamp[1], (ordinal - IsoWeekday(days) + 10) \div 7>>

IsoWeekKey(stamp) ==
  LET y == stamp[1]
      days == DaysFromCivil(y, stamp[2], stamp[3])
      ordinal == days - DaysFromCivil(y, 1, 1) + 1
      week == (ordinal - IsoWeekday(days) + 10) \div 7
  IN IF week < 1 THEN <<y - 1, WeeksInYear(y - 1)>>
     ELSE IF week > WeeksInYear(y) THEN <<y + 1, 1>>
     ELSE <<y, week>>

-----------------------------------------------------------------------------
Stamp == EpochToCivil(civilDay)
Week == IsoWeekKey(Stamp)

\* The week is numbered by its Thursday: the year it lies in, and how many
\* Thursdays of that year came before (dates.rs, the parity contract with
\* Python's isocalendar).
WeekOfItsThursday ==
  LET thursday == EpochToCivil(civilDay - IsoWeekday(civilDay) + 4)
      newYear == DaysFromCivil(thursday[1], 1, 1)
      ordinal == DaysFromCivil(thursday[1], thursday[2], thursday[3]) - newYear
  IN Week = <<thursday[1], ordinal \div 7 + 1>>
=============================================================================
