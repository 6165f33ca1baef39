------------------------------ MODULE BarCalendar -------------------------------
(***************************************************************************)
(* Where the bars of a series begin and end (series/aggregate.rs,          *)
(* series/spec.rs, core/time.rs).  Time is counted in units of which Day   *)
(* make a day; a spec of the unit "intraday" (seconds, minutes and hours   *)
(* alike) is a number of them.                                             *)
(*                                                                         *)
(* The code writes most of its divisions with div_euclid and repairs the   *)
(* sign of the others: all of them round down, as \div does.               *)
(***************************************************************************)
EXTENDS Integers

CONSTANT Day

ASSUME DayAssumption == Day \in Nat \ {0}

Units == {"intraday", "day", "week", "month"}
Specs == [step : Nat \ {0}, unit : Units]

\* duration_nanos; a month has none.
Duration(spec) ==
  spec.step * CASE spec.unit = "intraday" -> 1
                [] spec.unit = "day" -> Day
                [] spec.unit = "week" -> 7 * Day
                [] spec.unit = "month" -> 0

-----------------------------------------------------------------------------
(* Days since 1970-01-01, and the Gregorian calendar. *)

\* The calendar repeats every 146,097 days; the year and its days are counted from March.
YearOfEra(doe) == (doe - doe \div 1460 + doe \div 36524 - doe \div 146096) \div 365

\* Mutant: every fourth year is a leap year.
DayOfJulianYear(doe, yoe) == doe - (365 * yoe + yoe \div 4)

DayOfYear(doe, yoe) == doe - (365 * yoe + yoe \div 4 - yoe \div 100)

CivilFromMarch(year, doy) ==
  LET mp == (5 * doy + 2) \div 153
  IN  [year |-> IF mp < 10 THEN year ELSE year + 1,
       month |-> IF mp < 10 THEN mp + 3 ELSE mp - 9,
       day |-> doy - (153 * mp + 2) \div 5 + 1]

CivilFromEra(era, doe) ==
  LET yoe == YearOfEra(doe) IN CivilFromMarch(yoe + era * 400, DayOfYear(doe, yoe))

CivilFromDays(days) ==
  CivilFromEra((days + 719468) \div 146097, (days + 719468) % 146097)

DaysFromCivil(year, month, day) ==
  LET y == IF month <= 2 THEN year - 1 ELSE year
      era == y \div 400
      yoe == y - era * 400
      doy == (153 * (IF month > 2 THEN month - 3 ELSE month + 9) + 2) \div 5 + day - 1
  IN  era * 146097 + yoe * 365 + yoe \div 4 - yoe \div 100 + doy - 719468

-----------------------------------------------------------------------------
(* Buckets. *)

RoundDown(n, step) == (n \div step) * step

DayOf(t, anchor) == (t - anchor) \div Day
TimeOf(day, anchor) == day * Day + anchor

\* Weeks begin on Monday, and the epoch was a Thursday.
WeekStart(day, step) == RoundDown((day + 3) \div 7, step) * 7 - 3

MonthIndex(date) == date.year * 12 + date.month - 1
MonthOf(day) == MonthIndex(CivilFromDays(day))
MonthStart(month) == DaysFromCivil(month \div 12, (month % 12) + 1, 1)

Span(start, length) == [start |-> start, end |-> start + length]
Months(month, step) == [start |-> MonthStart(month), end |-> MonthStart(month + step)]

\* The first day of the bucket that holds a day, and of the bucket after it.
BucketDays(day, spec) ==
  CASE spec.unit = "day"   -> Span(RoundDown(day, spec.step), spec.step)
    [] spec.unit = "week"  -> Span(WeekStart(day, spec.step), spec.step * 7)
    [] spec.unit = "month" -> Months(RoundDown(MonthOf(day), spec.step), spec.step)

InTime(days, anchor) ==
  [start |-> TimeOf(days.start, anchor), end |-> TimeOf(days.end, anchor)]

\* bucket_bounds: an intraday bucket knows no anchor.
Bounds(t, spec, anchor) ==
  IF spec.unit = "intraday" THEN Span(RoundDown(t, spec.step), spec.step)
  ELSE InTime(BucketDays(DayOf(t, anchor), spec), anchor)

Divides(source, target) ==
  \/ /\ source.unit = "month" /\ target.unit = "month"
     /\ target.step % source.step = 0
  \/ /\ source.unit # "month" /\ target.unit = "month"
     /\ Day % Duration(source) = 0
  \/ /\ source.unit # "month" /\ target.unit # "month"
     /\ Duration(target) >= Duration(source)
     /\ Duration(target) % Duration(source) = 0
=============================================================================
