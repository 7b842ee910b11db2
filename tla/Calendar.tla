------------------------------ MODULE Calendar -------------------------------
(***************************************************************************)
(* The calendar of cron expressions (cron.rs): which field values a text   *)
(* allows, the civil date of a day number, and whether a day matches.      *)
(* The clock below counts days and keeps the date the way people do, month *)
(* by month; the properties compare the code's arithmetic with it. Minutes *)
(* and hours, which split a day evenly, are left out.                      *)
(***************************************************************************)
EXTENDS Integers, Sequences

CONSTANTS
  Expression,  \* texts of day of month, month and day of week, already split
  LastYear     \* the year in which the clock stops

VARIABLES
  days,   \* days since 1 January 1970, negative before
  date,   \* year, month, day
  since   \* for each expression the days since it matched

calendarVars == <<days, date, since>>

-----------------------------------------------------------------------------
(* Field::parse. A part of a field is a range with a step; "*" is the      *)
(* whole range. Only the text "*" itself makes a field a wildcard.         *)

Part(start, end, step) == [start |-> start, end |-> end, step |-> step]
Single(value) == Part(value, value, 1)

Allowed(field) ==
  UNION {{v \in p.start .. p.end : (v - p.start) % p.step = 0} : p \in field.parts}

Field(parts, wildcard) == [parts |-> parts, wildcard |-> wildcard]
Star(min, max) == Field({Part(min, max, 1)}, TRUE)

-----------------------------------------------------------------------------
(* civil_from_days. All quantities are far from the limits of i64.         *)

CivilWithoutCenturies(z0) ==
  LET z == z0 + 719468
      era == z \div 146097
      doe == z - era * 146097
      yoe == (doe - (doe \div 1460) - (doe \div 146096)) \div 365
      doy == doe - (365 * yoe + (yoe \div 4))
      mp == (5 * doy + 2) \div 153
      month == mp + (IF mp < 10 THEN 3 ELSE -9)
  IN  <<yoe + era * 400 + (IF month <= 2 THEN 1 ELSE 0), month,
        doy - ((153 * mp + 2) \div 5) + 1>>

CivilFromDays(days_since_epoch) ==
  LET z == days_since_epoch + 719468
      era == (IF z >= 0 THEN z ELSE z - 146096) \div 146097
      doe == z - era * 146097
      yoe == (doe - (doe \div 1460) + (doe \div 36524) - (doe \div 146096)) \div 365
      doy == doe - (365 * yoe + (yoe \div 4) - (yoe \div 100))
      mp == (5 * doy + 2) \div 153
      day == doy - ((153 * mp + 2) \div 5) + 1
      month == mp + (IF mp < 10 THEN 3 ELSE -9)
  IN  <<yoe + era * 400 + (IF month <= 2 THEN 1 ELSE 0), month, day>>

DayOfWeek(n) == (n + 4) % 7

(* CronExpression::matches_utc_ms, for a day                               *)
MatchesDay(e, n) ==
  LET civil == CivilFromDays(n)
      dom == civil[3] \in Allowed(e.day_of_month)
      dow == DayOfWeek(n) \in Allowed(e.day_of_week)
  IN  /\ civil[1] >= 1970
      /\ civil[2] \in Allowed(e.month)
      /\ CASE e.day_of_month.wildcard /\ e.day_of_week.wildcard -> TRUE
           [] e.day_of_month.wildcard /\ ~e.day_of_week.wildcard -> dow
           [] ~e.day_of_month.wildcard /\ e.day_of_week.wildcard -> dom
           [] OTHER -> dom \/ dow

(* How many days next_after_utc_ms looks ahead.                            *)
SearchDays == 8 * 366

-----------------------------------------------------------------------------
(* The clock, which models no code.                                        *)

IsLeap(year) == (year % 4 = 0 /\ year % 100 # 0) \/ year % 400 = 0

MonthDays(year, month) ==
  IF month = 2 THEN IF IsLeap(year) THEN 29 ELSE 28
  ELSE IF month \in {4, 6, 9, 11} THEN 30 ELSE 31

NextDate ==
  IF date[3] < MonthDays(date[1], date[2]) THEN <<date[1], date[2], date[3] + 1>>
  ELSE IF date[2] < 12 THEN <<date[1], date[2] + 1, 1>>
  ELSE <<date[1] + 1, 1, 1>>

InitCalendar ==
  /\ days = -731
  /\ date = <<1968, 1, 1>>
  /\ since = [e \in Expression |-> 0]

NextDay ==
  /\ date[1] <= LastYear
  /\ days' = days + 1
  /\ date' = NextDate
  /\ since' = [e \in Expression |->
       IF date'[1] < 1970 \/ MatchesDay(e, days') THEN 0 ELSE since[e] + 1]

-----------------------------------------------------------------------------
(* Properties.                                                             *)

(* The date and weekday that a cron schedule is matched against are those  *)
(* of the calendar, leap days and the centuries without one included.      *)
(* (civil_from_days, matches_utc_ms; 1 January 1968 was a Monday)          *)
DatesAreRight ==
  /\ CivilFromDays(days) = date
  /\ DayOfWeek(days) = (days + 731 + 1) % 7

(* An expression that some day can match matches one within the days that  *)
(* the search for the next run looks at, from wherever it starts: a        *)
(* schedule for 29 February survives the eight years around 2100.          *)
(* (next_after_utc_ms, "bounded to eight calendar years to reject          *)
(* impossible specs")                                                      *)
NextRunIsFound ==
  \A e \in Expression : since[e] <= SearchDays - 1

(* What a cron expression is matched against is the calendar, and the      *)
(* search for the next match does not give up too early.                   *)
RunsFollowTheCalendar == DatesAreRight /\ NextRunIsFound

=============================================================================
