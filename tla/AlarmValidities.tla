---------------------------- MODULE AlarmValidities ----------------------------
(***************************************************************************)
(* When an alarm message is valid: the validities of the alarm messages    *)
(* and the conversion of German local time they rest on                    *)
(* (src/Networking/{Default,SingleTime,Monthly,Weekly}Validity.cpp,        *)
(* src/Utilities/BoostStdTimeConverter.cpp).                               *)
(*                                                                         *)
(* Times are hours; hour 0 is the beginning of month 1, of the local clock *)
(* as of UTC.  Days are counted from 0, and day 0 is the first weekday, 0. *)
(***************************************************************************)
EXTENDS Integers, SequencesExt

CONSTANTS
  MonthLength,  \* the number of days of each month, a sequence
  HoursPerDay,
  DaysPerWeek,
  DstBegin,     \* UTC: the clock goes from 1 to 2 hours ahead of UTC
  DstEnd        \* UTC: and back

ASSUME CalendarAssumption ==
  /\ MonthLength \in Seq(Nat) /\ HoursPerDay \in Nat /\ DaysPerWeek \in Nat
  /\ DstBegin \in Nat /\ DstEnd \in Nat
  /\ \A m \in DOMAIN MonthLength :
       MonthLength[m] >= 4 * DaysPerWeek /\ MonthLength[m] <= 5 * DaysPerWeek
  /\ HoursPerDay > 2 /\ DaysPerWeek > 0
  /\ 0 < DstBegin /\ DstBegin + 1 < DstEnd

\* The elements of s that are in S, in their order.
Selected(s, S) ==
  FlattenSeq([i \in DOMAIN s |-> IF s[i] \in S THEN <<s[i]>> ELSE <<>>])

Months == DOMAIN MonthLength

FirstDay[m \in 1 .. Len(MonthLength) + 1] ==
  IF m = 1 THEN 0 ELSE FirstDay[m - 1] + MonthLength[m - 1]

MonthBegin(m) == FirstDay[m] * HoursPerDay

\* An hour that comes twice is taken as the first one, "A"; one that is
\* left out in spring as the end of the gap.
LocalToUTC(local) ==
  CASE local < DstBegin + 1 -> local - 1
    [] DstBegin + 1 <= local /\ local < DstBegin + 2 -> DstBegin
    [] DstBegin + 2 <= local /\ local < DstEnd + 2 -> local - 2
    [] OTHER -> local - 1

\* What Boost calls the fifth weekday of a month is the last one.
LAST == 5

\* What SetValidity, SetValidityDays and SetValidityDates accept.
TimesOfDay == 0 .. HoursPerDay - 1
IsSingle(v) == v \in [kind : {"single"}, begin : Int, end : Int] /\ v.begin < v.end
IsMonthly(v) ==
  v \in [kind : {"monthly"}, day : Nat \ {0}, months : Seq(Nat),
         begin : TimesOfDay, end : TimesOfDay]
IsWeekly(v) ==
  v \in [kind : {"weekly"}, weeks : Seq(1 .. LAST), weekDay : 0 .. DaysPerWeek - 1,
         begin : TimesOfDay, end : TimesOfDay]

\* Weeks in their order, and no month twice: only then does std::unique, which
\* compares neighbours, leave no period twice.
IsInOrder(v) ==
  /\ v.kind = "weekly" => \A i, k \in DOMAIN v.weeks : i < k => v.weeks[i] <= v.weeks[k]
  /\ v.kind = "monthly" => \A i, k \in DOMAIN v.months : v.months[i] = v.months[k] => i = k

NthWeekday(n, weekDay, m) ==
  LET first == FirstDay[m] + ((weekDay - FirstDay[m]) % DaysPerWeek)
      day == first + (n - 1) * DaysPerWeek
  IN IF day < FirstDay[m + 1] THEN day ELSE day - DaysPerWeek

\* A day that the month does not have is skipped.
StartDays(v, m) ==
  IF v.kind = "weekly"
  THEN [i \in DOMAIN v.weeks |-> NthWeekday(v.weeks[i], v.weekDay, m)]
  ELSE LET valid == Selected(v.months, {k \in {m} : v.day <= MonthLength[k]})
       IN [i \in DOMAIN valid |-> FirstDay[m] + v.day - 1]

NotEmpty == {p \in Int \X Int : p[2] > p[1]}
Meeting(m) ==
  {p \in Int \X Int : p[1] < MonthBegin(m + 1) /\ p[2] > MonthBegin(m)}

GetValiditiesStartingInLocalMonth(v, m) ==
  LET NextDay == IF v.end < v.begin THEN HoursPerDay ELSE 0
      days == StartDays(v, m)
  IN Selected([i \in DOMAIN days |->
                << LocalToUTC(days[i] * HoursPerDay + v.begin),
                   LocalToUTC(days[i] * HoursPerDay + v.end + NextDay) >>],
              NotEmpty)

\* std::unique: of equal neighbours the first one stays.
Unique(s) ==
  FlattenSeq([i \in DOMAIN s |->
               IF i > 1 /\ s[i - 1] = s[i] THEN <<>> ELSE <<s[i]>>])

\* A validity may reach into the UTC month from the local months around it.
MonthOnly(m) == <<m>>
AroundMonth(m) == <<m - 1, m, m + 1>>

RepeatedPeriods(v, m) ==
  LET months == AroundMonth(m)
      periods == FlattenSeq([i \in DOMAIN months |->
                   GetValiditiesStartingInLocalMonth(v, months[i])])
  IN Selected(periods, Meeting(m))

\* The periods [begin, end) of v in UTC that meet the UTC month m.
GetValidityPeriods(v, m) ==
  CASE v.kind = "default" -> <<>>
    [] v.kind = "single" ->
         LET period == <<LocalToUTC(v.begin), LocalToUTC(v.end)>>
         IN Selected(Selected(<<period>>, NotEmpty), Meeting(m))
    [] v.kind = "monthly" -> RepeatedPeriods(v, m)
    [] v.kind = "weekly" -> Unique(RepeatedPeriods(v, m))

MonthOf(t) ==
  CHOOSE m \in Months : MonthBegin(m) <= t /\ t < MonthBegin(m + 1)
=============================================================================
