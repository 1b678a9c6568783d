------------------------------ MODULE AlarmLookup ------------------------------
(***************************************************************************)
(* What a search for alarm messages promises, without months, periods and  *)
(* caches: the messages whose entries are valid when the local clock shows *)
(* the time of the alarm.                                                  *)
(***************************************************************************)
EXTENDS AlarmValidities

CONSTANTS
  Codes,
  EmptyMessages,
  AlarmTimes

\* Before and after a month with alarms there is another one.
ASSUME LookupAssumption ==
  \A t \in AlarmTimes : \E m \in 2 .. Len(MonthLength) - 1 :
    t \in MonthBegin(m) .. MonthBegin(m + 1) - 1

VARIABLES
  data,   \* the entries of each code, "all" codes, and the "fallback"
  answer  \* the last search and what it found

lookupVars == <<data, answer>>

\* What the local clock shows, and the latest time it has shown.
LocalTime(u) == IF DstBegin <= u /\ u < DstEnd THEN u + 2 ELSE u + 1

LatestShown(u) ==
  IF LocalTime(u - 1) > LocalTime(u) THEN LocalTime(u - 1) ELSE LocalTime(u)

\* The local clock has shown begin, or a later time, but not yet end.
Within(begin, end, t) == begin <= LatestShown(t) /\ LatestShown(t) < end

\* Does v begin on the day d of the calendar?
BeginsOn(v, d) ==
  \E m \in Months :
    LET day == d - FirstDay[m] + 1 IN
    /\ 1 <= day /\ day <= MonthLength[m]
    /\ IF v.kind = "monthly"
       THEN day = v.day /\ m \in ToSet(v.months)
       ELSE /\ d % DaysPerWeek = v.weekDay
            /\ \/ (day - 1) \div DaysPerWeek + 1 \in ToSet(v.weeks) \ {LAST}
               \/ LAST \in ToSet(v.weeks) /\ day + DaysPerWeek > MonthLength[m]

ValidAt(v, t) ==
  CASE v.kind = "default" -> FALSE
    [] v.kind = "single" -> Within(v.begin, v.end, t)
    [] OTHER ->
         \E d \in 0 .. FirstDay[Len(MonthLength) + 1] - 1 :
           /\ BeginsOn(v, d)
           /\ LET midnight == d * HoursPerDay
                  end == IF v.end < v.begin THEN v.end + HoursPerDay ELSE v.end
              IN Within(midnight + v.begin, midnight + end, t)

\* The exceptions of an owner that hold at t, and what is valid at t.
ExceptionsAt(o, t) ==
  Selected(data[o], {e \in ToSet(data[o]) : ValidAt(e.validity, t)})

MessagesOf(entries) == FlattenSeq([i \in DOMAIN entries |-> entries[i].messages])

MessagesAt(o, t) ==
  MessagesOf(IF ExceptionsAt(o, t) # <<>> THEN ExceptionsAt(o, t)
             ELSE Selected(data[o], {e \in ToSet(data[o]) : e.validity.kind = "default"}))

\* The fallback stands in for a code without messages.
AnswerAt(c, t) ==
  LET own == MessagesAt(c, t)
      specific == IF own = <<>> THEN MessagesAt("fallback", t) ELSE own
      messages == specific \o MessagesAt("all", t)
  IN [code |-> c, time |-> t, found |-> messages # <<>>,
      messages |-> Selected(messages, ToSet(messages) \ EmptyMessages),
      default |-> /\ ExceptionsAt(c, t) = <<>>
                  /\ own = <<>> => ExceptionsAt("fallback", t) = <<>>]

NoAnswer == [code |-> "none", time |-> -1, found |-> FALSE, messages |-> <<>>,
             default |-> FALSE]

LookupInit ==
  /\ \A o \in DOMAIN data : data[o] = <<>>
  /\ answer = NoAnswer

Change == data' # data /\ UNCHANGED answer

LookUp ==
  /\ answer'.code \in Codes /\ answer'.time \in AlarmTimes
  /\ answer' = AnswerAt(answer'.code, answer'.time)
  /\ UNCHANGED data

LookupNext == Change \/ LookUp

LookupSpec == LookupInit /\ [][LookupNext]_lookupVars
=============================================================================
