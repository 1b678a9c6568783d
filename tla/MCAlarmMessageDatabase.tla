------------------------ MODULE MCAlarmMessageDatabase ------------------------
(***************************************************************************)
(* AlarmMessageDatabase for TLC: a calendar of four short months, two of   *)
(* them with alarms, whose weeks have two and whose days four hours.       *)
(***************************************************************************)
EXTENDS AlarmMessageDatabase

CONSTANTS a, b, x, y

MCMonthLength == <<8, 9, 8, 8>>

Monthly(day) ==
  [kind |-> "monthly", day |-> day, months |-> <<1, 2, 3>>, begin |-> 3, end |-> 2]
Weekly == [kind |-> "weekly", weeks |-> <<1, 4, LAST>>, weekDay |-> 1, begin |-> 0, end |-> 2]
Single == [kind |-> "single", begin |-> 66, end |-> 72]
MCValidities == {DEFAULT_VALIDITY, Monthly(8), Monthly(9), Weekly, Single}

Entry(v, s) == [validity |-> v, messages |-> s]
MCDatasets == { <<Entry(DEFAULT_VALIDITY, <<y>>), Entry(Monthly(9), <<x, y>>)>>,
                <<Entry(Weekly, <<x>>), Entry(DEFAULT_VALIDITY, <<>>)>> }

\* Exceptions of all kinds that overlap, for the code b and as the fallback.
Full ==
  [o \in Owners |->
     CASE o = b -> << Entry(Single, <<x>>), Entry(DEFAULT_VALIDITY, <<y>>),
                      Entry(Weekly, <<x, y>>), Entry(Monthly(8), <<y>>) >>
       [] o = "fallback" -> << Entry(DEFAULT_VALIDITY, <<x>>), Entry(Weekly, <<y>>) >>
       [] OTHER -> <<>>]
MCDatabases == {Nothing, Full}

\* The hypothesis under which the search is proved.
ASSUME OrderAssumption == ValiditiesInOrder
=============================================================================
