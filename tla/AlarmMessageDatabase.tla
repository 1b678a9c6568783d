------------------------- MODULE AlarmMessageDatabase -------------------------
(***************************************************************************)
(* CAlarmMessageDatabase: the alarm messages of each code with their       *)
(* validities, and the search for those valid at the time of an alarm.     *)
(* The exceptions are turned into UTC periods once for a UTC month and     *)
(* kept until an alarm falls into another month or the data change         *)
(* (src/Networking/AlarmMessagesDatabase.cpp, AlarmValidities.cpp).        *)
(***************************************************************************)
EXTENDS AlarmLookup, FiniteSets

CONSTANTS
  Validities,  \* the validities messages are added with
  Messages,
  Datasets,    \* the complete datasets a client may set
  Databases,   \* the databases that may be assigned
  MaxChanges

DEFAULT_VALIDITY == [kind |-> "default"]
Owners == Codes \cup {"all", "fallback"}
Nothing == [o \in Owners |-> <<>>]

\* CAlarmValidities: messages for some validities, for none of them twice.
Entries == [validity : Validities, messages : Seq(Messages)]

IsEntry(dataset, v) == \E i \in DOMAIN dataset : dataset[i].validity = v
FindEntry(dataset, v) == CHOOSE i \in DOMAIN dataset : dataset[i].validity = v

AreDistinct(dataset) ==
  \A i, k \in DOMAIN dataset : dataset[i].validity = dataset[k].validity => i = k

IsComplete(dataset) ==
  dataset # <<>> => IsEntry(dataset, DEFAULT_VALIDITY) /\ AreDistinct(dataset)

ASSUME DatabaseAssumption ==
  /\ MaxChanges \in Nat
  /\ \A v \in Validities : v = DEFAULT_VALIDITY \/ IsSingle(v) \/ IsMonthly(v) \/ IsWeekly(v)
  /\ EmptyMessages \subseteq Messages
  /\ \A dataset \in Datasets : dataset \in Seq(Entries) /\ AreDistinct(dataset)
  /\ \A database \in Databases :
       /\ database \in [Owners -> Seq(Entries)]
       /\ \A o \in Owners : IsComplete(database[o])

VARIABLES
  cache,   \* the UTC month of the last calculation, 0 if it is void, and
           \* the messages by default and the exceptions found for it
  changes  \* changes so far

vars == <<lookupVars, cache, changes>>

\* GetAllCodes
StoredCodes == {c \in Codes : data[c] # <<>>}

Init ==
  /\ data = Nothing
  /\ answer = NoAnswer
  /\ cache = [month |-> 0, defaults |-> Nothing, exceptions |-> Nothing]
  /\ changes = 0

-----------------------------------------------------------------------------
(* The changes, each of which makes the calculated month void.             *)

Kept == cache
Void == [cache EXCEPT !.month = 0]

Changed ==
  /\ changes < MaxChanges
  /\ changes' = changes + 1
  /\ UNCHANGED answer

WithMessage(dataset, v, x) ==
  IF IsEntry(dataset, v)
  THEN [dataset EXCEPT ![FindEntry(dataset, v)].messages =
          IF x \in ToSet(@) THEN @ ELSE Append(@, x)]
  ELSE Append(dataset, [validity |-> v, messages |-> <<x>>])

\* Exceptions need the default messages of their code.
AddMessage(c, v, x) ==
  /\ Changed
  /\ v = DEFAULT_VALIDITY \/ IsEntry(data[c], DEFAULT_VALIDITY)
  /\ data' = [data EXCEPT ![c] = WithMessage(@, v, x)]
  /\ cache' = Void

\* Add for a code, ReplaceForAllCodes, ReplaceFallback.
SetDataset(o, dataset) ==
  /\ Changed
  /\ IsEntry(dataset, DEFAULT_VALIDITY)
  /\ data' = [data EXCEPT ![o] = dataset]
  /\ cache' = Void

RemoveCode(c) ==
  /\ Changed
  /\ c \in StoredCodes
  /\ data' = [data EXCEPT ![c] = <<>>]
  /\ cache' = Void

RemoveAnyway(dataset, v) == IsEntry(dataset, v)
MayRemove(dataset, v) ==
  IsEntry(dataset, v) /\ (v = DEFAULT_VALIDITY => Len(dataset) = 1)

RemoveValidity(c, v) ==
  /\ Changed
  /\ MayRemove(data[c], v)
  /\ data' = [data EXCEPT ![c] = RemoveAt(@, FindEntry(@, v))]
  /\ cache' = Void

\* Clear followed by CopyFrom.
Assign(database) ==
  /\ Changed
  /\ data' = database
  /\ cache' = [month |-> 0, defaults |-> Nothing, exceptions |-> Nothing]

-----------------------------------------------------------------------------
(* The search.                                                             *)

\* GetAlarmsFromValidities: the exceptions may overlap.
DefaultsOf(dataset) ==
  IF dataset = <<>> THEN <<>>
  ELSE dataset[FindEntry(dataset, DEFAULT_VALIDITY)].messages

PeriodsOf(dataset, m) ==
  FlattenSeq([i \in DOMAIN dataset |->
    LET periods == GetValidityPeriods(dataset[i].validity, m)
    IN [k \in DOMAIN periods |->
         [begin |-> periods[k][1], end |-> periods[k][2],
          messages |-> dataset[i].messages]]])

RecalculateValidityTimes(m) ==
  [month |-> m,
   defaults |-> [o \in Owners |-> DefaultsOf(data[o])],
   exceptions |-> [o \in Owners |-> PeriodsOf(data[o], m)]]

Calculated(t) ==
  IF cache.month = MonthOf(t) THEN cache ELSE RecalculateValidityTimes(MonthOf(t))

\* GetValidAlarmsForTime
Holding(valid, o, t) ==
  LET exceptions == valid.exceptions[o]
  IN Selected(exceptions, {e \in ToSet(exceptions) : e.begin <= t /\ t < e.end})

ValidAlarms(valid, o, t) ==
  LET now == Holding(valid, o, t) IN
  IF now # <<>> THEN MessagesOf(now) ELSE valid.defaults[o]

AllMessages(messages) == messages
Sendable(messages) == Selected(messages, ToSet(messages) \ EmptyMessages)

Found(valid, c, t) ==
  LET own == ValidAlarms(valid, c, t)
      specific == IF own = <<>> THEN ValidAlarms(valid, "fallback", t) ELSE own
      messages == specific \o ValidAlarms(valid, "all", t)
  IN [code |-> c, time |-> t, found |-> messages # <<>>,
      messages |-> Sendable(messages),
      default |-> /\ Holding(valid, c, t) = <<>>
                  /\ own = <<>> => Holding(valid, "fallback", t) = <<>>]

Search(c, t) ==
  /\ cache' = Calculated(t)
  /\ answer' = Found(cache', c, t)
  /\ UNCHANGED <<data, changes>>

-----------------------------------------------------------------------------

Next ==
  \/ \E c \in Codes, v \in Validities :
       (\E x \in Messages : AddMessage(c, v, x)) \/ RemoveValidity(c, v)
  \/ \E o \in Owners, dataset \in Datasets : SetDataset(o, dataset)
  \/ \E c \in Codes : RemoveCode(c)
  \/ \E database \in Databases : Assign(database)
  \/ \E c \in Codes, t \in AlarmTimes : Search(c, t)

Spec == Init /\ [][Next]_vars

\* The validities name their weeks in order and no month twice.
ValiditiesInOrder == \A v \in Validities : IsInOrder(v)

-----------------------------------------------------------------------------
(* Properties.                                                             *)

TypeOK ==
  /\ cache.month \in {0} \cup Months
  /\ DOMAIN data = Owners
  /\ answer.code \in Codes \cup {"none"}
  /\ ToSet(answer.messages) \subseteq Messages \ EmptyMessages
  /\ changes \in 0 .. MaxChanges

\* What is kept for a month is what a new calculation for it would give:
\* none of the changes, in whatever order with searches in other months,
\* leaves periods or messages of data that are no longer there.  (A search
\* that comes next uses what is kept.)
CacheIsCurrent ==
  cache.month # 0 => cache = RecalculateValidityTimes(cache.month)

\* Every owner that has entries has one by default, which the calculation
\* takes for granted, and no two with equal validities.
DatasetsAreComplete == \A o \in Owners : IsComplete(data[o])

\* A search finds, by way of the periods of a UTC month, what is valid when
\* the local clock shows the time of the alarm: at the ends of months, with
\* exceptions that pass midnight, days a month does not have, the last
\* weekday of a month, and while the clock is put forward or back.
ImplementsLookup == LookupSpec
=============================================================================
