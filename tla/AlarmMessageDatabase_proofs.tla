---------------------- MODULE AlarmMessageDatabase_proofs ----------------------
(***************************************************************************)
(* That the data searched are current and complete, and that a search      *)
(* finds what is valid when the local clock shows the time of the alarm,   *)
(* for any calendar, codes, messages, validities and number of changes.    *)
(***************************************************************************)
EXTENDS AlarmMessageDatabase, InductionLemmas

LEMMA ChangesVoid == ASSUME cache' = Void PROVE CacheIsCurrent'
BY DEF Void, CacheIsCurrent

LEMMA AssignmentsVoid ==
  ASSUME NEW database, Assign(database) PROVE CacheIsCurrent'
BY DEF Assign, CacheIsCurrent

LEMMA CalculatedIsCurrent ==
  ASSUME CacheIsCurrent, NEW c, NEW t, Search(c, t)
  PROVE  CacheIsCurrent'
<1>1. data' = data BY DEF Search
<1>2. \A m : RecalculateValidityTimes(m)' = RecalculateValidityTimes(m)
  BY <1>1 DEF RecalculateValidityTimes
<1>3. \A m : RecalculateValidityTimes(m).month = m BY DEF RecalculateValidityTimes
<1>4. cache' = Calculated(t) BY DEF Search
<1>5. CASE cache.month = MonthOf(t)
  <2>1. cache' = cache BY <1>4, <1>5 DEF Calculated
  <2> QED BY <1>2, <2>1 DEF CacheIsCurrent
<1>6. CASE cache.month # MonthOf(t)
  <2>1. cache' = RecalculateValidityTimes(MonthOf(t)) BY <1>4, <1>6 DEF Calculated
  <2> QED BY <1>2, <1>3, <2>1 DEF CacheIsCurrent
<1> QED BY <1>5, <1>6

\* The calculated month is void or what a new calculation from the present
\* data would give: every change makes it void, and a search either keeps it
\* or calculates it anew (RecalculateValidityTimes).
THEOREM CacheCurrent == Spec => []CacheIsCurrent
<1>1. Init => CacheIsCurrent BY DEF Init, CacheIsCurrent
<1>2. CacheIsCurrent /\ [Next]_vars => CacheIsCurrent'
  <2> SUFFICES ASSUME CacheIsCurrent, [Next]_vars PROVE CacheIsCurrent'
    OBVIOUS
  <2>1. CASE UNCHANGED vars
    BY <2>1 DEF vars, lookupVars, CacheIsCurrent, RecalculateValidityTimes
  <2>2. ASSUME NEW c \in Codes, NEW v \in Validities, NEW x \in Messages,
               AddMessage(c, v, x)
        PROVE  CacheIsCurrent'
    BY <2>2, ChangesVoid DEF AddMessage
  <2>3. ASSUME NEW c \in Codes, NEW v \in Validities, RemoveValidity(c, v)
        PROVE  CacheIsCurrent'
    BY <2>3, ChangesVoid DEF RemoveValidity
  <2>4. ASSUME NEW o \in Owners, NEW dataset \in Datasets, SetDataset(o, dataset)
        PROVE  CacheIsCurrent'
    BY <2>4, ChangesVoid DEF SetDataset
  <2>5. ASSUME NEW c \in Codes, RemoveCode(c) PROVE CacheIsCurrent'
    BY <2>5, ChangesVoid DEF RemoveCode
  <2>6. ASSUME NEW database \in Databases, Assign(database) PROVE CacheIsCurrent'
    BY <2>6, AssignmentsVoid
  <2>7. ASSUME NEW c \in Codes, NEW t \in AlarmTimes, Search(c, t)
        PROVE  CacheIsCurrent'
    BY <2>7, CalculatedIsCurrent
  <2> QED BY <2>1, <2>2, <2>3, <2>4, <2>5, <2>6, <2>7 DEF Next
<1> QED BY <1>1, <1>2, PTL DEF Spec

-----------------------------------------------------------------------------
(* The datasets.                                                           *)

LEMMA Positions ==
  ASSUME NEW s \in Seq(Entries)
  PROVE  /\ Len(s) \in Nat
         /\ DOMAIN s = 1 .. Len(s)
         /\ \A i \in DOMAIN s : s[i] \in Entries
OBVIOUS

LEMMA FoundEntry ==
  ASSUME NEW s, NEW v, IsEntry(s, v)
  PROVE  FindEntry(s, v) \in DOMAIN s /\ s[FindEntry(s, v)].validity = v
BY DEF IsEntry, FindEntry

\* A message is added to its entry or begins a new one at the end; an
\* exception needs the entry by default.
LEMMA AddedIsComplete ==
  ASSUME NEW s \in Seq(Entries), IsComplete(s),
         NEW v \in Validities, NEW x \in Messages,
         v = DEFAULT_VALIDITY \/ IsEntry(s, DEFAULT_VALIDITY)
  PROVE  WithMessage(s, v, x) \in Seq(Entries) /\ IsComplete(WithMessage(s, v, x))
<1> DEFINE w == WithMessage(s, v, x)
<1>1. CASE IsEntry(s, v)
  <2> DEFINE p == FindEntry(s, v)
             e == s[p]
             f == [e EXCEPT !.messages = IF x \in ToSet(@) THEN @ ELSE Append(@, x)]
  <2>1. p \in DOMAIN s /\ e.validity = v BY <1>1, FoundEntry
  <2>2. w = [s EXCEPT ![p] = f] BY <1>1 DEF WithMessage
  <2>3. e \in Entries BY <2>1, Positions
  <2>4. f \in Entries /\ f.validity = v
    <3>1. e.messages \in Seq(Messages) /\ e.validity \in Validities
      BY <2>3 DEF Entries
    <3>2. Append(e.messages, x) \in Seq(Messages) BY <3>1
    <3>3. f.validity = e.validity /\ f.messages \in Seq(Messages)
      BY <2>3, <3>1, <3>2 DEF Entries
    <3> QED BY <2>1, <2>3, <3>1, <3>3 DEF Entries
  <2> HIDE DEF w, p, e, f
  <2>5. w \in Seq(Entries) /\ DOMAIN w = DOMAIN s BY <2>1, <2>2, <2>4
  <2>6. \A i \in DOMAIN s : w[i].validity = s[i].validity
    BY <2>1, <2>2, <2>4 DEF e
  <2>7. s # <<>> BY <2>1
  <2>8. IsComplete(w)
    BY <2>5, <2>6, <2>7 DEF IsComplete, IsEntry, AreDistinct
  <2> QED BY <2>5, <2>8 DEF w
<1>2. CASE ~IsEntry(s, v)
  <2> DEFINE e == [validity |-> v, messages |-> <<x>>]
  <2>1. e \in Entries /\ e.validity = v BY DEF Entries
  <2>2. w = Append(s, e) BY <1>2 DEF WithMessage
  <2> HIDE DEF w, e
  <2>3. /\ w \in Seq(Entries)
        /\ DOMAIN w = DOMAIN s \cup {Len(s) + 1}
        /\ \A i \in DOMAIN s : w[i] = s[i]
        /\ w[Len(s) + 1] = e
    BY <2>1, <2>2
  <2>4. \A i \in DOMAIN s : w[i].validity # v
    BY <1>2, <2>3 DEF IsEntry
  <2>5. AreDistinct(s)
    BY Positions DEF IsComplete, AreDistinct
  <2>6. AreDistinct(w)
    BY <2>1, <2>3, <2>4, <2>5 DEF AreDistinct
  <2>7. IsEntry(w, DEFAULT_VALIDITY)
    BY <2>1, <2>3 DEF IsEntry
  <2> QED BY <2>3, <2>6, <2>7 DEF IsComplete, w
<1> QED BY <1>1, <1>2

LEMMA Concatenated ==
  ASSUME NEW S, NEW front \in Seq(S), NEW back \in Seq(S)
  PROVE  front \o back \in Seq(S) /\ Len(front \o back) = Len(front) + Len(back)
OBVIOUS

\* The entry by default is removed only as the last one.
LEMMA RemovedIsComplete ==
  ASSUME NEW s \in Seq(Entries), IsComplete(s), NEW v, MayRemove(s, v)
  PROVE  /\ RemoveAt(s, FindEntry(s, v)) \in Seq(Entries)
         /\ IsComplete(RemoveAt(s, FindEntry(s, v)))
<1> DEFINE p == FindEntry(s, v)
           w == RemoveAt(s, p)
<1>1. p \in 1 .. Len(s) /\ s[p].validity = v
  BY FoundEntry, Positions DEF MayRemove
<1>2. w = SubSeq(s, 1, p - 1) \o SubSeq(s, p + 1, Len(s)) BY DEF RemoveAt
<1> HIDE DEF p, w
<1>3. /\ w \in Seq(Entries)
      /\ Len(w) = Len(s) - 1
      /\ DOMAIN w = 1 .. Len(s) - 1
      /\ \A i \in DOMAIN w : w[i] = s[IF i < p THEN i ELSE i + 1]
  <2> DEFINE front == SubSeq(s, 1, p - 1)
             back == SubSeq(s, p + 1, Len(s))
             n == Len(s)
  <2>1. n \in Nat /\ p \in 1 .. n BY <1>1
  <2>2. /\ front \in Seq(Entries) /\ Len(front) = p - 1
        /\ \A i \in 1 .. p - 1 : front[i] = s[i]
    BY <1>1
  <2>3. /\ back \in Seq(Entries) /\ Len(back) = n - p
        /\ \A i \in 1 .. n - p : back[i] = s[p + i]
    BY <1>1
  <2>4. w = front \o back BY <1>2
  <2> HIDE DEF front, back, n
  <2>5. w \in Seq(Entries) /\ Len(w) = n - 1
    <3>1. w \in Seq(Entries) /\ Len(w) = Len(front) + Len(back)
      BY <2>2, <2>3, <2>4, Concatenated
    <3>2. (p - 1) + (n - p) = n - 1 BY <2>1
    <3> QED BY <2>2, <2>3, <3>1, <3>2
  <2>6. DOMAIN w = 1 .. n - 1 BY <2>5
  <2>7. ASSUME NEW i \in 1 .. n - 1
        PROVE  w[i] = s[IF i < p THEN i ELSE i + 1]
    <3>1. CASE i < p
      <4>1. w[i] = front[i] BY <2>1, <2>2, <2>3, <2>4, <3>1
      <4> QED BY <2>1, <2>2, <3>1, <4>1
    <3>2. CASE ~(i < p)
      <4>1. w[i] = back[i - (p - 1)] BY <2>1, <2>2, <2>3, <2>4, <3>2
      <4>2. i - (p - 1) \in 1 .. n - p /\ p + (i - (p - 1)) = i + 1
        BY <2>1, <3>2
      <4> QED BY <2>3, <3>2, <4>1, <4>2
    <3> QED BY <3>1, <3>2
  <2> QED BY <2>5, <2>6, <2>7 DEF n
<1>4. AreDistinct(s) BY <1>1 DEF IsComplete
<1>5. AreDistinct(w)
  <2> SUFFICES ASSUME NEW i \in DOMAIN w, NEW k \in DOMAIN w,
                      w[i].validity = w[k].validity
               PROVE  i = k
    BY DEF AreDistinct
  <2> DEFINE At(j) == IF j < p THEN j ELSE j + 1
  <2>1. At(i) \in DOMAIN s /\ At(k) \in DOMAIN s BY <1>1, <1>3
  <2>2. s[At(i)].validity = s[At(k)].validity BY <1>3
  <2>3. At(i) = At(k) BY <1>4, <2>1, <2>2 DEF AreDistinct
  <2> QED BY <1>1, <1>3, <2>3
<1>6. ASSUME w # <<>> PROVE IsEntry(w, DEFAULT_VALIDITY)
  <2>1. Len(s) > 1 BY <1>3, <1>6
  <2>2. v # DEFAULT_VALIDITY
    <3> SUFFICES ASSUME v = DEFAULT_VALIDITY PROVE FALSE
      OBVIOUS
    <3>1. Len(s) = 1 BY DEF MayRemove
    <3> QED BY <2>1, <3>1
  <2>3. IsEntry(s, DEFAULT_VALIDITY) BY <1>1 DEF IsComplete
  <2>4. PICK d \in 1 .. Len(s) : s[d].validity = DEFAULT_VALIDITY
    BY <2>3, Positions DEF IsEntry
  <2>5. d # p BY <1>1, <2>2, <2>4
  <2>6. CASE d < p
    <3>1. d \in 1 .. Len(s) - 1 BY <1>1, <2>4, <2>6
    <3>2. d \in DOMAIN w /\ w[d] = s[d] BY <1>3, <2>6, <3>1
    <3> QED BY <2>4, <3>2 DEF IsEntry
  <2>7. CASE d > p
    <3>1. PICK e \in 1 .. Len(s) - 1 : e = d - 1 /\ e + 1 = d /\ ~ (e < p)
      BY <1>1, <2>4, <2>7
    <3>2. e \in DOMAIN w /\ w[e] = s[d] BY <1>3, <3>1
    <3> QED BY <2>4, <3>2 DEF IsEntry
  <2> QED BY <1>1, <2>4, <2>5, <2>6, <2>7
<1> QED BY <1>3, <1>5, <1>6 DEF IsComplete, w, p

DataAreTyped == data \in [Owners -> Seq(Entries)]

LEMMA ChangedDataset ==
  ASSUME DataAreTyped, DatasetsAreComplete, NEW o \in Owners,
         NEW s \in Seq(Entries), IsComplete(s), data' = [data EXCEPT ![o] = s]
  PROVE  DataAreTyped' /\ DatasetsAreComplete'
BY DEF DataAreTyped, DatasetsAreComplete

LEMMA EmptyIsComplete == <<>> \in Seq(Entries) /\ IsComplete(<<>>)
BY DEF IsComplete

LEMMA DatasetsInvariant == Spec => [](DataAreTyped /\ DatasetsAreComplete)
<1>1. Init => DataAreTyped /\ DatasetsAreComplete
  BY EmptyIsComplete DEF Init, Nothing, DataAreTyped, DatasetsAreComplete
<1>2. DataAreTyped /\ DatasetsAreComplete /\ [Next]_vars
      => DataAreTyped' /\ DatasetsAreComplete'
  <2> SUFFICES ASSUME DataAreTyped, DatasetsAreComplete, [Next]_vars
               PROVE  DataAreTyped' /\ DatasetsAreComplete'
    OBVIOUS
  <2> USE DEF Owners
  <2>1. \A o \in Owners : data[o] \in Seq(Entries) /\ IsComplete(data[o])
    BY DEF DataAreTyped, DatasetsAreComplete
  <2>2. CASE data' = data BY <2>2 DEF DataAreTyped, DatasetsAreComplete
  <2>3. ASSUME NEW c \in Codes, NEW v \in Validities, NEW x \in Messages,
               AddMessage(c, v, x)
        PROVE  DataAreTyped' /\ DatasetsAreComplete'
    <3>1. data' = [data EXCEPT ![c] = WithMessage(data[c], v, x)]
      BY <2>3 DEF AddMessage
    <3>2. WithMessage(data[c], v, x) \in Seq(Entries)
          /\ IsComplete(WithMessage(data[c], v, x))
      BY <2>1, <2>3, AddedIsComplete DEF AddMessage
    <3> QED BY <3>1, <3>2, ChangedDataset
  <2>4. ASSUME NEW c \in Codes, NEW v \in Validities, RemoveValidity(c, v)
        PROVE  DataAreTyped' /\ DatasetsAreComplete'
    <3> DEFINE w == RemoveAt(data[c], FindEntry(data[c], v))
    <3>1. data' = [data EXCEPT ![c] = w] BY <2>4 DEF RemoveValidity
    <3>2. w \in Seq(Entries) /\ IsComplete(w)
      BY <2>1, <2>4, RemovedIsComplete DEF RemoveValidity
    <3> QED BY <3>1, <3>2, ChangedDataset
  <2>5. ASSUME NEW o \in Owners, NEW dataset \in Datasets, SetDataset(o, dataset)
        PROVE  DataAreTyped' /\ DatasetsAreComplete'
    <3>1. dataset \in Seq(Entries) /\ IsComplete(dataset)
      BY <2>5, DatabaseAssumption DEF SetDataset, IsComplete
    <3> QED BY <2>5, <3>1, ChangedDataset DEF SetDataset
  <2>6. ASSUME NEW c \in Codes, RemoveCode(c)
        PROVE  DataAreTyped' /\ DatasetsAreComplete'
    BY <2>6, EmptyIsComplete, ChangedDataset DEF RemoveCode
  <2>7. ASSUME NEW database \in Databases, Assign(database)
        PROVE  DataAreTyped' /\ DatasetsAreComplete'
    BY <2>7, DatabaseAssumption DEF Assign, DataAreTyped, DatasetsAreComplete
  <2>8. ASSUME NEW c \in Codes, NEW t \in AlarmTimes, Search(c, t)
        PROVE  data' = data
    BY <2>8 DEF Search
  <2>9. CASE UNCHANGED vars BY <2>2, <2>9 DEF vars, lookupVars
  <2> QED BY <2>2, <2>3, <2>4, <2>5, <2>6, <2>7, <2>8, <2>9 DEF Next
<1> QED BY <1>1, <1>2, PTL DEF Spec

\* Every owner with entries has an entry by default and no validity twice,
\* whatever is added, replaced, removed and assigned, so the calculation of
\* the valid messages finds what it takes for granted.
THEOREM DatasetsComplete == Spec => []DatasetsAreComplete
BY DatasetsInvariant, PTL


-----------------------------------------------------------------------------
(* Selections.                                                             *)

Chosen(s, S) == [i \in DOMAIN s |-> IF s[i] \in S THEN <<s[i]>> ELSE <<>>]

LEMMA ChosenAreLists ==
  ASSUME NEW T, NEW s \in Seq(T), NEW S
  PROVE  /\ Chosen(s, S) \in Seq(Seq(T))
         /\ DOMAIN Chosen(s, S) = DOMAIN s
         /\ Len(Chosen(s, S)) = Len(s)
         /\ Selected(s, S) = FlattenSeq(Chosen(s, S))
<1>1. DOMAIN s = 1 .. Len(s) /\ Len(s) \in Nat OBVIOUS
<1>2. \A i \in 1 .. Len(s) : Chosen(s, S)[i] \in Seq(T) BY <1>1 DEF Chosen
<1>3. /\ DOMAIN Chosen(s, S) = 1 .. Len(s)
      /\ Chosen(s, S) = [i \in 1 .. Len(s) |-> Chosen(s, S)[i]]
  BY <1>1 DEF Chosen
<1>4. Chosen(s, S) \in [1 .. Len(s) -> Seq(T)] BY <1>2, <1>3
<1>5. Chosen(s, S) \in Seq(Seq(T)) BY <1>1, <1>4
<1>6. Selected(s, S) = FlattenSeq(Chosen(s, S)) BY DEF Selected, Chosen
<1> QED BY <1>1, <1>3, <1>5, <1>6

LEMMA SelectedTyped ==
  ASSUME NEW T, NEW s \in Seq(T), NEW S
  PROVE  Selected(s, S) \in Seq(T)
BY ChosenAreLists, FlattenAppend, EmptySeq

LEMMA SelectedEmpty == \A S : Selected(<<>>, S) = <<>>
<1> TAKE S
<1>1. Chosen(<<>>, S) = <<>> BY DEF Chosen
<1> QED BY <1>1, FlattenEmpty DEF Selected, Chosen

LEMMA SelectedAppend ==
  ASSUME NEW T, NEW s \in Seq(T), NEW x \in T, NEW S
  PROVE  Selected(Append(s, x), S)
           = Selected(s, S) \o (IF x \in S THEN <<x>> ELSE <<>>)
<1> DEFINE one == IF x \in S THEN <<x>> ELSE <<>>
           w == Append(s, x)
<1>1. one \in Seq(T) OBVIOUS
<1>2. /\ w \in Seq(T) /\ Len(w) = Len(s) + 1 /\ Len(s) \in Nat
      /\ \A i \in 1 .. Len(s) : w[i] = s[i]
      /\ w[Len(s) + 1] = x
  BY AppendProperties
<1> HIDE DEF w
<1>3. Chosen(w, S) = Append(Chosen(s, S), one)
  <2> DEFINE c == Append(Chosen(s, S), one)
  <2>1. /\ c \in Seq(Seq(T)) /\ Len(c) = Len(s) + 1
        /\ \A i \in 1 .. Len(s) : c[i] = Chosen(s, S)[i]
        /\ c[Len(s) + 1] = one
    BY <1>1, ChosenAreLists, AppendProperties
  <2>2. Chosen(w, S) \in Seq(Seq(T)) /\ Len(Chosen(w, S)) = Len(s) + 1
    BY <1>2, ChosenAreLists
  <2> HIDE DEF c, one
  <2>3. ASSUME NEW i \in 1 .. Len(s) + 1 PROVE Chosen(w, S)[i] = c[i]
    <3>1. i \in DOMAIN w BY <1>2
    <3>2. CASE i = Len(s) + 1 BY <1>2, <2>1, <3>1, <3>2 DEF Chosen, one
    <3>3. CASE i # Len(s) + 1
      <4>1. i \in 1 .. Len(s) BY <1>2, <3>3
      <4>2. i \in DOMAIN s /\ w[i] = s[i] BY <1>2, <4>1
      <4> QED BY <2>1, <3>1, <4>1, <4>2 DEF Chosen
    <3> QED BY <3>2, <3>3
  <2> QED BY <2>1, <2>2, <2>3, SeqEqual DEF c
<1>4. FlattenSeq(Append(Chosen(s, S), one)) = FlattenSeq(Chosen(s, S)) \o one
  <2>1. PICK c \in Seq(Seq(T)) : c = Chosen(s, S) BY ChosenAreLists
  <2>2. PICK o \in Seq(T) : o = one BY <1>1
  <2>3. FlattenSeq(Append(c, o)) = FlattenSeq(c) \o o BY FlattenAppend
  <2> HIDE DEF one
  <2> QED BY <2>1, <2>2, <2>3
<1>5. Selected(w, S) = FlattenSeq(Chosen(w, S)) BY <1>2, ChosenAreLists
<1>6. Selected(s, S) = FlattenSeq(Chosen(s, S)) BY ChosenAreLists
<1> QED BY <1>3, <1>4, <1>5, <1>6 DEF w

LEMMA SelectedElements ==
  ASSUME NEW T, NEW s \in Seq(T), NEW S
  PROVE  ToSet(Selected(s, S)) = ToSet(s) \cap S
<1> SUFFICES ASSUME NEW x PROVE x \in ToSet(Selected(s, S)) <=> x \in ToSet(s) \cap S
  OBVIOUS
<1>1. x \in ToSet(Selected(s, S)) <=> \E i \in DOMAIN s : x \in ToSet(Chosen(s, S)[i])
  BY ChosenAreLists, FlattenElements
<1>2. ASSUME NEW i \in DOMAIN s
      PROVE  x \in ToSet(Chosen(s, S)[i]) <=> x = s[i] /\ x \in S
  <2>1. ToSet(<<s[i]>>) = {s[i]} /\ ToSet(<<>>) = {} BY DEF ToSet
  <2> QED BY <2>1 DEF Chosen
<1>3. x \in ToSet(s) <=> \E i \in DOMAIN s : x = s[i] BY DEF ToSet
<1> QED BY <1>1, <1>2, <1>3

\* Only the elements of the list count.
LEMMA SelectedSame ==
  ASSUME NEW s, NEW S, NEW U, \A x \in ToSet(s) : x \in S <=> x \in U
  PROVE  Selected(s, S) = Selected(s, U)
<1>1. \A i \in DOMAIN s : s[i] \in S <=> s[i] \in U BY DEF ToSet
<1>2. Chosen(s, S) = Chosen(s, U) BY <1>1 DEF Chosen
<1> QED BY <1>2 DEF Selected, Chosen

LEMMA ConcatIs ==
  ASSUME NEW T, NEW s \in Seq(T), NEW t \in Seq(T)
  PROVE  /\ s \o t \in Seq(T) /\ Len(s \o t) = Len(s) + Len(t)
         /\ \A i \in 1 .. Len(s) : (s \o t)[i] = s[i]
         /\ \A i \in Len(s) + 1 .. Len(s) + Len(t) : (s \o t)[i] = t[i - Len(s)]
<1>1. Len(s) \in Nat /\ Len(t) \in Nat OBVIOUS
<1>2. /\ s \o t \in Seq(T) /\ Len(s \o t) = Len(s) + Len(t)
      /\ \A i \in 1 .. Len(s) + Len(t) :
           (s \o t)[i] = IF i <= Len(s) THEN s[i] ELSE t[i - Len(s)]
  BY ConcatProperties
<1>3. \A i \in 1 .. Len(s) : i \in 1 .. Len(s) + Len(t) /\ i <= Len(s) BY <1>1
<1>4. \A i \in Len(s) + 1 .. Len(s) + Len(t) :
        i \in 1 .. Len(s) + Len(t) /\ ~ (i <= Len(s))
  BY <1>1
<1> QED BY <1>2, <1>3, <1>4

LEMMA SelectedConcat ==
  ASSUME NEW T, NEW s \in Seq(T), NEW t \in Seq(T), NEW S
  PROVE  Selected(s \o t, S) = Selected(s, S) \o Selected(t, S)
<1>1. Chosen(s \o t, S) = Chosen(s, S) \o Chosen(t, S)
  <2> DEFINE w == s \o t
             c == Chosen(s, S) \o Chosen(t, S)
  <2>1. /\ w \in Seq(T) /\ Len(w) = Len(s) + Len(t)
        /\ Len(s) \in Nat /\ Len(t) \in Nat
        /\ \A i \in 1 .. Len(s) : w[i] = s[i]
        /\ \A i \in Len(s) + 1 .. Len(w) : w[i] = t[i - Len(s)]
    BY ConcatProperties
  <2>2. /\ c \in Seq(Seq(T)) /\ Len(c) = Len(s) + Len(t)
        /\ \A i \in 1 .. Len(s) : c[i] = Chosen(s, S)[i]
        /\ \A i \in Len(s) + 1 .. Len(s) + Len(t) : c[i] = Chosen(t, S)[i - Len(s)]
    <3>1. Chosen(s, S) \in Seq(Seq(T)) /\ Len(Chosen(s, S)) = Len(s) BY ChosenAreLists
    <3>2. Chosen(t, S) \in Seq(Seq(T)) /\ Len(Chosen(t, S)) = Len(t) BY ChosenAreLists
    <3>3. PICK a \in Seq(Seq(T)) : a = Chosen(s, S) BY <3>1
    <3>4. PICK b \in Seq(Seq(T)) : b = Chosen(t, S) BY <3>2
    <3>5. /\ a \in Seq(Seq(T)) /\ Len(a) = Len(s)
          /\ b \in Seq(Seq(T)) /\ Len(b) = Len(t)
      BY <3>1, <3>2, <3>3, <3>4
    <3>6. /\ a \o b \in Seq(Seq(T)) /\ Len(a \o b) = Len(a) + Len(b)
          /\ \A i \in 1 .. Len(a) : (a \o b)[i] = a[i]
          /\ \A i \in Len(a) + 1 .. Len(a) + Len(b) : (a \o b)[i] = b[i - Len(a)]
      BY ConcatIs
    <3>7. /\ a \o b \in Seq(Seq(T)) /\ Len(a \o b) = Len(s) + Len(t)
          /\ \A i \in 1 .. Len(s) : (a \o b)[i] = a[i]
          /\ \A i \in Len(s) + 1 .. Len(s) + Len(t) : (a \o b)[i] = b[i - Len(s)]
      BY <3>5, <3>6
    <3> QED BY <3>3, <3>4, <3>7
  <2> HIDE DEF w, c
  <2>3. Chosen(w, S) \in Seq(Seq(T)) /\ Len(Chosen(w, S)) = Len(s) + Len(t)
    BY <2>1, ChosenAreLists
  <2>4. ASSUME NEW i \in 1 .. Len(s) + Len(t) PROVE Chosen(w, S)[i] = c[i]
    <3>1. i \in DOMAIN w BY <2>1
    <3>2. CASE i \in 1 .. Len(s)
      <4>1. i \in DOMAIN s /\ w[i] = s[i] BY <2>1, <3>2
      <4> QED BY <2>2, <3>1, <3>2, <4>1 DEF Chosen
    <3>3. CASE i \notin 1 .. Len(s)
      <4>1. i \in Len(s) + 1 .. Len(s) + Len(t) /\ i - Len(s) \in 1 .. Len(t)
        BY <2>1, <3>3
      <4>2. i - Len(s) \in DOMAIN t /\ w[i] = t[i - Len(s)] BY <2>1, <4>1
      <4> QED BY <2>2, <3>1, <4>1, <4>2 DEF Chosen
    <3> QED BY <3>2, <3>3
  <2>5. Len(s) + Len(t) \in Nat BY <2>1
  <2> QED BY <2>2, <2>3, <2>4, SeqEqual DEF w, c
<1>2. s \o t \in Seq(T) BY ConcatProperties
<1>3. Selected(s \o t, S) = FlattenSeq(Chosen(s \o t, S)) BY <1>2, ChosenAreLists
<1>4. /\ Chosen(s, S) \in Seq(Seq(T)) /\ Selected(s, S) = FlattenSeq(Chosen(s, S))
      /\ Chosen(t, S) \in Seq(Seq(T)) /\ Selected(t, S) = FlattenSeq(Chosen(t, S))
  BY ChosenAreLists
<1>5. FlattenSeq(Chosen(s, S) \o Chosen(t, S))
        = FlattenSeq(Chosen(s, S)) \o FlattenSeq(Chosen(t, S))
  BY <1>4, FlattenConcat
<1> QED BY <1>1, <1>3, <1>4, <1>5

LEMMA SelectedNone ==
  ASSUME NEW T, NEW s \in Seq(T), NEW S, \A i \in DOMAIN s : s[i] \notin S
  PROVE  Selected(s, S) = <<>>
<1>1. ToSet(Selected(s, S)) = {}
  <2>1. ToSet(Selected(s, S)) = ToSet(s) \cap S BY SelectedElements
  <2> QED BY <2>1 DEF ToSet
<1>2. Selected(s, S) \in Seq(T) BY SelectedTyped
<1>3. DOMAIN Selected(s, S) = {} BY <1>1 DEF ToSet
<1> QED BY <1>2, <1>3, EmptySeq

LEMMA SelectedOne ==
  ASSUME NEW T, NEW s \in Seq(T), NEW S, NEW k \in DOMAIN s,
         \A i \in DOMAIN s : s[i] \in S <=> i = k
  PROVE  Selected(s, S) = <<s[k]>>
<1> DEFINE Picks(u) == \A n \in DOMAIN u : (\A i \in DOMAIN u : u[i] \in S <=> i = n)
                         => Selected(u, S) = <<u[n]>>
           Good == {u \in Seq(T) : Picks(u)}
<1>1. <<>> \in Good
  <2>1. Picks(<<>>) OBVIOUS
  <2> HIDE DEF Picks
  <2> QED BY <2>1
<1>2. ASSUME NEW u \in Seq(T) \cap Good, NEW x \in T
      PROVE  Append(u, x) \in Good
  <2> DEFINE w == Append(u, x)
  <2>1. /\ w \in Seq(T) /\ Len(w) = Len(u) + 1 /\ Len(u) \in Nat
        /\ DOMAIN w = 1 .. Len(u) + 1 /\ DOMAIN u = 1 .. Len(u)
        /\ \A i \in DOMAIN u : i \in DOMAIN w /\ w[i] = u[i]
        /\ w[Len(u) + 1] = x
    BY AppendProperties
  <2>2. Selected(w, S) = Selected(u, S) \o (IF x \in S THEN <<x>> ELSE <<>>)
    BY SelectedAppend
  <2>3. Picks(u) OBVIOUS
  <2>4. Selected(u, S) \in Seq(T) BY SelectedTyped
  <2> HIDE DEF w, Good
  <2>5. ASSUME NEW n \in DOMAIN w, \A i \in DOMAIN w : w[i] \in S <=> i = n
        PROVE  Selected(w, S) = <<w[n]>>
    <3>1. CASE n = Len(u) + 1
      <4>1. \A i \in DOMAIN u : u[i] \notin S BY <2>1, <2>5, <3>1
      <4>2. Selected(u, S) = <<>> BY <4>1, SelectedNone
      <4>3. x \in S BY <2>1, <2>5, <3>1
      <4> QED BY <2>1, <2>2, <3>1, <4>2, <4>3
    <3>2. CASE n # Len(u) + 1
      <4>1. n \in DOMAIN u BY <2>1, <3>2
      <4>2. x \notin S
        <5>1. Len(u) + 1 \in DOMAIN w BY <2>1
        <5> QED BY <2>1, <2>5, <3>2, <5>1
      <4>3. \A i \in DOMAIN u : u[i] \in S <=> i = n BY <2>1, <2>5
      <4>4. Selected(u, S) = <<u[n]>> BY <2>3, <4>1, <4>3
      <4>5. Selected(w, S) = Selected(u, S) BY <2>2, <2>4, <4>2, ConcatEmptySeq
      <4> QED BY <2>1, <4>1, <4>4, <4>5
    <3> QED BY <3>1, <3>2
  <2>6. Picks(w) BY <2>5
  <2> HIDE DEF Picks
  <2> QED BY <2>1, <2>6 DEF w, Good
<1>3. s \in Good
  <2> HIDE DEF Good
  <2> QED BY <1>1, <1>2, SequencesFrom
<1> QED BY <1>3

-----------------------------------------------------------------------------
(* Lists of periods, one after the other, perhaps with repetitions.        *)

Periods == Int \X Int

Precedes(p, q, repeats) == (repeats /\ p = q) \/ p[2] <= q[1]

Ascending(s, repeats) ==
  \A i, k \in DOMAIN s : i < k => Precedes(s[i], s[k], repeats)

LEMMA EmptyAscends == \A repeats : Ascending(<<>>, repeats)
BY DEF Ascending

LEMMA AscendingAppend ==
  ASSUME NEW s \in Seq(Periods), NEW p \in Periods, NEW repeats
  PROVE  Ascending(Append(s, p), repeats)
           <=> Ascending(s, repeats) /\ \A q \in ToSet(s) : Precedes(q, p, repeats)
<1> DEFINE w == Append(s, p)
<1>1. /\ DOMAIN w = 1 .. Len(s) + 1 /\ DOMAIN s = 1 .. Len(s) /\ Len(s) \in Nat
      /\ \A i \in DOMAIN s : w[i] = s[i]
      /\ w[Len(s) + 1] = p
  BY AppendProperties
<1> HIDE DEF w
<1>2. ASSUME Ascending(w, repeats)
      PROVE  Ascending(s, repeats) /\ \A q \in ToSet(s) : Precedes(q, p, repeats)
  <2>1. ASSUME NEW i \in DOMAIN s PROVE Precedes(s[i], p, repeats)
    <3>1. i \in DOMAIN w /\ Len(s) + 1 \in DOMAIN w /\ i < Len(s) + 1 BY <1>1
    <3> QED BY <1>1, <1>2, <3>1 DEF Ascending
  <2>2. Ascending(s, repeats)
    <3>1. \A i \in DOMAIN s : i \in DOMAIN w BY <1>1
    <3> QED BY <1>1, <1>2, <3>1 DEF Ascending
  <2> QED BY <2>1, <2>2 DEF ToSet
<1>3. ASSUME Ascending(s, repeats), \A q \in ToSet(s) : Precedes(q, p, repeats)
      PROVE  Ascending(w, repeats)
  <2> SUFFICES ASSUME NEW i \in DOMAIN w, NEW k \in DOMAIN w, i < k
               PROVE  Precedes(w[i], w[k], repeats)
    BY DEF Ascending
  <2>1. i \in DOMAIN s BY <1>1
  <2>2. CASE k = Len(s) + 1 BY <1>1, <1>3, <2>1, <2>2 DEF ToSet
  <2>3. CASE k # Len(s) + 1
    <3>1. k \in DOMAIN s BY <1>1, <2>3
    <3> QED BY <1>1, <1>3, <2>1, <3>1 DEF Ascending
  <2> QED BY <2>2, <2>3
<1> QED BY <1>2, <1>3 DEF w

LEMMA SelectedAscends ==
  ASSUME NEW s \in Seq(Periods), NEW S, NEW repeats, Ascending(s, repeats)
  PROVE  Ascending(Selected(s, S), repeats)
<1> DEFINE Keeps(u) == Ascending(u, repeats) => Ascending(Selected(u, S), repeats)
           Good == {u \in Seq(Periods) : Keeps(u)}
<1>1. <<>> \in Good
  <2>1. Keeps(<<>>) BY SelectedEmpty, EmptyAscends
  <2> HIDE DEF Keeps
  <2> QED BY <2>1
<1>2. ASSUME NEW u \in Seq(Periods) \cap Good, NEW p \in Periods
      PROVE  Append(u, p) \in Good
  <2>1. Keeps(u) OBVIOUS
  <2>2. Append(u, p) \in Seq(Periods) BY AppendProperties
  <2>3. ASSUME Ascending(Append(u, p), repeats)
        PROVE  Ascending(Selected(Append(u, p), S), repeats)
    <3>1. Ascending(u, repeats) /\ \A q \in ToSet(u) : Precedes(q, p, repeats)
      BY <2>3, AscendingAppend
    <3> DEFINE c == Selected(u, S)
    <3>2. c \in Seq(Periods) /\ ToSet(c) = ToSet(u) \cap S /\ Ascending(c, repeats)
      <4>1. c \in Seq(Periods) BY SelectedTyped
      <4>2. ToSet(c) = ToSet(u) \cap S BY SelectedElements
      <4> QED BY <2>1, <3>1, <4>1, <4>2
    <3>3. Selected(Append(u, p), S) = c \o (IF p \in S THEN <<p>> ELSE <<>>)
      BY SelectedAppend
    <3> HIDE DEF c
    <3>4. CASE p \notin S
      <4>1. Selected(Append(u, p), S) = c BY <3>2, <3>3, <3>4, ConcatEmptySeq
      <4> QED BY <3>2, <4>1
    <3>5. CASE p \in S
      <4>1. Selected(Append(u, p), S) = Append(c, p)
        BY <3>2, <3>3, <3>5, AppendIsConcat
      <4>2. Ascending(Append(c, p), repeats) BY <3>1, <3>2, AscendingAppend
      <4> QED BY <4>1, <4>2
    <3> QED BY <3>4, <3>5
  <2>4. Keeps(Append(u, p)) BY <2>3
  <2> HIDE DEF Keeps
  <2> QED BY <2>2, <2>4
<1>3. s \in Good
  <2> HIDE DEF Good
  <2> QED BY <1>1, <1>2, SequencesFrom
<1> QED BY <1>3

LEMMA ConcatAscends ==
  ASSUME NEW s \in Seq(Periods), NEW t \in Seq(Periods), NEW repeats,
         Ascending(s, repeats), Ascending(t, repeats),
         \A p \in ToSet(s), q \in ToSet(t) : p[2] <= q[1]
  PROVE  Ascending(s \o t, repeats)
<1> DEFINE w == s \o t
<1>1. /\ w \in Seq(Periods) /\ Len(w) = Len(s) + Len(t)
      /\ \A i \in 1 .. Len(s) : w[i] = s[i]
      /\ \A i \in Len(s) + 1 .. Len(s) + Len(t) : w[i] = t[i - Len(s)]
  BY ConcatIs
<1>2. /\ Len(s) \in Nat /\ Len(t) \in Nat
      /\ DOMAIN s = 1 .. Len(s) /\ DOMAIN t = 1 .. Len(t)
  OBVIOUS
<1> HIDE DEF w
<1>3. DOMAIN w = 1 .. Len(s) + Len(t) BY <1>1
<1> SUFFICES ASSUME NEW i \in DOMAIN w, NEW k \in DOMAIN w, i < k
             PROVE  Precedes(w[i], w[k], repeats)
  BY DEF Ascending, w
<1>4. i \in Nat /\ k \in Nat /\ i >= 1 /\ k <= Len(s) + Len(t) BY <1>2, <1>3
<1>5. CASE k <= Len(s)
  <2>1. i \in DOMAIN s /\ k \in DOMAIN s BY <1>2, <1>4, <1>5
  <2> QED BY <1>1, <1>2, <2>1 DEF Ascending
<1>6. CASE i > Len(s)
  <2>1. /\ i \in Len(s) + 1 .. Len(s) + Len(t) /\ k \in Len(s) + 1 .. Len(s) + Len(t)
        /\ i - Len(s) \in DOMAIN t /\ k - Len(s) \in DOMAIN t /\ i - Len(s) < k - Len(s)
    BY <1>2, <1>4, <1>6
  <2>2. w[i] = t[i - Len(s)] /\ w[k] = t[k - Len(s)] BY <1>1, <2>1
  <2> QED BY <2>1, <2>2 DEF Ascending
<1>7. CASE i <= Len(s) /\ k > Len(s)
  <2>1. i \in DOMAIN s /\ i \in 1 .. Len(s) BY <1>2, <1>4, <1>7
  <2>2. k \in Len(s) + 1 .. Len(s) + Len(t) /\ k - Len(s) \in DOMAIN t
    BY <1>2, <1>4, <1>7
  <2>3. w[i] = s[i] /\ w[k] = t[k - Len(s)] BY <1>1, <2>1, <2>2
  <2>4. w[i] \in ToSet(s) /\ w[k] \in ToSet(t) BY <2>1, <2>2, <2>3 DEF ToSet
  <2> QED BY <2>4 DEF Precedes
<1> QED BY <1>2, <1>4, <1>5, <1>6, <1>7

\* What std::unique keeps, element by element.
Firsts(s) == [i \in DOMAIN s |-> IF i > 1 /\ s[i - 1] = s[i] THEN <<>> ELSE <<s[i]>>]

LEMMA UniqueAppend ==
  ASSUME NEW s \in Seq(Periods), NEW p \in Periods
  PROVE  /\ Unique(s) \in Seq(Periods)
         /\ Unique(Append(s, p)) =
              Unique(s) \o (IF Len(s) > 0 /\ s[Len(s)] = p THEN <<>> ELSE <<p>>)
<1> DEFINE one == IF Len(s) > 0 /\ s[Len(s)] = p THEN <<>> ELSE <<p>>
           w == Append(s, p)
<1>1. one \in Seq(Periods) OBVIOUS
<1>2. /\ w \in Seq(Periods) /\ Len(w) = Len(s) + 1 /\ Len(s) \in Nat
      /\ DOMAIN w = 1 .. Len(s) + 1 /\ DOMAIN s = 1 .. Len(s)
      /\ \A i \in 1 .. Len(s) : w[i] = s[i]
      /\ w[Len(s) + 1] = p
  BY AppendProperties
<1>3. ASSUME NEW u \in Seq(Periods)
      PROVE  /\ Firsts(u) \in Seq(Seq(Periods)) /\ Len(Firsts(u)) = Len(u)
             /\ Unique(u) = FlattenSeq(Firsts(u))
  <2>1. DOMAIN u = 1 .. Len(u) /\ Len(u) \in Nat OBVIOUS
  <2>2. \A i \in 1 .. Len(u) : u[i] \in Periods OBVIOUS
  <2>3. \A i \in 1 .. Len(u) : Firsts(u)[i] \in Seq(Periods) BY <2>1, <2>2 DEF Firsts
  <2>4. Firsts(u) = [i \in 1 .. Len(u) |-> Firsts(u)[i]] BY <2>1 DEF Firsts
  <2>5. Firsts(u) \in [1 .. Len(u) -> Seq(Periods)] BY <2>3, <2>4
  <2>6. Firsts(u) \in Seq(Seq(Periods)) /\ Len(Firsts(u)) = Len(u) BY <2>1, <2>5
  <2> QED BY <2>6 DEF Unique, Firsts
<1> HIDE DEF w
<1>4. Firsts(w) = Append(Firsts(s), one)
  <2> DEFINE c == Append(Firsts(s), one)
  <2>1. /\ c \in Seq(Seq(Periods)) /\ Len(c) = Len(s) + 1
        /\ \A i \in 1 .. Len(s) : c[i] = Firsts(s)[i]
        /\ c[Len(s) + 1] = one
    BY <1>1, <1>3, AppendProperties
  <2>2. Firsts(w) \in Seq(Seq(Periods)) /\ Len(Firsts(w)) = Len(s) + 1
    BY <1>2, <1>3
  <2> HIDE DEF c, one
  <2>3. ASSUME NEW i \in 1 .. Len(s) + 1 PROVE Firsts(w)[i] = c[i]
    <3>1. i \in DOMAIN w BY <1>2
    <3>2. Firsts(w)[i] = IF i > 1 /\ w[i - 1] = w[i] THEN <<>> ELSE <<w[i]>>
      BY <3>1 DEF Firsts
    <3>3. CASE i = Len(s) + 1
      <4>1. i > 1 <=> Len(s) > 0 BY <1>2, <3>3
      <4>2. i > 1 => w[i - 1] = s[Len(s)] BY <1>2, <3>3
      <4> QED BY <1>2, <2>1, <3>2, <3>3, <4>1, <4>2 DEF one
    <3>4. CASE i # Len(s) + 1
      <4>1. i \in 1 .. Len(s) BY <1>2, <3>4
      <4>2. w[i] = s[i] /\ (i > 1 => w[i - 1] = s[i - 1]) BY <1>2, <4>1
      <4>3. Firsts(s)[i] = IF i > 1 /\ s[i - 1] = s[i] THEN <<>> ELSE <<s[i]>>
        BY <1>2, <4>1 DEF Firsts
      <4> QED BY <2>1, <3>2, <4>1, <4>2, <4>3
    <3> QED BY <3>3, <3>4
  <2>4. Len(s) + 1 \in Nat BY <1>2
  <2> QED BY <2>1, <2>2, <2>3, SeqEqual DEF c
<1>5. /\ FlattenSeq(Firsts(s)) \in Seq(Periods)
      /\ FlattenSeq(Append(Firsts(s), one)) = FlattenSeq(Firsts(s)) \o one
  BY <1>1, <1>3, FlattenAppend
<1>6. Unique(w) = FlattenSeq(Firsts(w)) /\ Unique(s) = FlattenSeq(Firsts(s))
  BY <1>2, <1>3
<1> QED BY <1>4, <1>5, <1>6 DEF w

\* In a list whose repetitions are neighbours nothing is left twice.
LEMMA UniqueAscends ==
  ASSUME NEW s \in Seq(Periods), ToSet(s) \subseteq NotEmpty, Ascending(s, TRUE)
  PROVE  Ascending(Unique(s), FALSE) /\ ToSet(Unique(s)) = ToSet(s)
<1> DEFINE Is(u) == ToSet(u) \subseteq NotEmpty /\ Ascending(u, TRUE)
                    => Ascending(Unique(u), FALSE) /\ ToSet(Unique(u)) = ToSet(u)
           Good == {u \in Seq(Periods) : Is(u)}
<1>1. <<>> \in Good
  <2>1. Unique(<<>>) = <<>>
    <3>1. Firsts(<<>>) = <<>> BY DEF Firsts
    <3> QED BY <3>1, FlattenEmpty DEF Unique, Firsts
  <2>2. Is(<<>>) BY <2>1, EmptyAscends
  <2> HIDE DEF Is
  <2> QED BY <2>2
<1>2. ASSUME NEW u \in Seq(Periods) \cap Good, NEW p \in Periods
      PROVE  Append(u, p) \in Good
  <2> DEFINE w == Append(u, p)
             c == Unique(u)
  <2>1. Is(u) OBVIOUS
  <2>2. /\ w \in Seq(Periods) /\ ToSet(w) = ToSet(u) \cup {p}
    BY AppendProperties, AppendElements
  <2>3. /\ c \in Seq(Periods)
        /\ Unique(w) = c \o (IF Len(u) > 0 /\ u[Len(u)] = p THEN <<>> ELSE <<p>>)
    BY UniqueAppend
  <2>4. Ascending(w, TRUE)
          <=> Ascending(u, TRUE) /\ \A q \in ToSet(u) : Precedes(q, p, TRUE)
    BY AscendingAppend
  <2>5. Len(u) \in Nat /\ DOMAIN u = 1 .. Len(u) OBVIOUS
  <2> HIDE DEF w, c, Good
  <2>6. ASSUME ToSet(w) \subseteq NotEmpty, Ascending(w, TRUE)
        PROVE  Ascending(Unique(w), FALSE) /\ ToSet(Unique(w)) = ToSet(w)
    <3>1. Ascending(c, FALSE) /\ ToSet(c) = ToSet(u)
      BY <2>1, <2>2, <2>4, <2>6 DEF c
    <3>2. CASE Len(u) > 0 /\ u[Len(u)] = p
      <4>1. Unique(w) = c BY <2>3, <3>2, ConcatEmptySeq
      <4>2. p \in ToSet(u) BY <2>5, <3>2 DEF ToSet
      <4> QED BY <2>2, <3>1, <4>1, <4>2
    <3>3. CASE ~ (Len(u) > 0 /\ u[Len(u)] = p)
      <4>1. Unique(w) = Append(c, p) BY <2>3, <3>3, AppendIsConcat
      <4>2. ASSUME NEW q \in ToSet(u) PROVE Precedes(q, p, FALSE)
        <5>1. PICK i \in DOMAIN u : q = u[i] BY DEF ToSet
        <5>2. Precedes(q, p, TRUE) BY <2>4, <2>6
        <5>3. Len(u) > 0 /\ Len(u) \in DOMAIN u BY <2>5, <5>1
        <5>4. u[Len(u)] # p /\ u[Len(u)] \in ToSet(u) BY <3>3, <5>3 DEF ToSet
        <5>5. Precedes(u[Len(u)], p, TRUE) BY <2>4, <2>6, <5>4
        <5>6. u[Len(u)][2] <= p[1] BY <5>4, <5>5 DEF Precedes
        <5>7. CASE i = Len(u) BY <5>1, <5>6, <5>7 DEF Precedes
        <5>8. CASE i # Len(u)
          <6>1. i < Len(u) BY <2>5, <5>1, <5>8
          <6>2. Precedes(u[i], u[Len(u)], TRUE)
            BY <2>4, <2>6, <5>3, <6>1 DEF Ascending
          <6>3. /\ u[Len(u)] \in NotEmpty /\ u[i] \in NotEmpty
                /\ u[Len(u)] \in Periods /\ u[i] \in Periods
            BY <2>2, <2>5, <2>6, <5>1, <5>4
          <6>4. u[i][2] <= p[1]
            <7>1. CASE u[i] = u[Len(u)] BY <5>6, <7>1
            <7>2. CASE u[i][2] <= u[Len(u)][1]
              BY <5>6, <6>3, <7>2 DEF NotEmpty, Periods
            <7> QED BY <6>2, <7>1, <7>2 DEF Precedes
          <6> QED BY <5>1, <6>4 DEF Precedes
        <5> QED BY <5>7, <5>8
      <4>3. Ascending(Append(c, p), FALSE) BY <2>3, <3>1, <4>2, AscendingAppend
      <4>4. ToSet(Append(c, p)) = ToSet(c) \cup {p} BY <2>3, AppendElements
      <4> QED BY <2>2, <3>1, <4>1, <4>3, <4>4
    <3> QED BY <3>2, <3>3
  <2>7. Is(w) BY <2>6
  <2> HIDE DEF Is
  <2> QED BY <2>2, <2>7 DEF w, Good
<1>3. s \in Good
  <2> HIDE DEF Good
  <2> QED BY <1>1, <1>2, SequencesFrom
<1> QED BY <1>3

\* A time lies in one of the periods at most.
LEMMA OneHolds ==
  ASSUME NEW s \in Seq(Periods), Ascending(s, FALSE), NEW t \in Int,
         NEW i \in DOMAIN s, NEW k \in DOMAIN s,
         s[i][1] <= t, t < s[i][2], s[k][1] <= t, t < s[k][2]
  PROVE  i = k
<1>1. i \in Nat /\ k \in Nat /\ s[i] \in Periods /\ s[k] \in Periods OBVIOUS
<1>2. ~ (i < k)
  <2>1. i < k => s[i][2] <= s[k][1] BY DEF Ascending, Precedes
  <2> QED BY <1>1, <2>1 DEF Periods
<1>3. ~ (k < i)
  <2>1. k < i => s[k][2] <= s[i][1] BY DEF Ascending, Precedes
  <2> QED BY <1>1, <2>1 DEF Periods
<1> QED BY <1>1, <1>2, <1>3

-----------------------------------------------------------------------------
(* The clock and the calendar.                                             *)

\* The clock has shown a local time when the UTC time it is converted to has
\* come.
LEMMA ConversionIsClock ==
  ASSUME NEW local \in Int, NEW t \in Int
  PROVE  /\ LocalToUTC(local) \in Int
         /\ local <= LatestShown(t) <=> LocalToUTC(local) <= t
<1>1. DstBegin \in Int /\ DstEnd \in Int /\ DstBegin + 1 < DstEnd BY CalendarAssumption
<1>2. LatestShown(t) = IF DstBegin <= t /\ t < DstEnd THEN t + 2 ELSE t + 1
  BY <1>1 DEF LatestShown, LocalTime
<1>3. LocalToUTC(local) = IF local < DstBegin + 1 THEN local - 1
                          ELSE IF local < DstBegin + 2 THEN DstBegin
                          ELSE IF local < DstEnd + 2 THEN local - 2
                          ELSE local - 1
  BY <1>1 DEF LocalToUTC
<1>4. LocalToUTC(local) \in Int BY <1>1, <1>3
<1>5. local <= LatestShown(t) <=> LocalToUTC(local) <= t BY <1>1, <1>2, <1>3
<1> QED BY <1>4, <1>5

LEMMA ConversionGrows ==
  ASSUME NEW l1 \in Int, NEW l2 \in Int, l1 <= l2
  PROVE  LocalToUTC(l1) <= LocalToUTC(l2)
<1>1. DstBegin \in Int /\ DstEnd \in Int /\ DstBegin + 1 < DstEnd BY CalendarAssumption
<1> QED BY <1>1 DEF LocalToUTC

LEMMA ConversionIsNear ==
  ASSUME NEW local \in Int
  PROVE  /\ LocalToUTC(local) \in Int
         /\ local - 2 <= LocalToUTC(local) /\ LocalToUTC(local) <= local - 1
<1>1. DstBegin \in Int /\ DstEnd \in Int /\ DstBegin + 1 < DstEnd BY CalendarAssumption
<1> QED BY <1>1 DEF LocalToUTC

LEMMA WithinIsPeriod ==
  ASSUME NEW begin \in Int, NEW end \in Int, NEW t \in Int
  PROVE  Within(begin, end, t) <=> LocalToUTC(begin) <= t /\ t < LocalToUTC(end)
<1>1. LatestShown(t) \in Int BY CalendarAssumption DEF LatestShown, LocalTime
<1>2. begin <= LatestShown(t) <=> LocalToUTC(begin) <= t BY ConversionIsClock
<1>3. end <= LatestShown(t) <=> LocalToUTC(end) <= t BY ConversionIsClock
<1>4. LocalToUTC(end) \in Int BY ConversionIsClock
<1> QED BY <1>1, <1>2, <1>3, <1>4 DEF Within

LEMMA MonthsAre ==
  /\ Len(MonthLength) \in Nat /\ Months = 1 .. Len(MonthLength)
  /\ \A m \in Months : MonthLength[m] \in Nat
BY CalendarAssumption DEF Months

IsCalendar(f) ==
  f = [m \in 1 .. Len(MonthLength) + 1 |->
        IF m = 1 THEN 0 ELSE f[m - 1] + MonthLength[m - 1]]

LEMMA CalendarExists == \E f : IsCalendar(f)
<1> DEFINE Upto(f, n) ==
             f = [m \in 1 .. n |-> IF m = 1 THEN 0 ELSE f[m - 1] + MonthLength[m - 1]]
           Good == {n \in Nat : \E f : Upto(f, n)}
<1>1. 0 \in Good
  <2>1. Upto([m \in 1 .. 0 |-> 0], 0) OBVIOUS
  <2> QED BY <2>1
<1>2. ASSUME NEW n \in Nat, n \in Good PROVE n + 1 \in Good
  <2>1. PICK f : Upto(f, n) BY <1>2
  <2> DEFINE g == [m \in 1 .. n + 1 |->
                    IF m = 1 THEN 0 ELSE f[m - 1] + MonthLength[m - 1]]
  <2>2. \A m \in 1 .. n : f[m] = IF m = 1 THEN 0 ELSE f[m - 1] + MonthLength[m - 1]
    BY <2>1
  <2>3. \A m \in 1 .. n : g[m] = f[m] BY <2>2
  <2>4. \A m \in 1 .. n + 1 : m # 1 => m - 1 \in 1 .. n OBVIOUS
  <2>5. Upto(g, n + 1) BY <2>3, <2>4
  <2> HIDE DEF Upto, g
  <2> QED BY <2>5
<1>3. Nat \subseteq Good
  <2> HIDE DEF Good
  <2> QED BY <1>1, <1>2, SetInduction
<1>4. Len(MonthLength) + 1 \in Nat BY MonthsAre
<1>5. PICK f : Upto(f, Len(MonthLength) + 1) BY <1>3, <1>4
<1> QED BY <1>5 DEF IsCalendar

LEMMA DaysAre ==
  /\ FirstDay[1] = 0
  /\ \A m \in Months :
       /\ FirstDay[m] \in Nat
       /\ FirstDay[m + 1] = FirstDay[m] + MonthLength[m]
<1>1. IsCalendar(FirstDay) BY CalendarExists DEF FirstDay, IsCalendar
<1>2. \A m \in 1 .. Len(MonthLength) + 1 :
        FirstDay[m] = IF m = 1 THEN 0 ELSE FirstDay[m - 1] + MonthLength[m - 1]
  BY <1>1 DEF IsCalendar
<1>3. FirstDay[1] = 0 BY <1>2, MonthsAre
<1>4. ASSUME NEW m \in Months PROVE FirstDay[m + 1] = FirstDay[m] + MonthLength[m]
  <2>1. m + 1 \in 1 .. Len(MonthLength) + 1 /\ m + 1 # 1 /\ (m + 1) - 1 = m
    BY MonthsAre
  <2> QED BY <1>2, <2>1
<1> DEFINE Good == {n \in Nat : n + 1 \in Months => FirstDay[n + 1] \in Nat}
<1>5. 0 \in Good BY <1>3
<1>6. ASSUME NEW n \in Nat, n \in Good PROVE n + 1 \in Good
  <2> SUFFICES ASSUME (n + 1) + 1 \in Months PROVE FirstDay[(n + 1) + 1] \in Nat
    OBVIOUS
  <2>1. n + 1 \in Months BY MonthsAre
  <2> QED BY <1>4, <1>6, <2>1, MonthsAre
<1>7. Nat \subseteq Good
  <2> HIDE DEF Good
  <2> QED BY <1>5, <1>6, SetInduction
<1>8. \A m \in Months : m - 1 \in Nat /\ (m - 1) + 1 = m BY MonthsAre
<1>9. \A m \in Months : FirstDay[m] \in Nat BY <1>7, <1>8
<1> QED BY <1>3, <1>4, <1>9

-----------------------------------------------------------------------------
(* The days of a month.                                                    *)

LEMMA Division ==
  ASSUME NEW w \in Nat, w > 0, NEW x \in Int
  PROVE  /\ x \div w \in Int /\ x % w \in 0 .. w - 1
         /\ x = w * (x \div w) + (x % w)
OBVIOUS

LEMMA Remainder ==
  ASSUME NEW w \in Nat, w > 0, NEW q \in Int, NEW r \in 0 .. w - 1, NEW x \in Int,
         x = w * q + r
  PROVE  x \div w = q /\ x % w = r
OBVIOUS

LEMMA MonthIs ==
  ASSUME NEW m \in Months
  PROVE  /\ DaysPerWeek \in Nat /\ DaysPerWeek > 0
         /\ FirstDay[m] \in Nat /\ MonthLength[m] \in Nat /\ FirstDay[m + 1] \in Nat
         /\ FirstDay[m + 1] = FirstDay[m] + MonthLength[m]
         /\ MonthLength[m] >= 4 * DaysPerWeek /\ MonthLength[m] <= 5 * DaysPerWeek
<1>1. DaysPerWeek \in Nat /\ DaysPerWeek > 0 BY CalendarAssumption
<1>2. MonthLength[m] >= 4 * DaysPerWeek /\ MonthLength[m] <= 5 * DaysPerWeek
  BY CalendarAssumption DEF Months
<1>3. /\ FirstDay[m] \in Nat /\ MonthLength[m] \in Nat
      /\ FirstDay[m + 1] = FirstDay[m] + MonthLength[m]
  BY MonthsAre, DaysAre DEF Months
<1>4. FirstDay[m + 1] \in Nat BY <1>3
<1> QED BY <1>1, <1>2, <1>3, <1>4

\* How far the first weekday is from the first day of m.
FirstWeekday(weekDay, m) == (weekDay - FirstDay[m]) % DaysPerWeek

\* The weekday of a day decides at which distance from the first one of a
\* month it is found.
LEMMA WeekdayFrom ==
  ASSUME NEW m \in Months, NEW weekDay \in 0 .. DaysPerWeek - 1, NEW x \in Int,
         NEW d, d = FirstDay[m] + x
  PROVE  d % DaysPerWeek = weekDay <=> x % DaysPerWeek = FirstWeekday(weekDay, m)
<1>10. PICK w \in Nat : w = DaysPerWeek /\ w > 0 BY MonthIs
<1>11. PICK first \in Int : first = FirstDay[m] BY MonthIs
<1>12. PICK g : g = weekDay - first OBVIOUS
<1>13. weekDay \in 0 .. w - 1 /\ d = first + x BY <1>10, <1>11
<1> DEFINE a == first \div w  f == first % w
           q == x \div w      s == x % w
<1>1. /\ a \in Int /\ f \in 0 .. w - 1 /\ first = w * a + f
      /\ q \in Int /\ s \in 0 .. w - 1 /\ x = w * q + s
  BY <1>10, Division
<1> HIDE DEF a, f, q, s
<1>2. f \in Int /\ s \in Int /\ weekDay \in Int /\ first + x \in Int /\ weekDay - first \in Int
  BY <1>1
<1>3. (first + x) % w = IF f + s < w THEN f + s ELSE f + s - w
  <2>1. CASE f + s < w
    <3>1. f + s \in 0 .. w - 1 /\ a + q \in Int BY <1>1, <2>1
    <3>2. first + x = w * (a + q) + (f + s) BY <1>1
    <3>3. PICK xx \in Int : xx = first + x BY <1>2
    <3>4. PICK qq \in Int : qq = a + q BY <3>1
    <3>5. PICK rr \in 0 .. w - 1 : rr = f + s BY <3>1
    <3>6. xx = w * qq + rr BY <3>2, <3>3, <3>4, <3>5
    <3>7. xx % w = rr BY <3>6, Remainder
    <3> QED BY <2>1, <3>3, <3>5, <3>7
  <2>2. CASE ~ (f + s < w)
    <3>1. f + s - w \in 0 .. w - 1 /\ a + q + 1 \in Int BY <1>1, <2>2
    <3>2. first + x = w * (a + q + 1) + (f + s - w) BY <1>1
    <3>3. PICK xx \in Int : xx = first + x BY <1>2
    <3>4. PICK qq \in Int : qq = a + q + 1 BY <3>1
    <3>5. PICK rr \in 0 .. w - 1 : rr = f + s - w BY <3>1
    <3>6. xx = w * qq + rr BY <3>2, <3>3, <3>4, <3>5
    <3>7. xx % w = rr BY <3>6, Remainder
    <3> QED BY <2>2, <3>3, <3>5, <3>7
  <2> QED BY <2>1, <2>2
<1>4. (weekDay - first) % w = IF weekDay >= f THEN weekDay - f ELSE weekDay - f + w
  <2>1. CASE weekDay >= f
    <3>1. weekDay - f \in 0 .. w - 1 /\ -a \in Int BY <1>1, <1>2, <1>13, <2>1
    <3>2. weekDay - first = w * (-a) + (weekDay - f) BY <1>1
    <3>3. PICK xx \in Int : xx = weekDay - first BY <1>2
    <3>4. PICK qq \in Int : qq = -a BY <3>1
    <3>5. PICK rr \in 0 .. w - 1 : rr = weekDay - f BY <3>1
    <3>6. xx = w * qq + rr BY <3>2, <3>3, <3>4, <3>5
    <3>7. xx % w = rr BY <3>6, Remainder
    <3> QED BY <2>1, <3>3, <3>5, <3>7
  <2>2. CASE ~ (weekDay >= f)
    <3>1. weekDay - f + w \in 0 .. w - 1 /\ -a - 1 \in Int BY <1>1, <2>2
    <3>2. weekDay - first = w * (-a - 1) + (weekDay - f + w) BY <1>1
    <3>3. PICK xx \in Int : xx = weekDay - first BY <1>2
    <3>4. PICK qq \in Int : qq = -a - 1 BY <3>1
    <3>5. PICK rr \in 0 .. w - 1 : rr = weekDay - f + w BY <3>1
    <3>6. xx = w * qq + rr BY <3>2, <3>3, <3>4, <3>5
    <3>7. xx % w = rr BY <3>6, Remainder
    <3> QED BY <2>2, <3>3, <3>5, <3>7
  <2> QED BY <2>1, <2>2
<1>5. s = x % w BY DEF s
<1>6. d % w = weekDay <=> x % w = g % w BY <1>13, <1>12, <1>1, <1>2, <1>3, <1>4, <1>5, SMTT(20)
<1> QED BY <1>10, <1>11, <1>12, <1>6 DEF FirstWeekday

\* How many weeks the nth one is after the first.
WeeksAfter(n, weekDay, m) ==
  IF n < LAST THEN n - 1
  ELSE IF FirstWeekday(weekDay, m) + 4 * DaysPerWeek < MonthLength[m] THEN 4 ELSE 3

LEMMA WeekdayIs ==
  ASSUME NEW m \in Months, NEW weekDay \in 0 .. DaysPerWeek - 1, NEW n \in 1 .. LAST
  PROVE  /\ FirstWeekday(weekDay, m) \in 0 .. DaysPerWeek - 1
         /\ WeeksAfter(n, weekDay, m) \in 0 .. 4
         /\ NthWeekday(n, weekDay, m) = FirstDay[m] + FirstWeekday(weekDay, m)
                                        + DaysPerWeek * WeeksAfter(n, weekDay, m)
         /\ NthWeekday(n, weekDay, m) \in FirstDay[m] .. FirstDay[m + 1] - 1
<1> DEFINE W == DaysPerWeek
           F == FirstDay[m]
           L == MonthLength[m]
           r == FirstWeekday(weekDay, m)
<1>1. /\ W \in Nat /\ W > 0 /\ F \in Nat /\ L \in Nat /\ FirstDay[m + 1] = F + L
      /\ 4 * W <= L /\ L <= 5 * W
  BY MonthIs
<1>2. r \in 0 .. W - 1
  <2>1. weekDay - F \in Int BY <1>1
  <2> QED BY <1>1, <2>1, Division DEF FirstWeekday
<1>3. NthWeekday(n, weekDay, m) =
        IF F + r + (n - 1) * W < F + L THEN F + r + (n - 1) * W
        ELSE F + r + (n - 1) * W - W
  BY <1>1 DEF NthWeekday, FirstWeekday
<1>4. WeeksAfter(n, weekDay, m) =
        IF n < 5 THEN n - 1 ELSE IF r + 4 * W < L THEN 4 ELSE 3
  BY DEF WeeksAfter, LAST
<1> HIDE DEF W, F, L, r
<1>5. n \in {1, 2, 3, 4, 5} BY DEF LAST
<1>6. /\ (1 - 1) * W = 0 /\ (2 - 1) * W = W /\ (3 - 1) * W = 2 * W
      /\ (4 - 1) * W = 3 * W /\ (5 - 1) * W = 4 * W
      /\ W * (1 - 1) = 0 /\ W * (2 - 1) = W /\ W * (3 - 1) = 2 * W
      /\ W * (4 - 1) = 3 * W /\ W * 4 = 4 * W /\ W * 3 = 3 * W
  BY <1>1
<1>7. CASE n < 5
  <2>1. WeeksAfter(n, weekDay, m) = n - 1 /\ n - 1 \in 0 .. 4 BY <1>4, <1>5, <1>7
  <2>2. (n - 1) * W = W * (n - 1) /\ 0 <= (n - 1) * W /\ (n - 1) * W <= 3 * W
    BY <1>1, <1>5, <1>6, <1>7
  <2>3. r + (n - 1) * W < L /\ (n - 1) * W \in Int BY <1>1, <1>2, <1>5, <2>2
  <2>4. NthWeekday(n, weekDay, m) = F + r + (n - 1) * W BY <1>1, <1>2, <1>3, <2>3
  <2>5. F + r + (n - 1) * W \in F .. F + L - 1 BY <1>1, <1>2, <2>2, <2>3
  <2> QED BY <1>1, <1>2, <2>1, <2>2, <2>4, <2>5 DEF W, F, L, r
<1>8. CASE n = 5
  <2>1. CASE r + 4 * W < L
    <3>1. WeeksAfter(n, weekDay, m) = 4 BY <1>4, <1>8, <2>1
    <3>2. NthWeekday(n, weekDay, m) = F + r + 4 * W BY <1>1, <1>2, <1>3, <1>6, <1>8, <2>1
    <3>3. F + r + 4 * W \in F .. F + L - 1 BY <1>1, <1>2, <2>1
    <3> QED BY <1>1, <1>2, <1>6, <3>1, <3>2, <3>3 DEF W, F, L, r
  <2>2. CASE ~ (r + 4 * W < L)
    <3>1. WeeksAfter(n, weekDay, m) = 3 BY <1>4, <1>8, <2>2
    <3>2. NthWeekday(n, weekDay, m) = F + r + 3 * W BY <1>1, <1>2, <1>3, <1>6, <1>8, <2>2
    <3>3. F + r + 3 * W \in F .. F + L - 1 BY <1>1, <1>2
    <3> QED BY <1>1, <1>2, <1>6, <3>1, <3>2, <3>3 DEF W, F, L, r
  <2> QED BY <2>1, <2>2
<1> QED BY <1>5, <1>7, <1>8

\* Does v begin on the day d of the month m?
BeginsIn(v, d, m) ==
  LET day == d - FirstDay[m] + 1 IN
  /\ 1 <= day /\ day <= MonthLength[m]
  /\ IF v.kind = "monthly"
     THEN day = v.day /\ m \in ToSet(v.months)
     ELSE /\ d % DaysPerWeek = v.weekDay
          /\ \/ (day - 1) \div DaysPerWeek + 1 \in ToSet(v.weeks) \ {LAST}
             \/ LAST \in ToSet(v.weeks) /\ day + DaysPerWeek > MonthLength[m]

LEMMA WeeklyIs ==
  ASSUME NEW v, IsWeekly(v)
  PROVE  /\ v.kind = "weekly" /\ v.weekDay \in 0 .. DaysPerWeek - 1
         /\ v.weeks \in Seq(1 .. LAST)
         /\ v.begin \in TimesOfDay /\ v.end \in TimesOfDay
BY DEF IsWeekly

LEMMA MonthlyIs ==
  ASSUME NEW v, IsMonthly(v)
  PROVE  /\ v.kind = "monthly" /\ v.day \in Nat /\ v.day > 0
         /\ v.months \in Seq(Nat)
         /\ v.begin \in TimesOfDay /\ v.end \in TimesOfDay
BY DEF IsMonthly

BeginsOnWeekday(v, d, m) ==
  LET day == d - FirstDay[m] + 1 IN
  /\ 1 <= day /\ day <= MonthLength[m]
  /\ d % DaysPerWeek = v.weekDay
  /\ \/ (day - 1) \div DaysPerWeek + 1 \in ToSet(v.weeks) \ {LAST}
     \/ LAST \in ToSet(v.weeks) /\ day + DaysPerWeek > MonthLength[m]

LEMMA WeeklyBegins ==
  ASSUME NEW v, v.kind # "monthly", NEW d, NEW m, NEW x, x = d - FirstDay[m],
         m \in Months, d \in Int
  PROVE  BeginsIn(v, d, m)
           <=> /\ 0 <= x /\ x < MonthLength[m]
               /\ d % DaysPerWeek = v.weekDay
               /\ \/ x \div DaysPerWeek + 1 \in ToSet(v.weeks) \ {LAST}
                  \/ LAST \in ToSet(v.weeks) /\ x + 1 + DaysPerWeek > MonthLength[m]
<1>1. BeginsIn(v, d, m) <=> BeginsOnWeekday(v, d, m) BY DEF BeginsIn, BeginsOnWeekday
<1>2. PICK day : day = d - FirstDay[m] + 1 OBVIOUS
<1>3. day \in Int /\ x \in Int /\ day = x + 1 /\ day - 1 = x BY <1>2, MonthIs
<1>4. BeginsOnWeekday(v, d, m)
        <=> /\ 1 <= day /\ day <= MonthLength[m]
            /\ d % DaysPerWeek = v.weekDay
            /\ \/ (day - 1) \div DaysPerWeek + 1 \in ToSet(v.weeks) \ {LAST}
               \/ LAST \in ToSet(v.weeks) /\ day + DaysPerWeek > MonthLength[m]
  BY <1>2 DEF BeginsOnWeekday
<1>5. /\ MonthLength[m] \in Int /\ DaysPerWeek \in Int
      /\ 1 <= day <=> 0 <= x
      /\ day <= MonthLength[m] <=> x < MonthLength[m]
  BY <1>3, MonthIs
<1> QED BY <1>1, <1>3, <1>4, <1>5

LEMMA WeeklyDays ==
  ASSUME NEW v, IsWeekly(v), NEW m \in Months, NEW d
  PROVE  d \in ToSet(StartDays(v, m)) <=> d \in Int /\ BeginsIn(v, d, m)
<1> DEFINE W == DaysPerWeek
           F == FirstDay[m]
           L == MonthLength[m]
           r == FirstWeekday(v.weekDay, m)
           x == d - F
<1>1. /\ W \in Nat /\ W > 0 /\ F \in Nat /\ L \in Nat /\ FirstDay[m + 1] = F + L
      /\ 4 * W <= L /\ L <= 5 * W
  BY MonthIs
<1>2. v.kind = "weekly" /\ v.weekDay \in 0 .. W - 1 /\ v.weeks \in Seq(1 .. LAST)
  BY WeeklyIs
<1>3. d \in ToSet(StartDays(v, m))
        <=> \E n \in ToSet(v.weeks) : d = NthWeekday(n, v.weekDay, m)
  <2>1. StartDays(v, m) = [i \in DOMAIN v.weeks |-> NthWeekday(v.weeks[i], v.weekDay, m)]
    BY <1>2 DEF StartDays
  <2> QED BY <2>1 DEF ToSet
<1>4. ASSUME NEW n \in 1 .. LAST
      PROVE  /\ r \in 0 .. W - 1
             /\ WeeksAfter(n, v.weekDay, m) \in 0 .. 4
             /\ NthWeekday(n, v.weekDay, m) = F + r + W * WeeksAfter(n, v.weekDay, m)
             /\ NthWeekday(n, v.weekDay, m) \in F .. F + L - 1
  <2>1. PICK wd \in 0 .. DaysPerWeek - 1 : wd = v.weekDay BY <1>2
  <2>2. /\ FirstWeekday(wd, m) \in 0 .. DaysPerWeek - 1
        /\ WeeksAfter(n, wd, m) \in 0 .. 4
        /\ NthWeekday(n, wd, m) = FirstDay[m] + FirstWeekday(wd, m)
                                  + DaysPerWeek * WeeksAfter(n, wd, m)
        /\ NthWeekday(n, wd, m) \in FirstDay[m] .. FirstDay[m + 1] - 1
    BY WeekdayIs
  <2> QED BY <1>1, <2>1, <2>2
<1>5. \A n \in ToSet(v.weeks) : n \in 1 .. LAST
  <2>1. PICK weeks \in Seq(1 .. LAST) : weeks = v.weeks BY <1>2
  <2>2. \A i \in 1 .. Len(weeks) : weeks[i] \in 1 .. LAST BY ElementOfSeq
  <2>3. DOMAIN weeks = 1 .. Len(weeks) BY LenProperties
  <2> QED BY <2>1, <2>2, <2>3 DEF ToSet
<1>6. ASSUME d \in Int
      PROVE  BeginsIn(v, d, m)
               <=> /\ 0 <= x /\ x < L
                   /\ d % W = v.weekDay
                   /\ \/ x \div W + 1 \in ToSet(v.weeks) \ {LAST}
                      \/ LAST \in ToSet(v.weeks) /\ x + 1 + W > L
  <2>1. v.kind # "monthly" BY <1>2
  <2> QED BY <1>6, <2>1, WeeklyBegins
<1>7. 0 * W = 0 /\ \A k \in {0, 1, 2, 3, 4} : W * k = k * W BY <1>1
<1>8. ASSUME NEW y \in Int, d = F + y
      PROVE  d % W = v.weekDay <=> y % W = r
  <2>1. PICK wd \in 0 .. DaysPerWeek - 1 : wd = v.weekDay BY <1>2
  <2>2. d % DaysPerWeek = wd <=> y % DaysPerWeek = FirstWeekday(wd, m)
    BY <1>8, WeekdayFrom
  <2> QED BY <2>1, <2>2
<1> HIDE DEF W, F, L, r
<1>10. ASSUME NEW n \in ToSet(v.weeks), d = NthWeekday(n, v.weekDay, m)
      PROVE  d \in Int /\ BeginsIn(v, d, m)
  <2>1. PICK k \in 0 .. 4 : k = WeeksAfter(n, v.weekDay, m) BY <1>4, <1>5, <1>10
  <2>2. d = F + r + W * k /\ d \in F .. F + L - 1 /\ r \in 0 .. W - 1
    BY <1>4, <1>5, <1>10, <2>1
  <2>3. x \in Int /\ x = W * k + r /\ k \in Int /\ d = F + x
    <3>1. W * k \in Int BY <1>1
    <3> QED BY <1>1, <2>2, <3>1
  <2> HIDE DEF x
  <2>4. x \div W = k /\ x % W = r BY <1>1, <2>2, <2>3, Remainder
  <2>5. d % W = v.weekDay BY <1>8, <2>3, <2>4
  <2>6. d \in Int /\ 0 <= x /\ x < L BY <1>1, <2>2, <2>3
  <2>7. n \in 1 .. LAST /\ n \in {1, 2, 3, 4, 5} BY <1>5 DEF LAST
  <2>8. CASE n < LAST
    <3>1. k + 1 = n BY <2>1, <2>7, <2>8 DEF WeeksAfter
    <3> QED BY <1>6, <2>2, <2>4, <2>5, <2>6, <2>7, <2>8, <3>1
  <2>9. CASE n = LAST
    <3>1. k = IF r + 4 * W < L THEN 4 ELSE 3
      BY <2>1, <2>9 DEF WeeksAfter, LAST, W, L, r
    <3>2. W * k = IF r + 4 * W < L THEN 4 * W ELSE 3 * W BY <1>7, <3>1
    <3>3. x + 1 + W > L BY <1>1, <2>2, <2>3, <3>2
    <3> QED BY <1>6, <2>2, <2>5, <2>6, <2>9, <3>3
  <2> QED BY <2>7, <2>8, <2>9 DEF LAST
<1>11. ASSUME d \in Int, BeginsIn(v, d, m)
       PROVE  \E n \in ToSet(v.weeks) : d = NthWeekday(n, v.weekDay, m)
  <2>1. x \in Int /\ d = F + x /\ 0 <= x /\ x < L
    BY <1>1, <1>6, <1>11
  <2> HIDE DEF x
  <2>2. PICK q \in Int : q = x \div W BY <1>1, <2>1, Division
  <2>3. x % W = r BY <1>6, <1>8, <1>11, <2>1
  <2>4. x = W * q + r /\ r \in 0 .. W - 1 BY <1>1, <2>1, <2>2, <2>3, Division
  <2>5. q \in {0, 1, 2, 3, 4}
    <3>1. W * q < W * 5 /\ W * q > W * (-1) BY <1>1, <2>1, <2>4
    <3>2. q < 5 /\ q > -1 BY <1>1, <3>1
    <3> QED BY <3>2
  <2>6. W * q = q * W BY <1>7, <2>5
  <2>7. CASE q + 1 \in ToSet(v.weeks) \ {LAST}
    <3>1. q + 1 \in 1 .. LAST /\ q + 1 < LAST /\ (q + 1) - 1 = q BY <2>5, <2>7 DEF LAST
    <3>2. WeeksAfter(q + 1, v.weekDay, m) = q BY <3>1 DEF WeeksAfter
    <3>3. NthWeekday(q + 1, v.weekDay, m) = F + r + W * q BY <1>4, <3>1, <3>2
    <3> QED BY <1>1, <2>1, <2>4, <2>7, <3>3
  <2>8. CASE LAST \in ToSet(v.weeks) /\ x + 1 + W > L
    <3>1. WeeksAfter(LAST, v.weekDay, m) = IF r + 4 * W < L THEN 4 ELSE 3
      BY DEF WeeksAfter, LAST, W, L, r
    <3>2. WeeksAfter(LAST, v.weekDay, m) = q
      <4>1. CASE q = 4 BY <1>1, <2>1, <2>4, <2>6, <3>1, <4>1
      <4>2. CASE q = 3 BY <1>1, <2>1, <2>4, <2>6, <2>8, <3>1, <4>2
      <4>3. CASE q \in {0, 1, 2}
        <5>1. W * q <= 2 * W BY <1>1, <2>6, <4>3
        <5>2. L <= x + W BY <1>1, <2>1, <2>8
        <5> QED BY <1>1, <2>1, <2>4, <5>1, <5>2
      <4> QED BY <2>5, <4>1, <4>2, <4>3
    <3>3. LAST \in 1 .. LAST BY DEF LAST
    <3>4. NthWeekday(LAST, v.weekDay, m) = F + r + W * q BY <1>4, <3>2, <3>3
    <3> QED BY <1>1, <2>1, <2>4, <2>8, <3>4
  <2> QED BY <1>6, <1>11, <2>1, <2>2, <2>7, <2>8
<1> QED BY <1>3, <1>10, <1>11

LEMMA MonthlyBegins ==
  ASSUME NEW v, v.kind = "monthly", NEW d \in Int, NEW m \in Months, v.day \in Nat, v.day > 0
  PROVE  BeginsIn(v, d, m)
           <=> /\ m \in ToSet(v.months) /\ v.day <= MonthLength[m]
               /\ d = FirstDay[m] + v.day - 1
<1>1. PICK day : day = d - FirstDay[m] + 1 OBVIOUS
<1>2. BeginsIn(v, d, m)
        <=> 1 <= day /\ day <= MonthLength[m] /\ day = v.day /\ m \in ToSet(v.months)
  BY <1>1 DEF BeginsIn
<1>3. day = v.day <=> d = FirstDay[m] + v.day - 1 BY <1>1, MonthIs
<1> QED BY <1>2, <1>3

\* The month m if it has the day of v.
WithDay(v, m) == {k \in {m} : v.day <= MonthLength[k]}

LEMMA MonthlyList ==
  ASSUME NEW v, IsMonthly(v), NEW m \in Months
  PROVE  \E valid \in Seq(Nat) :
           /\ StartDays(v, m) = [i \in DOMAIN valid |-> FirstDay[m] + v.day - 1]
           /\ valid = Selected(v.months, WithDay(v, m))
           /\ ToSet(valid) = ToSet(v.months) \cap WithDay(v, m)
<1>1. PICK months \in Seq(Nat) : months = v.months BY MonthlyIs
<1>2. PICK valid : valid = Selected(months, WithDay(v, m)) OBVIOUS
<1>3. valid \in Seq(Nat) BY <1>2, SelectedTyped
<1>4. ToSet(valid) = ToSet(months) \cap WithDay(v, m) BY <1>2, SelectedElements
<1>5. v.kind # "weekly" BY MonthlyIs
<1>6. StartDays(v, m) = [i \in DOMAIN valid |-> FirstDay[m] + v.day - 1]
  BY <1>1, <1>2, <1>5 DEF StartDays, WithDay
<1> QED BY <1>1, <1>2, <1>3, <1>4, <1>6

LEMMA MonthlyDays ==
  ASSUME NEW v, IsMonthly(v), NEW m \in Months, NEW d
  PROVE  d \in ToSet(StartDays(v, m)) <=> d \in Int /\ BeginsIn(v, d, m)
<1>1. PICK valid \in Seq(Nat) :
        /\ StartDays(v, m) = [i \in DOMAIN valid |-> FirstDay[m] + v.day - 1]
        /\ ToSet(valid) = ToSet(v.months) \cap WithDay(v, m)
  BY MonthlyList
<1>2. d \in ToSet(StartDays(v, m)) <=> DOMAIN valid # {} /\ d = FirstDay[m] + v.day - 1
  BY <1>1 DEF ToSet
<1>3. DOMAIN valid # {} <=> m \in ToSet(v.months) /\ v.day <= MonthLength[m]
  <2>1. DOMAIN valid # {} <=> ToSet(valid) # {} BY DEF ToSet
  <2> QED BY <1>1, <2>1 DEF WithDay
<1>4. v.day \in Nat /\ v.day > 0 /\ v.kind = "monthly" BY MonthlyIs
<1>5. FirstDay[m] + v.day - 1 \in Int BY <1>4, MonthIs
<1> QED BY <1>2, <1>3, <1>4, <1>5, MonthlyBegins

\* What begins on days of the calendar again and again.
IsRepeated(v) == IsMonthly(v) \/ IsWeekly(v)

LEMMA RepeatedIs ==
  ASSUME NEW v, IsRepeated(v)
  PROVE  /\ v.kind \in {"monthly", "weekly"}
         /\ v.kind = "monthly" <=> IsMonthly(v)
         /\ v.kind = "weekly" <=> IsWeekly(v)
         /\ v.begin \in 0 .. HoursPerDay - 1 /\ v.end \in 0 .. HoursPerDay - 1
         /\ HoursPerDay \in Nat /\ HoursPerDay > 2
BY WeeklyIs, MonthlyIs, CalendarAssumption DEF IsRepeated, TimesOfDay

LEMMA BeginsInMonth ==
  ASSUME NEW v, NEW m \in Months, NEW d \in Int, BeginsIn(v, d, m)
  PROVE  d \in FirstDay[m] .. FirstDay[m + 1] - 1
<1>1. PICK day : day = d - FirstDay[m] + 1 OBVIOUS
<1>2. 1 <= day /\ day <= MonthLength[m] BY <1>1 DEF BeginsIn
<1> QED BY <1>1, <1>2, MonthIs

LEMMA StartDaysAre ==
  ASSUME NEW v, IsRepeated(v), NEW m \in Months
  PROVE  /\ StartDays(v, m) \in Seq(Int)
         /\ \A d : d \in ToSet(StartDays(v, m)) <=> d \in Int /\ BeginsIn(v, d, m)
<1>1. \A d : d \in ToSet(StartDays(v, m)) <=> d \in Int /\ BeginsIn(v, d, m)
  BY WeeklyDays, MonthlyDays DEF IsRepeated
<1>2. \A i \in DOMAIN StartDays(v, m) : StartDays(v, m)[i] \in Int
  BY <1>1 DEF ToSet
<1>3. \E n \in Nat : \E f : StartDays(v, m) = [i \in 1 .. n |-> f[i]]
  <2>1. CASE IsMonthly(v)
    <3>1. PICK valid \in Seq(Nat) :
            StartDays(v, m) = [i \in DOMAIN valid |-> FirstDay[m] + v.day - 1]
      BY <2>1, MonthlyList
    <3>2. DOMAIN valid = 1 .. Len(valid) /\ Len(valid) \in Nat OBVIOUS
    <3> QED BY <3>1, <3>2
  <2>2. CASE IsWeekly(v)
    <3>1. PICK weeks \in Seq(1 .. LAST) : weeks = v.weeks BY <2>2, WeeklyIs
    <3>2. DOMAIN weeks = 1 .. Len(weeks) /\ Len(weeks) \in Nat BY LenProperties
    <3>3. StartDays(v, m) = [i \in DOMAIN weeks |-> NthWeekday(weeks[i], v.weekDay, m)]
      BY <2>2, <3>1, WeeklyIs DEF StartDays
    <3> QED BY <3>2, <3>3
  <2> QED BY <2>1, <2>2 DEF IsRepeated
<1>4. PICK n \in Nat : \E f : StartDays(v, m) = [i \in 1 .. n |-> f[i]] BY <1>3
<1>7. PICK f : StartDays(v, m) = [i \in 1 .. n |-> f[i]] BY <1>4
<1>5. \A i \in 1 .. n : f[i] \in Int BY <1>2, <1>7
<1>6. StartDays(v, m) \in [1 .. n -> Int] BY <1>5, <1>7
<1> QED BY <1>1, <1>6

LEMMA Multiplied ==
  ASSUME NEW h \in Nat, NEW x \in Int, NEW y \in Int, x <= y
  PROVE  /\ x * h \in Int /\ y * h \in Int /\ x * h <= y * h
         /\ h * x = x * h /\ h * y = y * h
         /\ (x + 1) * h = x * h + h
OBVIOUS

LEMMA WeeksInOrder ==
  ASSUME NEW v, IsWeekly(v), IsInOrder(v), NEW m \in Months,
         NEW i \in DOMAIN StartDays(v, m), NEW k \in DOMAIN StartDays(v, m), i < k
  PROVE  StartDays(v, m)[i] <= StartDays(v, m)[k]
<1>1. PICK weeks \in Seq(1 .. LAST) : weeks = v.weeks BY WeeklyIs
<1>2. PICK wd \in 0 .. DaysPerWeek - 1 : wd = v.weekDay BY WeeklyIs
<1>3. StartDays(v, m) = [j \in DOMAIN weeks |-> NthWeekday(weeks[j], wd, m)]
  BY <1>1, <1>2, WeeklyIs DEF StartDays
<1>4. i \in DOMAIN weeks /\ k \in DOMAIN weeks BY <1>3
<1>5. DOMAIN weeks = 1 .. Len(weeks) BY LenProperties
<1>6. PICK a \in 1 .. LAST : a = weeks[i] BY <1>4, <1>5, ElementOfSeq
<1>7. PICK b \in 1 .. LAST : b = weeks[k] BY <1>4, <1>5, ElementOfSeq
<1>8. a <= b BY <1>1, <1>4, <1>6, <1>7, WeeklyIs DEF IsInOrder
<1>9. /\ FirstWeekday(wd, m) \in 0 .. DaysPerWeek - 1
      /\ WeeksAfter(a, wd, m) \in 0 .. 4
      /\ NthWeekday(a, wd, m) = FirstDay[m] + FirstWeekday(wd, m)
                                + DaysPerWeek * WeeksAfter(a, wd, m)
  BY WeekdayIs
<1>10. /\ WeeksAfter(b, wd, m) \in 0 .. 4
       /\ NthWeekday(b, wd, m) = FirstDay[m] + FirstWeekday(wd, m)
                                 + DaysPerWeek * WeeksAfter(b, wd, m)
  BY WeekdayIs
<1>11. WeeksAfter(a, wd, m) <= WeeksAfter(b, wd, m)
  <2>1. a \in {1, 2, 3, 4, 5} /\ b \in {1, 2, 3, 4, 5} BY DEF LAST
  <2> QED BY <1>8, <2>1 DEF WeeksAfter, LAST
<1>12. PICK x \in Int : x = WeeksAfter(a, wd, m) BY <1>9
<1>13. PICK y \in Int : y = WeeksAfter(b, wd, m) BY <1>10
<1>14. DaysPerWeek * x <= DaysPerWeek * y
  <2>1. PICK w \in Nat : w = DaysPerWeek BY MonthIs
  <2>2. x <= y BY <1>11, <1>12, <1>13
  <2>3. x * w <= y * w /\ w * x = x * w /\ w * y = y * w BY <2>2, Multiplied
  <2> QED BY <2>1, <2>3
<1>15. /\ DaysPerWeek * x \in Int /\ DaysPerWeek * y \in Int
       /\ FirstDay[m] + FirstWeekday(wd, m) \in Int
  <2>1. DaysPerWeek \in Int /\ FirstDay[m] \in Int BY MonthIs
  <2>2. DaysPerWeek * x \in Int /\ DaysPerWeek * y \in Int BY <2>1
  <2>3. FirstWeekday(wd, m) \in Int BY <1>9, <2>1
  <2>4. FirstDay[m] + FirstWeekday(wd, m) \in Int BY <2>1, <2>3
  <2> QED BY <2>2, <2>4
<1>17. PICK px \in Int : px = DaysPerWeek * x BY <1>15
<1>18. PICK py \in Int : py = DaysPerWeek * y BY <1>15
<1>19. PICK f \in Int : f = FirstDay[m] + FirstWeekday(wd, m) BY <1>15
<1>16. NthWeekday(a, wd, m) <= NthWeekday(b, wd, m)
  BY <1>9, <1>10, <1>12, <1>13, <1>14, <1>17, <1>18, <1>19
<1> QED BY <1>3, <1>4, <1>6, <1>7, <1>16

LEMMA MonthsOnce ==
  ASSUME NEW v, IsMonthly(v), IsInOrder(v), NEW m \in Months,
         NEW i \in DOMAIN StartDays(v, m), NEW k \in DOMAIN StartDays(v, m)
  PROVE  i = k
<1> DEFINE S == WithDay(v, m)
<1>1. PICK months \in Seq(Nat) : months = v.months BY MonthlyIs
<1>2. PICK valid \in Seq(Nat) :
        /\ StartDays(v, m) = [j \in DOMAIN valid |-> FirstDay[m] + v.day - 1]
        /\ valid = Selected(months, S)
  BY <1>1, MonthlyList
<1>3. \A j, n \in DOMAIN months : months[j] = months[n] => j = n
  BY <1>1, MonthlyIs DEF IsInOrder
<1>4. S \subseteq {m} BY DEF WithDay
<1> HIDE DEF S
<1>5. CASE \E n \in DOMAIN months : months[n] \in S
  <2>1. PICK n \in DOMAIN months : months[n] \in S BY <1>5
  <2>2. \A j \in DOMAIN months : months[j] \in S <=> j = n BY <1>3, <1>4, <2>1
  <2>3. valid = <<months[n]>> BY <1>2, <2>2, SelectedOne
  <2>4. DOMAIN StartDays(v, m) = {1} BY <1>2, <2>3
  <2> QED BY <2>4
<1>6. CASE ~ \E n \in DOMAIN months : months[n] \in S
  <2>1. valid = <<>> BY <1>2, <1>6, SelectedNone
  <2>2. DOMAIN StartDays(v, m) = {} BY <1>2, <2>1
  <2> QED BY <2>2
<1> QED BY <1>5, <1>6

-----------------------------------------------------------------------------
(* The days of the calendar.                                               *)

LEMMA DaysGrow ==
  ASSUME NEW m \in Months, NEW k \in Months, m < k
  PROVE  FirstDay[m + 1] <= FirstDay[k]
<1> DEFINE Good == {n \in Nat : m + 1 + n \in Months => FirstDay[m + 1] <= FirstDay[m + 1 + n]}
<1>1. m \in Nat /\ m + 1 + 0 = m + 1 BY MonthsAre
<1>2. 0 \in Good
  <2>1. m + 1 + 0 \in Months => FirstDay[m + 1] \in Nat BY <1>1, DaysAre
  <2> QED BY <1>1, <2>1
<1>3. ASSUME NEW n \in Nat, n \in Good PROVE n + 1 \in Good
  <2> SUFFICES ASSUME m + 1 + (n + 1) \in Months
               PROVE  FirstDay[m + 1] <= FirstDay[m + 1 + (n + 1)]
    OBVIOUS
  <2>1. PICK j : j = m + 1 + n OBVIOUS
  <2>2. j \in Months /\ j + 1 = m + 1 + (n + 1) BY <1>1, <2>1, MonthsAre
  <2>3. FirstDay[m + 1] <= FirstDay[j] BY <1>3, <2>1, <2>2
  <2>4. FirstDay[j] \in Nat /\ MonthLength[j] \in Nat
        /\ FirstDay[j + 1] = FirstDay[j] + MonthLength[j]
    BY <2>2, MonthIs
  <2>5. FirstDay[m + 1] \in Int BY MonthIs
  <2> QED BY <2>2, <2>3, <2>4, <2>5
<1>4. Nat \subseteq Good
  <2> HIDE DEF Good
  <2> QED BY <1>2, <1>3, SetInduction
<1>5. k - (m + 1) \in Nat /\ m + 1 + (k - (m + 1)) = k BY <1>1, MonthsAre
<1>6. k - (m + 1) \in Good BY <1>4, <1>5
<1> QED BY <1>5, <1>6

Days == 0 .. FirstDay[Len(MonthLength) + 1] - 1

LEMMA DayOfMonth ==
  ASSUME NEW m \in Months, NEW d \in FirstDay[m] .. FirstDay[m + 1] - 1
  PROVE  d \in Days
<1> DEFINE n == Len(MonthLength)
<1>1. n \in Months /\ m <= n BY MonthsAre
<1>2. FirstDay[m + 1] <= FirstDay[n + 1]
  <2>1. CASE m = n BY <1>1, <2>1, MonthIs
  <2>2. CASE m # n
    <3>1. m < n BY <1>1, <2>2, MonthsAre
    <3>2. FirstDay[m + 1] <= FirstDay[n] BY <1>1, <3>1, DaysGrow
    <3>3. FirstDay[n] \in Nat /\ FirstDay[n + 1] \in Nat /\ FirstDay[n] <= FirstDay[n + 1]
      <4>1. PICK k \in Months : k = n BY <1>1
      <4>2. /\ FirstDay[k] \in Nat /\ MonthLength[k] \in Nat
            /\ FirstDay[k + 1] = FirstDay[k] + MonthLength[k]
        BY MonthIs
      <4>3. FirstDay[k + 1] \in Nat /\ FirstDay[k] <= FirstDay[k + 1] BY <4>2
      <4> QED BY <4>1, <4>2, <4>3
    <3>4. PICK x \in Int : x = FirstDay[m + 1] BY MonthIs
    <3>5. PICK y \in Int : y = FirstDay[n] BY <3>3
    <3>6. PICK z \in Int : z = FirstDay[n + 1] BY <3>3
    <3>7. x <= y /\ y <= z BY <3>2, <3>3, <3>4, <3>5, <3>6
    <3> QED BY <3>4, <3>6, <3>7
  <2> QED BY <2>1, <2>2
<1> HIDE DEF n
<1>3. FirstDay[m] \in Nat /\ FirstDay[m + 1] \in Nat /\ FirstDay[n + 1] \in Nat
  BY <1>1, MonthIs
<1>4. d \in 0 .. FirstDay[n + 1] - 1 BY <1>2, <1>3
<1> QED BY <1>4 DEF Days, n

LEMMA BeginsOnIs ==
  ASSUME NEW v, NEW d
  PROVE  BeginsOn(v, d) <=> \E m \in Months : BeginsIn(v, d, m)
BY DEF BeginsOn, BeginsIn

\* A day belongs to one month, and the months are in the order of their days.
LEMMA MonthsApart ==
  ASSUME NEW m \in Months, NEW k \in Months, m < k, NEW d \in Int, NEW e \in Int,
         d < FirstDay[m + 1], FirstDay[k] <= e
  PROVE  d < e
BY DaysGrow, MonthIs

LEMMA MonthBegins ==
  ASSUME NEW m \in Months
  PROVE  /\ MonthBegin(m) \in Int /\ MonthBegin(m + 1) \in Int
         /\ MonthBegin(m) + HoursPerDay <= MonthBegin(m + 1)
<1>1. PICK h \in Nat : h = HoursPerDay BY CalendarAssumption
<1>2. PICK f \in Int : f = FirstDay[m] BY MonthIs
<1>3. PICK g \in Int : g = FirstDay[m + 1] /\ f + 1 <= g BY <1>2, MonthIs
<1>4. f * h + h <= g * h /\ f * h \in Int /\ g * h \in Int
  <2>1. f + 1 \in Int /\ (f + 1) * h <= g * h BY <1>3, Multiplied
  <2>2. (f + 1) * h = f * h + h BY Multiplied
  <2> QED BY <2>1, <2>2
<1> QED BY <1>1, <1>2, <1>3, <1>4 DEF MonthBegin

LEMMA MonthsInOrder ==
  ASSUME NEW m \in Months, NEW k \in Months, m < k
  PROVE  MonthBegin(m + 1) <= MonthBegin(k)
<1>1. PICK h \in Nat : h = HoursPerDay BY CalendarAssumption
<1>2. PICK f \in Int : f = FirstDay[m + 1] BY MonthIs
<1>3. PICK g \in Int : g = FirstDay[k] /\ f <= g BY <1>2, MonthIs, DaysGrow
<1>4. f * h <= g * h BY <1>3, Multiplied
<1> QED BY <1>1, <1>2, <1>3, <1>4 DEF MonthBegin

LEMMA MonthOfTime ==
  ASSUME NEW m \in Months, NEW t \in MonthBegin(m) .. MonthBegin(m + 1) - 1
  PROVE  MonthOf(t) = m
<1>1. t \in Int /\ MonthBegin(m) <= t /\ t < MonthBegin(m + 1) BY MonthBegins
<1>2. ASSUME NEW k \in Months, MonthBegin(k) <= t, t < MonthBegin(k + 1), k # m
      PROVE  FALSE
  <2>1. /\ MonthBegin(m) \in Int /\ MonthBegin(m + 1) \in Int
        /\ MonthBegin(k) \in Int /\ MonthBegin(k + 1) \in Int
    BY MonthBegins
  <2>2. CASE k < m
    <3>1. MonthBegin(k + 1) <= MonthBegin(m) BY <2>2, MonthsInOrder
    <3> QED BY <1>1, <1>2, <2>1, <3>1
  <2>3. CASE m < k
    <3>1. MonthBegin(m + 1) <= MonthBegin(k) BY <2>3, MonthsInOrder
    <3> QED BY <1>1, <1>2, <2>1, <3>1
  <2> QED BY <1>2, <2>2, <2>3, MonthsAre
<1> QED BY <1>1, <1>2 DEF MonthOf

-----------------------------------------------------------------------------
(* The periods of the days on which a validity begins.                     *)

NextDay(v) == IF v.end < v.begin THEN HoursPerDay ELSE 0

EndHour(v) == v.end + NextDay(v)

LEMMA EndHourIs ==
  ASSUME NEW v, IsRepeated(v)
  PROVE  /\ v.begin \in Int /\ v.end \in Int /\ NextDay(v) \in Int /\ EndHour(v) \in Int
         /\ 0 <= v.begin /\ v.begin < HoursPerDay
         /\ 0 <= EndHour(v) /\ EndHour(v) < v.begin + HoursPerDay
<1>1. /\ v.begin \in 0 .. HoursPerDay - 1 /\ v.end \in 0 .. HoursPerDay - 1
      /\ HoursPerDay \in Nat
  BY RepeatedIs
<1> QED BY <1>1 DEF EndHour, NextDay

DayPeriod(v, d) ==
  << LocalToUTC(d * HoursPerDay + v.begin),
     LocalToUTC(d * HoursPerDay + v.end + NextDay(v)) >>

LEMMA DayPeriodIs ==
  ASSUME NEW v, IsRepeated(v), NEW d \in Int
  PROVE  /\ d * HoursPerDay + v.begin \in Int /\ d * HoursPerDay + EndHour(v) \in Int
         /\ DayPeriod(v, d) \in Periods
         /\ DayPeriod(v, d)[1] = LocalToUTC(d * HoursPerDay + v.begin)
         /\ DayPeriod(v, d)[2] = LocalToUTC(d * HoursPerDay + EndHour(v))
<1>1. /\ v.begin \in Int /\ v.end \in Int /\ NextDay(v) \in Int /\ EndHour(v) \in Int
      /\ HoursPerDay \in Nat
  BY EndHourIs, RepeatedIs
<1>2. PICK x \in Int : x = d * HoursPerDay BY <1>1
<1>3. d * HoursPerDay + v.end + NextDay(v) = d * HoursPerDay + EndHour(v)
  BY <1>1, <1>2 DEF EndHour
<1>4. PICK b \in Int : b = d * HoursPerDay + v.begin BY <1>1, <1>2
<1>5. PICK e \in Int : e = d * HoursPerDay + EndHour(v) BY <1>1, <1>2
<1>6. LocalToUTC(b) \in Int /\ LocalToUTC(e) \in Int BY ConversionIsClock
<1> QED BY <1>3, <1>4, <1>5, <1>6 DEF DayPeriod, Periods

LEMMA DayPeriodsApart ==
  ASSUME NEW v, IsRepeated(v), NEW d \in Int, NEW e \in Int, d < e
  PROVE  DayPeriod(v, d)[2] <= DayPeriod(v, e)[1]
<1>1. PICK h \in Nat : h = HoursPerDay BY CalendarAssumption
<1>2. PICK x \in Int : x = d * HoursPerDay + EndHour(v) BY DayPeriodIs
<1>3. PICK y \in Int : y = e * HoursPerDay + v.begin BY DayPeriodIs
<1>4. d * h + h <= e * h /\ d * h \in Int /\ e * h \in Int
  <2>1. d + 1 \in Int /\ d + 1 <= e OBVIOUS
  <2>2. (d + 1) * h <= e * h BY <2>1, Multiplied
  <2>3. (d + 1) * h = d * h + h /\ d * h \in Int /\ e * h \in Int BY Multiplied
  <2> QED BY <2>2, <2>3
<1>5. EndHour(v) \in Int /\ EndHour(v) < v.begin + h /\ v.begin \in Int
  BY <1>1, EndHourIs
<1>6. PICK p \in Int : p = d * h BY <1>4
<1>7. PICK q \in Int : q = e * h BY <1>4
<1>8. x = p + EndHour(v) /\ y = q + v.begin /\ p + h <= q
  BY <1>1, <1>2, <1>3, <1>4, <1>6, <1>7
<1>9. x <= y BY <1>5, <1>8
<1>10. LocalToUTC(x) <= LocalToUTC(y) BY <1>9, ConversionGrows
<1> QED BY <1>2, <1>3, <1>10, DayPeriodIs

\* The periods of a list of days.
PeriodsFrom(v, days) == [i \in DOMAIN days |-> DayPeriod(v, days[i])]

DaysAscend(days, repeats) ==
  \A i, k \in DOMAIN days :
    i < k => days[i] < days[k] \/ (repeats /\ days[i] = days[k])

LEMMA PeriodsFromAre ==
  ASSUME NEW v, IsRepeated(v), NEW days \in Seq(Int), NEW repeats \in BOOLEAN,
         DaysAscend(days, repeats)
  PROVE  /\ PeriodsFrom(v, days) \in Seq(Periods)
         /\ Ascending(PeriodsFrom(v, days), repeats)
         /\ ToSet(PeriodsFrom(v, days)) = {DayPeriod(v, d) : d \in ToSet(days)}
<1>1. DOMAIN days = 1 .. Len(days) /\ Len(days) \in Nat OBVIOUS
<1>2. \A i \in DOMAIN days : days[i] \in Int OBVIOUS
<1>3. \A i \in DOMAIN days : DayPeriod(v, days[i]) \in Periods BY <1>2, DayPeriodIs
<1>4. PeriodsFrom(v, days) \in [1 .. Len(days) -> Periods]
  BY <1>1, <1>3 DEF PeriodsFrom
<1>5. PeriodsFrom(v, days) \in Seq(Periods) BY <1>1, <1>4
<1>6. ToSet(PeriodsFrom(v, days)) = {DayPeriod(v, d) : d \in ToSet(days)}
  BY DEF ToSet, PeriodsFrom
<1>7. Ascending(PeriodsFrom(v, days), repeats)
  <2> SUFFICES ASSUME NEW i \in DOMAIN days, NEW k \in DOMAIN days, i < k
               PROVE  Precedes(DayPeriod(v, days[i]), DayPeriod(v, days[k]), repeats)
    BY DEF Ascending, PeriodsFrom
  <2>0. days[i] < days[k] \/ (repeats /\ days[i] = days[k]) BY DEF DaysAscend
  <2>1. PICK d \in Int : d = days[i] BY <1>2
  <2>2. PICK e \in Int : e = days[k] BY <1>2
  <2>3. d < e => DayPeriod(v, d)[2] <= DayPeriod(v, e)[1] BY DayPeriodsApart
  <2> QED BY <2>0, <2>1, <2>2, <2>3 DEF Precedes
<1> QED BY <1>5, <1>6, <1>7

Starting(v, m) == GetValiditiesStartingInLocalMonth(v, m)

LEMMA StartingAre ==
  ASSUME NEW v, IsRepeated(v), IsInOrder(v), NEW m \in Months
  PROVE  /\ Starting(v, m) \in Seq(Periods)
         /\ Ascending(Starting(v, m), v.kind = "weekly")
         /\ \A p : p \in ToSet(Starting(v, m))
                     <=> /\ \E d \in Int : BeginsIn(v, d, m) /\ p = DayPeriod(v, d)
                         /\ p \in NotEmpty
<1>1. PICK days \in Seq(Int) : days = StartDays(v, m) BY StartDaysAre
<1>2. PICK repeats \in BOOLEAN : repeats = (v.kind = "weekly") OBVIOUS
<1>3. DaysAscend(days, repeats)
  <2> SUFFICES ASSUME NEW i \in DOMAIN days, NEW k \in DOMAIN days, i < k
               PROVE  days[i] < days[k] \/ (repeats /\ days[i] = days[k])
    BY DEF DaysAscend
  <2>1. CASE IsWeekly(v)
    <3>1. days[i] <= days[k] BY <1>1, <2>1, WeeksInOrder
    <3>2. repeats BY <1>2, <2>1, WeeklyIs
    <3>3. days[i] \in Int /\ days[k] \in Int OBVIOUS
    <3> QED BY <3>1, <3>2, <3>3
  <2>2. CASE IsMonthly(v)
    <3>1. i = k BY <1>1, <2>2, MonthsOnce
    <3>2. i \in Int OBVIOUS
    <3> QED BY <3>1, <3>2
  <2> QED BY <2>1, <2>2 DEF IsRepeated
<1>4. /\ PeriodsFrom(v, days) \in Seq(Periods)
      /\ Ascending(PeriodsFrom(v, days), repeats)
      /\ ToSet(PeriodsFrom(v, days)) = {DayPeriod(v, d) : d \in ToSet(days)}
  BY <1>3, PeriodsFromAre
<1>5. Starting(v, m) = Selected(PeriodsFrom(v, days), NotEmpty)
  BY <1>1 DEF Starting, GetValiditiesStartingInLocalMonth, PeriodsFrom, DayPeriod, NextDay
<1>6. Starting(v, m) \in Seq(Periods) BY <1>4, <1>5, SelectedTyped
<1>7. Ascending(Starting(v, m), repeats) BY <1>4, <1>5, SelectedAscends
<1>8. ToSet(Starting(v, m)) = ToSet(PeriodsFrom(v, days)) \cap NotEmpty
  BY <1>4, <1>5, SelectedElements
<1>9. \A d : d \in ToSet(days) <=> d \in Int /\ BeginsIn(v, d, m) BY <1>1, StartDaysAre
<1> QED BY <1>2, <1>4, <1>6, <1>7, <1>8, <1>9

\* The months of the alarm and around it.
Near(m) == {m - 1, m, m + 1}

LEMMA NearMonths ==
  ASSUME NEW m \in 2 .. Len(MonthLength) - 1
  PROVE  /\ m - 1 \in Months /\ m \in Months /\ m + 1 \in Months
         /\ m \in Int /\ m - 1 < m /\ m < m + 1
BY MonthsAre

LEMMA StartingApart ==
  ASSUME NEW v, IsRepeated(v), IsInOrder(v), NEW m \in Months, NEW k \in Months, m < k,
         NEW p \in ToSet(Starting(v, m)), NEW q \in ToSet(Starting(v, k))
  PROVE  p[2] <= q[1]
<1>1. PICK d \in Int : BeginsIn(v, d, m) /\ p = DayPeriod(v, d) BY StartingAre
<1>2. PICK e \in Int : BeginsIn(v, e, k) /\ q = DayPeriod(v, e) BY StartingAre
<1>3. d \in FirstDay[m] .. FirstDay[m + 1] - 1 BY <1>1, BeginsInMonth
<1>4. e \in FirstDay[k] .. FirstDay[k + 1] - 1 BY <1>2, BeginsInMonth
<1>5. d < FirstDay[m + 1] /\ FirstDay[k] <= e BY <1>3, <1>4, MonthIs
<1>6. d < e BY <1>5, MonthsApart
<1> QED BY <1>1, <1>2, <1>6, DayPeriodsApart

LEMMA RepeatedPeriodsAre ==
  ASSUME NEW v, IsRepeated(v), IsInOrder(v), NEW m \in 2 .. Len(MonthLength) - 1
  PROVE  /\ RepeatedPeriods(v, m) \in Seq(Periods)
         /\ Ascending(RepeatedPeriods(v, m), v.kind = "weekly")
         /\ \A p : p \in ToSet(RepeatedPeriods(v, m))
                     <=> /\ \E k \in Near(m) : p \in ToSet(Starting(v, k))
                         /\ p \in Meeting(m)
<1>1. /\ m - 1 \in Months /\ m \in Months /\ m + 1 \in Months
      /\ m \in Int /\ m - 1 < m /\ m < m + 1
  BY NearMonths
<1>2. PICK repeats \in BOOLEAN : repeats = (v.kind = "weekly") OBVIOUS
<1>3. PICK s \in Seq(Periods) : s = Starting(v, m - 1) BY <1>1, StartingAre
<1>4. PICK t \in Seq(Periods) : t = Starting(v, m) BY <1>1, StartingAre
<1>5. PICK u \in Seq(Periods) : u = Starting(v, m + 1) BY <1>1, StartingAre
<1>6. Ascending(s, repeats) /\ Ascending(t, repeats) /\ Ascending(u, repeats)
  BY <1>1, <1>2, <1>3, <1>4, <1>5, StartingAre
<1>7. \A p \in ToSet(s), q \in ToSet(t) : p[2] <= q[1]
  BY <1>1, <1>3, <1>4, StartingApart
<1>8. \A p \in ToSet(t), q \in ToSet(u) : p[2] <= q[1]
  BY <1>1, <1>4, <1>5, StartingApart
<1>9. \A p \in ToSet(s), q \in ToSet(u) : p[2] <= q[1]
  <2>1. m - 1 < m + 1 BY <1>1
  <2> QED BY <1>1, <1>3, <1>5, <2>1, StartingApart
<1>10. s \o t \in Seq(Periods) /\ ToSet(s \o t) = ToSet(s) \cup ToSet(t)
       /\ Ascending(s \o t, repeats)
  BY <1>6, <1>7, ConcatAscends, ConcatElements, ConcatProperties
<1>11. PICK w \in Seq(Periods) : w = s \o t BY <1>10
<1>12. /\ w \o u \in Seq(Periods) /\ ToSet(w \o u) = ToSet(w) \cup ToSet(u)
       /\ Ascending(w \o u, repeats)
  <2>1. \A p \in ToSet(w), q \in ToSet(u) : p[2] <= q[1]
    BY <1>8, <1>9, <1>10, <1>11
  <2>2. Ascending(w, repeats) BY <1>10, <1>11
  <2>3. Ascending(w \o u, repeats) BY <1>6, <2>1, <2>2, ConcatAscends
  <2> QED BY <2>3, ConcatElements, ConcatProperties
<1>13. PICK x \in Seq(Periods) : x = w \o u BY <1>12
<1>14. RepeatedPeriods(v, m) = Selected(x, Meeting(m))
  <2> DEFINE months == AroundMonth(m)
             lists == [i \in DOMAIN months |-> Starting(v, months[i])]
  <2>1. lists = <<s, t, u>> BY <1>3, <1>4, <1>5 DEF AroundMonth
  <2>2. FlattenSeq(lists) = x
    <3>1. PICK l : l = lists OBVIOUS
    <3>2. l = <<s, t, u>> BY <2>1, <3>1
    <3>3. FlattenSeq(l) = (s \o t) \o u BY <3>2, FlattenThree
    <3>4. FlattenSeq(l) = x BY <1>11, <1>13, <3>3
    <3> QED BY <3>1, <3>4
  <2>3. RepeatedPeriods(v, m) = Selected(FlattenSeq(lists), Meeting(m))
    BY DEF RepeatedPeriods, Starting
  <2> QED BY <2>2, <2>3
<1>15. RepeatedPeriods(v, m) \in Seq(Periods) BY <1>14, SelectedTyped
<1>16. Ascending(RepeatedPeriods(v, m), repeats) BY <1>12, <1>13, <1>14, SelectedAscends
<1>17. ToSet(RepeatedPeriods(v, m)) = ToSet(x) \cap Meeting(m)
  BY <1>14, SelectedElements
<1>18. ToSet(x) = ToSet(Starting(v, m - 1)) \cup ToSet(Starting(v, m))
                    \cup ToSet(Starting(v, m + 1))
  BY <1>3, <1>4, <1>5, <1>10, <1>11, <1>12, <1>13
<1> QED BY <1>2, <1>15, <1>16, <1>17, <1>18 DEF Near

-----------------------------------------------------------------------------
(* A time lies in one of the periods when the validity holds.              *)

Lies(t, p) == p[1] <= t /\ t < p[2]

LEMMA ValidIsLies ==
  ASSUME NEW v, IsRepeated(v), NEW t \in Int
  PROVE  ValidAt(v, t)
           <=> \E m \in Months, d \in Int : BeginsIn(v, d, m) /\ Lies(t, DayPeriod(v, d))
<1>1. v.kind # "default" /\ v.kind # "single" BY RepeatedIs
<1> DEFINE Ends == IF v.end < v.begin THEN v.end + HoursPerDay ELSE v.end
<1>2. Ends = EndHour(v) BY EndHourIs, RepeatedIs DEF EndHour, NextDay
<1>3. ValidAt(v, t)
        <=> \E d \in Days : /\ BeginsOn(v, d)
                            /\ Within(d * HoursPerDay + v.begin, d * HoursPerDay + Ends, t)
  BY <1>1 DEF ValidAt, Days
<1> HIDE DEF Ends
<1>4. ASSUME NEW d \in Int
      PROVE  Within(d * HoursPerDay + v.begin, d * HoursPerDay + Ends, t)
               <=> Lies(t, DayPeriod(v, d))
  <2>1. PICK b \in Int : b = d * HoursPerDay + v.begin BY DayPeriodIs
  <2>2. PICK e \in Int : e = d * HoursPerDay + Ends BY <1>2, DayPeriodIs
  <2>3. Within(b, e, t) <=> LocalToUTC(b) <= t /\ t < LocalToUTC(e) BY WithinIsPeriod
  <2> QED BY <1>2, <2>1, <2>2, <2>3, DayPeriodIs DEF Lies
<1>5. \A d : BeginsOn(v, d) <=> \E m \in Months : BeginsIn(v, d, m) BY BeginsOnIs
<1>6. \A d \in Days : d \in Int
  BY DEF Days
<1>7. ASSUME NEW m \in Months, NEW d \in Int, BeginsIn(v, d, m) PROVE d \in Days
  BY <1>7, BeginsInMonth, DayOfMonth
<1> QED BY <1>3, <1>4, <1>5, <1>6, <1>7

\* Other months are too far away from the time of the alarm.
LEMMA OnlyNear ==
  ASSUME NEW v, IsRepeated(v), NEW m \in 2 .. Len(MonthLength) - 1,
         NEW t \in MonthBegin(m) .. MonthBegin(m + 1) - 1,
         NEW k \in Months, NEW d \in Int, BeginsIn(v, d, k), Lies(t, DayPeriod(v, d))
  PROVE  k \in Near(m)
<1>1. /\ m - 1 \in Months /\ m \in Months /\ m + 1 \in Months
      /\ m \in Int /\ m - 1 < m /\ m < m + 1
  BY NearMonths
<1>2. t \in Int /\ MonthBegin(m) <= t /\ t < MonthBegin(m + 1) BY <1>1, MonthBegins
<1>3. k \in Int /\ FirstDay[k] <= d /\ d + 1 <= FirstDay[k + 1]
  <2>1. d \in FirstDay[k] .. FirstDay[k + 1] - 1 BY BeginsInMonth
  <2>2. FirstDay[k] \in Int /\ FirstDay[k + 1] \in Int BY MonthIs
  <2>3. k \in Int BY MonthsAre
  <2> QED BY <2>1, <2>2, <2>3
<1>4. PICK h \in Nat : h = HoursPerDay /\ h > 2 BY CalendarAssumption
<1>5. PICK b \in Int : b = d * HoursPerDay + v.begin BY DayPeriodIs
<1>6. PICK e \in Int : e = d * HoursPerDay + EndHour(v) BY DayPeriodIs
<1>7. LocalToUTC(b) <= t /\ t < LocalToUTC(e) BY <1>5, <1>6, DayPeriodIs DEF Lies
<1>8. LocalToUTC(b) \in Int /\ b - 2 <= LocalToUTC(b) BY ConversionIsNear
<1>9. LocalToUTC(e) \in Int /\ LocalToUTC(e) <= e - 1 BY ConversionIsNear
<1>10. b - 2 <= t /\ t < e - 1 BY <1>2, <1>7, <1>8, <1>9
<1>11. PICK p \in Int : p = d * h BY <1>4, Multiplied
<1>12. /\ v.begin \in Int /\ EndHour(v) \in Int /\ 0 <= v.begin
       /\ v.begin < h /\ EndHour(v) < v.begin + h
  BY <1>4, EndHourIs
<1>13. b = p + v.begin /\ e = p + EndHour(v) BY <1>4, <1>5, <1>6, <1>11
<1>14. p - 2 <= t /\ t < p + h + h - 2
  <2>1. PICK x \in Int : x = v.begin BY <1>12
  <2>2. PICK y \in Int : y = EndHour(v) BY <1>12
  <2>3. /\ b = p + x /\ e = p + y
        /\ 0 <= x /\ x < h /\ y < x + h
    BY <1>12, <1>13, <2>1, <2>2
  <2>4. p + x - 2 <= t /\ t < p + y - 1 BY <1>10, <2>3
  <2> QED BY <1>2, <2>3, <2>4
<1>15. MonthBegin(k) <= p /\ p + h <= MonthBegin(k + 1)
  <2>1. PICK f \in Int : f = FirstDay[k] BY MonthIs
  <2>2. PICK g \in Int : g = FirstDay[k + 1] BY MonthIs
  <2>3. f * h <= d * h BY <1>3, <2>1, Multiplied
  <2>4. (d + 1) * h <= g * h
    <3>1. d + 1 \in Int BY <1>3
    <3> QED BY <1>3, <2>2, <3>1, Multiplied
  <2>5. (d + 1) * h = d * h + h BY Multiplied
  <2> QED BY <1>4, <1>11, <2>1, <2>2, <2>3, <2>4, <2>5 DEF MonthBegin
<1>16. MonthBegin(k) \in Int /\ MonthBegin(k + 1) \in Int BY MonthBegins
<1>17. ~ (k < m - 1)
  <2> SUFFICES ASSUME k < m - 1 PROVE FALSE OBVIOUS
  <2>1. PICK j \in Months : j = m - 1 /\ j + 1 = m BY <1>1
  <2>2. MonthBegin(k + 1) <= MonthBegin(j) BY <2>1, MonthsInOrder
  <2>3. /\ MonthBegin(j) \in Int /\ MonthBegin(j + 1) \in Int
        /\ MonthBegin(j) + HoursPerDay <= MonthBegin(j + 1)
    BY MonthBegins
  <2>4. MonthBegin(j + 1) = MonthBegin(m) BY <2>1
  <2>5. PICK u \in Int : u = MonthBegin(j) BY <2>3
  <2>6. PICK w \in Int : w = MonthBegin(m) BY <2>3, <2>4
  <2>7. p + h <= u /\ u + h <= w /\ w <= t
    BY <1>2, <1>4, <1>15, <1>16, <2>2, <2>3, <2>4, <2>5, <2>6
  <2> QED BY <1>2, <1>4, <1>14, <2>7
<1>18. ~ (m + 1 < k)
  <2> SUFFICES ASSUME m + 1 < k PROVE FALSE OBVIOUS
  <2>1. PICK j \in Months : j = m + 1 BY <1>1
  <2>2. MonthBegin(j + 1) <= MonthBegin(k) BY <2>1, MonthsInOrder
  <2>3. /\ MonthBegin(j) \in Int /\ MonthBegin(j + 1) \in Int
        /\ MonthBegin(j) + HoursPerDay <= MonthBegin(j + 1)
    BY MonthBegins
  <2>4. MonthBegin(j) = MonthBegin(m + 1) BY <2>1
  <2>5. PICK u \in Int : u = MonthBegin(j) BY <2>3
  <2>6. PICK w \in Int : w = MonthBegin(j + 1) BY <2>3
  <2>7. t < u /\ u + h <= w /\ w <= p
    BY <1>2, <1>4, <1>15, <1>16, <2>2, <2>3, <2>4, <2>5, <2>6
  <2> QED BY <1>2, <1>4, <1>14, <2>7
<1> QED BY <1>1, <1>3, <1>17, <1>18 DEF Near

LEMMA LiesIsMeeting ==
  ASSUME NEW m \in Months, NEW t \in MonthBegin(m) .. MonthBegin(m + 1) - 1,
         NEW p \in Periods, Lies(t, p)
  PROVE  p \in NotEmpty /\ p \in Meeting(m)
<1>1. t \in Int /\ MonthBegin(m) <= t /\ t < MonthBegin(m + 1)
      /\ MonthBegin(m) \in Int /\ MonthBegin(m + 1) \in Int
  BY MonthBegins
<1>2. p[1] \in Int /\ p[2] \in Int BY DEF Periods
<1>3. p[2] > p[1] /\ p[1] < MonthBegin(m + 1) /\ p[2] > MonthBegin(m)
  BY <1>1, <1>2 DEF Lies
<1> QED BY <1>3 DEF NotEmpty, Meeting, Periods

LEMMA RepeatedLies ==
  ASSUME NEW v, IsRepeated(v), IsInOrder(v), NEW m \in 2 .. Len(MonthLength) - 1,
         NEW t \in MonthBegin(m) .. MonthBegin(m + 1) - 1
  PROVE  (\E p \in ToSet(RepeatedPeriods(v, m)) : Lies(t, p)) <=> ValidAt(v, t)
<1>1. m - 1 \in Months /\ m \in Months /\ m + 1 \in Months BY NearMonths
<1>2. Near(m) \subseteq Months BY <1>1 DEF Near
<1>3. t \in Int BY <1>1, MonthBegins
<1>4. \A p : p \in ToSet(RepeatedPeriods(v, m))
               <=> /\ \E k \in Near(m) : p \in ToSet(Starting(v, k))
                   /\ p \in Meeting(m)
  BY RepeatedPeriodsAre
<1>5. \A k \in Near(m) : \A p : p \in ToSet(Starting(v, k))
        <=> /\ \E d \in Int : BeginsIn(v, d, k) /\ p = DayPeriod(v, d)
            /\ p \in NotEmpty
  BY <1>2, StartingAre
<1>6. ASSUME NEW p \in ToSet(RepeatedPeriods(v, m)), Lies(t, p) PROVE ValidAt(v, t)
  <2>1. PICK k \in Near(m) : p \in ToSet(Starting(v, k)) BY <1>4
  <2>2. PICK d \in Int : BeginsIn(v, d, k) /\ p = DayPeriod(v, d) BY <1>5, <2>1
  <2> QED BY <1>2, <1>3, <1>6, <2>2, ValidIsLies
<1>7. ASSUME ValidAt(v, t) PROVE \E p \in ToSet(RepeatedPeriods(v, m)) : Lies(t, p)
  <2>1. PICK k \in Months, d \in Int : BeginsIn(v, d, k) /\ Lies(t, DayPeriod(v, d))
    BY <1>3, <1>7, ValidIsLies
  <2>2. k \in Near(m) BY <2>1, OnlyNear
  <2>3. PICK p \in Periods : p = DayPeriod(v, d) BY DayPeriodIs
  <2>4. p \in NotEmpty /\ p \in Meeting(m) BY <1>1, <2>1, <2>3, LiesIsMeeting
  <2> QED BY <1>4, <1>5, <2>1, <2>2, <2>3, <2>4
<1> QED BY <1>6, <1>7

IsValidity(v) == v = DEFAULT_VALIDITY \/ IsSingle(v) \/ IsRepeated(v)

LEMMA SinglePeriods ==
  ASSUME NEW v, IsSingle(v), NEW m \in 2 .. Len(MonthLength) - 1,
         NEW t \in MonthBegin(m) .. MonthBegin(m + 1) - 1
  PROVE  /\ GetValidityPeriods(v, m) \in Seq(Periods)
         /\ Ascending(GetValidityPeriods(v, m), FALSE)
         /\ (\E p \in ToSet(GetValidityPeriods(v, m)) : Lies(t, p)) <=> ValidAt(v, t)
<1>1. v.kind = "single" BY DEF IsSingle
<1>2. PICK b \in Int : b = v.begin BY DEF IsSingle
<1>3. PICK e \in Int : e = v.end BY DEF IsSingle
<1>4. PICK p : p = <<LocalToUTC(b), LocalToUTC(e)>> OBVIOUS
<1>5. p \in Periods /\ p[1] = LocalToUTC(b) /\ p[2] = LocalToUTC(e)
  BY <1>4, ConversionIsNear DEF Periods
<1>6. PICK s : s = Selected(<<p>>, NotEmpty) OBVIOUS
<1>7. <<p>> \in Seq(Periods) /\ ToSet(<<p>>) = {p} BY <1>5 DEF ToSet
<1>8. Ascending(<<p>>, FALSE) BY DEF Ascending
<1>9. s \in Seq(Periods) BY <1>6, <1>7, SelectedTyped
<1>10. Ascending(s, FALSE) BY <1>6, <1>7, <1>8, SelectedAscends
<1>11. ToSet(s) = {p} \cap NotEmpty BY <1>6, <1>7, SelectedElements
<1>12. GetValidityPeriods(v, m) = Selected(s, Meeting(m))
  BY <1>1, <1>2, <1>3, <1>4, <1>6 DEF GetValidityPeriods
<1>13. GetValidityPeriods(v, m) \in Seq(Periods) BY <1>9, <1>12, SelectedTyped
<1>14. Ascending(GetValidityPeriods(v, m), FALSE)
  BY <1>9, <1>10, <1>12, SelectedAscends
<1>15. ToSet(GetValidityPeriods(v, m)) = ({p} \cap NotEmpty) \cap Meeting(m)
  BY <1>9, <1>11, <1>12, SelectedElements
<1>16. m \in Months /\ t \in Int
  <2>1. m \in Months BY NearMonths
  <2> QED BY <2>1, MonthBegins
<1>17. ValidAt(v, t) <=> Lies(t, p)
  <2>1. ValidAt(v, t) <=> Within(b, e, t) BY <1>1, <1>2, <1>3 DEF ValidAt
  <2>2. Within(b, e, t) <=> LocalToUTC(b) <= t /\ t < LocalToUTC(e)
    BY <1>16, WithinIsPeriod
  <2> QED BY <1>5, <2>1, <2>2 DEF Lies
<1>18. Lies(t, p) => p \in NotEmpty /\ p \in Meeting(m) BY <1>5, <1>16, LiesIsMeeting
<1> QED BY <1>13, <1>14, <1>15, <1>17, <1>18

LEMMA UniqueTyped == ASSUME NEW s \in Seq(Periods) PROVE Unique(s) \in Seq(Periods)
<1>1. <<0, 0>> \in Periods BY DEF Periods
<1> QED BY <1>1, UniqueAppend

LEMMA PeriodsAre ==
  ASSUME NEW v, IsValidity(v), IsInOrder(v), NEW m \in 2 .. Len(MonthLength) - 1,
         NEW t \in MonthBegin(m) .. MonthBegin(m + 1) - 1
  PROVE  /\ GetValidityPeriods(v, m) \in Seq(Periods)
         /\ Ascending(GetValidityPeriods(v, m), FALSE)
         /\ (\E p \in ToSet(GetValidityPeriods(v, m)) : Lies(t, p)) <=> ValidAt(v, t)
<1>1. CASE v = DEFAULT_VALIDITY
  <2>1. v.kind = "default" BY <1>1 DEF DEFAULT_VALIDITY
  <2>2. GetValidityPeriods(v, m) = <<>> BY <2>1 DEF GetValidityPeriods
  <2>3. ValidAt(v, t) <=> FALSE BY <2>1 DEF ValidAt
  <2>4. <<>> \in Seq(Periods) /\ ToSet(<<>>) = {} BY DEF ToSet
  <2> QED BY <2>2, <2>3, <2>4, EmptyAscends
<1>2. CASE IsSingle(v) BY <1>2, SinglePeriods
<1>3. CASE IsRepeated(v)
  <2>1. PICK s : s = RepeatedPeriods(v, m) OBVIOUS
  <2>2. PICK repeats \in BOOLEAN : repeats = (v.kind = "weekly") OBVIOUS
  <2>3. /\ s \in Seq(Periods) /\ Ascending(s, repeats)
        /\ (\E p \in ToSet(s) : Lies(t, p)) <=> ValidAt(v, t)
    <3>1. RepeatedPeriods(v, m) \in Seq(Periods)
          /\ Ascending(RepeatedPeriods(v, m), v.kind = "weekly")
      BY <1>3, RepeatedPeriodsAre
    <3>2. (\E p \in ToSet(RepeatedPeriods(v, m)) : Lies(t, p)) <=> ValidAt(v, t)
      BY <1>3, RepeatedLies
    <3> QED BY <2>1, <2>2, <3>1, <3>2
  <2>4. CASE v.kind = "monthly"
    <3>1. repeats = FALSE BY <2>2, <2>4
    <3>2. GetValidityPeriods(v, m) = s BY <2>1, <2>4 DEF GetValidityPeriods
    <3> QED BY <2>3, <3>1, <3>2
  <2>5. CASE v.kind = "weekly"
    <3>1. repeats = TRUE BY <2>2, <2>5
    <3>2. GetValidityPeriods(v, m) = Unique(s) BY <2>1, <2>5 DEF GetValidityPeriods
    <3>3. ToSet(s) \subseteq NotEmpty
      <4>1. Near(m) \subseteq Months BY NearMonths DEF Near
      <4>2. \A k \in Near(m) : ToSet(Starting(v, k)) \subseteq NotEmpty
        BY <1>3, <4>1, StartingAre
      <4> QED BY <1>3, <2>1, <4>2, RepeatedPeriodsAre
    <3>4. Ascending(Unique(s), FALSE) /\ ToSet(Unique(s)) = ToSet(s)
      BY <2>3, <3>1, <3>3, UniqueAscends
    <3> QED BY <2>3, <3>2, <3>4, UniqueTyped
  <2> QED BY <1>3, <2>4, <2>5, RepeatedIs
<1> QED BY <1>1, <1>2, <1>3 DEF IsValidity

-----------------------------------------------------------------------------
(* The exceptions of a dataset.                                            *)

Exceptions == [begin : Int, end : Int, messages : Seq(Messages)]

HoldsAt(t) == {e \in Exceptions : e.begin <= t /\ t < e.end}

\* What PeriodsOf concatenates.
ExceptionList(e, m) ==
  LET periods == GetValidityPeriods(e.validity, m)
  IN [k \in DOMAIN periods |->
       [begin |-> periods[k][1], end |-> periods[k][2], messages |-> e.messages]]

LEMMA ExceptionListIs ==
  ASSUME NEW e \in Entries, NEW m, GetValidityPeriods(e.validity, m) \in Seq(Periods)
  PROVE  /\ ExceptionList(e, m) \in Seq(Exceptions)
         /\ DOMAIN ExceptionList(e, m) = DOMAIN GetValidityPeriods(e.validity, m)
         /\ \A k \in DOMAIN GetValidityPeriods(e.validity, m) :
              /\ ExceptionList(e, m)[k].messages = e.messages
              /\ \A t : ExceptionList(e, m)[k] \in HoldsAt(t)
                          <=> Lies(t, GetValidityPeriods(e.validity, m)[k])
<1>1. PICK s \in Seq(Periods) : s = GetValidityPeriods(e.validity, m) OBVIOUS
<1>2. DOMAIN s = 1 .. Len(s) /\ Len(s) \in Nat OBVIOUS
<1>3. \A k \in DOMAIN s : s[k][1] \in Int /\ s[k][2] \in Int
  <2>1. \A k \in DOMAIN s : s[k] \in Periods OBVIOUS
  <2> QED BY <2>1 DEF Periods
<1>4. ExceptionList(e, m) = [k \in DOMAIN s |->
        [begin |-> s[k][1], end |-> s[k][2], messages |-> e.messages]]
  BY <1>1 DEF ExceptionList
<1>5. e.messages \in Seq(Messages) BY DEF Entries
<1>6. \A k \in DOMAIN s : ExceptionList(e, m)[k] \in Exceptions
  BY <1>3, <1>4, <1>5 DEF Exceptions
<1>7. ExceptionList(e, m) \in [1 .. Len(s) -> Exceptions] BY <1>2, <1>4, <1>6
<1>8. ExceptionList(e, m) \in Seq(Exceptions) BY <1>2, <1>7
<1>9. \A k \in DOMAIN s : \A t :
        ExceptionList(e, m)[k] \in HoldsAt(t) <=> Lies(t, s[k])
  BY <1>4, <1>6 DEF HoldsAt, Lies
<1> QED BY <1>1, <1>4, <1>8, <1>9

\* One exception of an entry holds if its validity does, and no other.
LEMMA HeldOfEntry ==
  ASSUME NEW e \in Entries, NEW m, NEW t \in Int,
         GetValidityPeriods(e.validity, m) \in Seq(Periods),
         Ascending(GetValidityPeriods(e.validity, m), FALSE),
         NEW valid \in BOOLEAN,
         (\E p \in ToSet(GetValidityPeriods(e.validity, m)) : Lies(t, p)) <=> valid
  PROVE  \E x \in Exceptions :
           /\ x.messages = e.messages
           /\ Selected(ExceptionList(e, m), HoldsAt(t)) = IF valid THEN <<x>> ELSE <<>>
<1>1. PICK s \in Seq(Periods) : s = GetValidityPeriods(e.validity, m) OBVIOUS
<1>2. PICK l \in Seq(Exceptions) : l = ExceptionList(e, m) BY ExceptionListIs
<1>3. /\ DOMAIN l = DOMAIN s
      /\ \A k \in DOMAIN s : l[k].messages = e.messages
      /\ \A k \in DOMAIN s : l[k] \in HoldsAt(t) <=> Lies(t, s[k])
  BY <1>1, <1>2, ExceptionListIs
<1>4. CASE valid
  <2>1. PICK i \in DOMAIN s : Lies(t, s[i]) BY <1>1, <1>4 DEF ToSet
  <2>2. \A k \in DOMAIN s : Lies(t, s[k]) => k = i
    BY <1>1, <2>1, OneHolds DEF Lies
  <2>3. i \in DOMAIN l /\ \A k \in DOMAIN l : l[k] \in HoldsAt(t) <=> k = i
    BY <1>3, <2>1, <2>2
  <2>4. Selected(l, HoldsAt(t)) = <<l[i]>> BY <2>3, SelectedOne
  <2>5. l[i] \in Exceptions BY <2>3
  <2> QED BY <1>2, <1>3, <1>4, <2>1, <2>4, <2>5
<1>5. CASE ~ valid
  <2>1. \A k \in DOMAIN l : l[k] \notin HoldsAt(t) BY <1>1, <1>3, <1>5 DEF ToSet
  <2>2. Selected(l, HoldsAt(t)) = <<>> BY <2>1, SelectedNone
  <2>3. PICK x : x = [begin |-> 0, end |-> 0, messages |-> e.messages] OBVIOUS
  <2>4. x \in Exceptions /\ x.messages = e.messages BY <2>3 DEF Entries, Exceptions
  <2> QED BY <1>2, <1>5, <2>2, <2>4
<1> QED BY <1>4, <1>5

ExceptionLists(dataset, m) == [i \in DOMAIN dataset |-> ExceptionList(dataset[i], m)]

LEMMA PeriodsOfAppend ==
  ASSUME NEW s \in Seq(Entries), NEW e \in Entries, NEW m,
         \A v \in Validities : GetValidityPeriods(v, m) \in Seq(Periods)
  PROVE  /\ PeriodsOf(s, m) \in Seq(Exceptions)
         /\ PeriodsOf(Append(s, e), m) = PeriodsOf(s, m) \o ExceptionList(e, m)
<1>1. \A f \in Entries : ExceptionList(f, m) \in Seq(Exceptions)
  <2>1. \A f \in Entries : f.validity \in Validities BY DEF Entries
  <2> QED BY <2>1, ExceptionListIs
<1>2. ASSUME NEW u \in Seq(Entries)
      PROVE  /\ ExceptionLists(u, m) \in Seq(Seq(Exceptions))
             /\ Len(ExceptionLists(u, m)) = Len(u)
             /\ PeriodsOf(u, m) = FlattenSeq(ExceptionLists(u, m))
  <2>1. DOMAIN u = 1 .. Len(u) /\ Len(u) \in Nat OBVIOUS
  <2>2. \A i \in DOMAIN u : u[i] \in Entries OBVIOUS
  <2>3. ExceptionLists(u, m) \in [1 .. Len(u) -> Seq(Exceptions)]
    BY <1>1, <2>1, <2>2 DEF ExceptionLists
  <2>4. ExceptionLists(u, m) \in Seq(Seq(Exceptions)) /\ Len(ExceptionLists(u, m)) = Len(u)
    BY <2>1, <2>3
  <2> QED BY <2>4 DEF PeriodsOf, ExceptionLists, ExceptionList
<1>3. PICK w \in Seq(Entries) : w = Append(s, e) BY AppendProperties
<1>4. /\ Len(w) = Len(s) + 1 /\ Len(s) \in Nat
      /\ DOMAIN w = 1 .. Len(s) + 1 /\ DOMAIN s = 1 .. Len(s)
      /\ \A i \in 1 .. Len(s) : w[i] = s[i]
      /\ w[Len(s) + 1] = e
  BY <1>3, AppendProperties
<1>5. PICK one \in Seq(Exceptions) : one = ExceptionList(e, m) BY <1>1
<1>6. PICK l \in Seq(Seq(Exceptions)) : l = ExceptionLists(s, m) /\ Len(l) = Len(s)
  BY <1>2
<1>7. ExceptionLists(w, m) = Append(l, one)
  <2>5. PICK c : c = Append(l, one) OBVIOUS
  <2>1. /\ c \in Seq(Seq(Exceptions)) /\ Len(c) = Len(s) + 1
        /\ \A i \in 1 .. Len(s) : c[i] = l[i]
        /\ c[Len(s) + 1] = one
    BY <1>6, <2>5, AppendProperties
  <2>2. ExceptionLists(w, m) \in Seq(Seq(Exceptions))
        /\ Len(ExceptionLists(w, m)) = Len(s) + 1
    BY <1>2, <1>4
  <2>3. ASSUME NEW i \in 1 .. Len(s) + 1 PROVE ExceptionLists(w, m)[i] = c[i]
    <3>1. i \in DOMAIN w BY <1>4
    <3>2. CASE i = Len(s) + 1 BY <1>4, <1>5, <2>1, <3>1, <3>2 DEF ExceptionLists
    <3>3. CASE i # Len(s) + 1
      <4>1. i \in 1 .. Len(s) /\ i \in DOMAIN s BY <1>4, <3>3
      <4> QED BY <1>4, <1>6, <2>1, <3>1, <4>1 DEF ExceptionLists
    <3> QED BY <3>2, <3>3
  <2>4. Len(s) + 1 \in Nat BY <1>4
  <2> QED BY <2>1, <2>2, <2>3, <2>4, <2>5, SeqEqual
<1>8. FlattenSeq(l) \in Seq(Exceptions) /\ FlattenSeq(Append(l, one)) = FlattenSeq(l) \o one
  BY FlattenAppend
<1>9. PeriodsOf(w, m) = FlattenSeq(ExceptionLists(w, m)) /\ PeriodsOf(s, m) = FlattenSeq(l)
  BY <1>2, <1>6
<1> QED BY <1>3, <1>5, <1>7, <1>8, <1>9

LEMMA PeriodsOfEmpty == \A m : PeriodsOf(<<>>, m) = <<>>
<1> TAKE m
<1>1. ExceptionLists(<<>>, m) = <<>> BY DEF ExceptionLists
<1> QED BY <1>1, FlattenEmpty DEF PeriodsOf, ExceptionLists, ExceptionList

MessageLists(s) == [i \in DOMAIN s |-> s[i].messages]

LEMMA MessagesOfEmpty == MessagesOf(<<>>) = <<>>
<1>1. MessageLists(<<>>) = <<>> BY DEF MessageLists
<1> QED BY <1>1, FlattenEmpty DEF MessagesOf, MessageLists

LEMMA MessagesOfAppend ==
  ASSUME NEW T, \A x \in T : x.messages \in Seq(Messages),
         NEW s \in Seq(T), NEW e \in T
  PROVE  /\ MessagesOf(s) \in Seq(Messages)
         /\ MessagesOf(Append(s, e)) = MessagesOf(s) \o e.messages
<1>2. ASSUME NEW u \in Seq(T)
      PROVE  /\ MessageLists(u) \in Seq(Seq(Messages))
             /\ Len(MessageLists(u)) = Len(u)
             /\ MessagesOf(u) = FlattenSeq(MessageLists(u))
  <2>1. DOMAIN u = 1 .. Len(u) /\ Len(u) \in Nat OBVIOUS
  <2>2. \A i \in DOMAIN u : u[i] \in T OBVIOUS
  <2>3. MessageLists(u) \in [1 .. Len(u) -> Seq(Messages)]
    BY <2>1, <2>2 DEF MessageLists
  <2>4. MessageLists(u) \in Seq(Seq(Messages)) /\ Len(MessageLists(u)) = Len(u)
    BY <2>1, <2>3
  <2> QED BY <2>4 DEF MessagesOf, MessageLists
<1>3. PICK w \in Seq(T) : w = Append(s, e) BY AppendProperties
<1>4. /\ Len(w) = Len(s) + 1 /\ Len(s) \in Nat
      /\ DOMAIN w = 1 .. Len(s) + 1 /\ DOMAIN s = 1 .. Len(s)
      /\ \A i \in 1 .. Len(s) : w[i] = s[i]
      /\ w[Len(s) + 1] = e
  BY <1>3, AppendProperties
<1>5. PICK one \in Seq(Messages) : one = e.messages OBVIOUS
<1>6. PICK l \in Seq(Seq(Messages)) : l = MessageLists(s) /\ Len(l) = Len(s) BY <1>2
<1>7. MessageLists(w) = Append(l, one)
  <2>5. PICK c : c = Append(l, one) OBVIOUS
  <2>1. /\ c \in Seq(Seq(Messages)) /\ Len(c) = Len(s) + 1
        /\ \A i \in 1 .. Len(s) : c[i] = l[i]
        /\ c[Len(s) + 1] = one
    BY <1>6, <2>5, AppendProperties
  <2>2. MessageLists(w) \in Seq(Seq(Messages)) /\ Len(MessageLists(w)) = Len(s) + 1
    BY <1>2, <1>4
  <2>3. ASSUME NEW i \in 1 .. Len(s) + 1 PROVE MessageLists(w)[i] = c[i]
    <3>1. i \in DOMAIN w BY <1>4
    <3>2. CASE i = Len(s) + 1 BY <1>4, <1>5, <2>1, <3>1, <3>2 DEF MessageLists
    <3>3. CASE i # Len(s) + 1
      <4>1. i \in 1 .. Len(s) /\ i \in DOMAIN s BY <1>4, <3>3
      <4> QED BY <1>4, <1>6, <2>1, <3>1, <4>1 DEF MessageLists
    <3> QED BY <3>2, <3>3
  <2>4. Len(s) + 1 \in Nat BY <1>4
  <2> QED BY <2>1, <2>2, <2>3, <2>4, <2>5, SeqEqual
<1>8. FlattenSeq(l) \in Seq(Messages) /\ FlattenSeq(Append(l, one)) = FlattenSeq(l) \o one
  BY FlattenAppend
<1>9. MessagesOf(w) = FlattenSeq(MessageLists(w)) /\ MessagesOf(s) = FlattenSeq(l)
  BY <1>2, <1>6
<1> QED BY <1>3, <1>5, <1>7, <1>8, <1>9

ValidNow(t) == {e \in Entries : ValidAt(e.validity, t)}
Held(s, m, t) == Selected(PeriodsOf(s, m), HoldsAt(t))

\* What is found by way of the periods of the month is what is valid.
Agrees(s, m, t) ==
  /\ MessagesOf(Held(s, m, t)) = MessagesOf(Selected(s, ValidNow(t)))
  /\ Held(s, m, t) = <<>> <=> Selected(s, ValidNow(t)) = <<>>

LEMMA EntriesAre ==
  ASSUME ValiditiesInOrder, NEW e \in Entries
  PROVE  /\ e.validity \in Validities /\ e.messages \in Seq(Messages)
         /\ IsValidity(e.validity) /\ IsInOrder(e.validity)
BY DatabaseAssumption DEF Entries, ValiditiesInOrder, IsValidity, IsRepeated

LEMMA AppendNotEmpty ==
  ASSUME NEW T, NEW s \in Seq(T), NEW x \in T
  PROVE  Append(s, x) # <<>>
<1>1. Len(s) \in Nat /\ Len(Append(s, x)) = Len(s) + 1 BY AppendProperties
<1>2. Len(<<>>) = 0 OBVIOUS
<1>3. Len(Append(s, x)) # Len(<<>>) BY <1>1, <1>2
<1> QED BY <1>3

LEMMA AppendAgrees ==
  ASSUME ValiditiesInOrder, NEW m \in 2 .. Len(MonthLength) - 1,
         NEW t \in MonthBegin(m) .. MonthBegin(m + 1) - 1,
         NEW s \in Seq(Entries), Agrees(s, m, t), NEW e \in Entries
  PROVE  Agrees(Append(s, e), m, t)
<1>1. \A v \in Validities : IsValidity(v) /\ IsInOrder(v)
  BY DatabaseAssumption DEF ValiditiesInOrder, IsValidity, IsRepeated
<1>2. \A v \in Validities : GetValidityPeriods(v, m) \in Seq(Periods)
  BY <1>1, PeriodsAre
<1>3. PICK valid \in BOOLEAN : valid <=> ValidAt(e.validity, t)
  <2>1. CASE ValidAt(e.validity, t) BY <2>1
  <2>2. CASE ~ ValidAt(e.validity, t) BY <2>2
  <2> QED BY <2>1, <2>2
<1>4. t \in Int
  <2>1. m \in Months BY NearMonths
  <2> QED BY <2>1, MonthBegins
<1>5. PICK x \in Exceptions :
        /\ x.messages = e.messages
        /\ Selected(ExceptionList(e, m), HoldsAt(t)) = IF valid THEN <<x>> ELSE <<>>
  <2>1. e.validity \in Validities BY DEF Entries
  <2>2. /\ GetValidityPeriods(e.validity, m) \in Seq(Periods)
        /\ Ascending(GetValidityPeriods(e.validity, m), FALSE)
        /\ (\E p \in ToSet(GetValidityPeriods(e.validity, m)) : Lies(t, p)) <=> valid
    BY <1>1, <1>3, <2>1, PeriodsAre
  <2> QED BY <1>4, <2>2, HeldOfEntry
<1>6. PICK p \in Seq(Exceptions) : p = PeriodsOf(s, m) BY <1>2, PeriodsOfAppend
<1>7. PICK l \in Seq(Exceptions) : l = ExceptionList(e, m)
  <2>1. e.validity \in Validities BY DEF Entries
  <2> QED BY <1>2, <2>1, ExceptionListIs
<1>8. PeriodsOf(Append(s, e), m) = p \o l BY <1>2, <1>6, <1>7, PeriodsOfAppend
<1>9. PICK h \in Seq(Exceptions) : h = Held(s, m, t)
  BY <1>6, SelectedTyped DEF Held
<1>10. Held(Append(s, e), m, t) = h \o (IF valid THEN <<x>> ELSE <<>>)
  <2>1. Selected(p \o l, HoldsAt(t)) = Selected(p, HoldsAt(t)) \o Selected(l, HoldsAt(t))
    BY SelectedConcat, SMTT(20)
  <2> QED BY <1>5, <1>6, <1>7, <1>8, <1>9, <2>1 DEF Held
<1>11. PICK g \in Seq(Entries) : g = Selected(s, ValidNow(t)) BY SelectedTyped
<1>12. Selected(Append(s, e), ValidNow(t)) = g \o (IF valid THEN <<e>> ELSE <<>>)
  <2>1. e \in ValidNow(t) <=> valid BY <1>3 DEF ValidNow
  <2>2. Selected(Append(s, e), ValidNow(t))
          = Selected(s, ValidNow(t)) \o (IF e \in ValidNow(t) THEN <<e>> ELSE <<>>)
    BY SelectedAppend
  <2> QED BY <1>11, <2>1, <2>2
<1>13. MessagesOf(h) = MessagesOf(g) /\ (h = <<>> <=> g = <<>>)
  BY <1>9, <1>11 DEF Agrees
<1>14. CASE ~ valid
  <2>1. h \o <<>> = h /\ g \o <<>> = g BY ConcatEmptySeq
  <2>2. Held(Append(s, e), m, t) = h /\ Selected(Append(s, e), ValidNow(t)) = g
    BY <1>10, <1>12, <1>14, <2>1
  <2> QED BY <1>13, <2>2 DEF Agrees
<1>15. CASE valid
  <2>1. Held(Append(s, e), m, t) = Append(h, x) BY <1>10, <1>15, AppendIsConcat
  <2>2. Selected(Append(s, e), ValidNow(t)) = Append(g, e) BY <1>12, <1>15, AppendIsConcat
  <2>3. MessagesOf(Append(h, x)) = MessagesOf(h) \o x.messages
    <3>1. \A y \in Exceptions : y.messages \in Seq(Messages) BY DEF Exceptions
    <3> QED BY <3>1, MessagesOfAppend
  <2>4. MessagesOf(Append(g, e)) = MessagesOf(g) \o e.messages
    <3>1. \A y \in Entries : y.messages \in Seq(Messages) BY DEF Entries
    <3> QED BY <3>1, MessagesOfAppend
  <2>5. Append(h, x) # <<>> BY AppendNotEmpty
  <2>6. Append(g, e) # <<>> BY AppendNotEmpty
  <2> QED BY <1>5, <1>13, <2>1, <2>2, <2>3, <2>4, <2>5, <2>6 DEF Agrees
<1> QED BY <1>14, <1>15

LEMMA DatasetAgrees ==
  ASSUME ValiditiesInOrder, NEW m \in 2 .. Len(MonthLength) - 1,
         NEW t \in MonthBegin(m) .. MonthBegin(m + 1) - 1, NEW s \in Seq(Entries)
  PROVE  Agrees(s, m, t)
<1> DEFINE Good == {u \in Seq(Entries) : Agrees(u, m, t)}
<1>1. <<>> \in Good
  <2>1. Agrees(<<>>, m, t)
    BY PeriodsOfEmpty, SelectedEmpty, MessagesOfEmpty DEF Agrees, Held
  <2> QED BY <2>1
<1>2. ASSUME NEW u \in Seq(Entries) \cap Good, NEW e \in Entries
      PROVE  Append(u, e) \in Good
  <2>1. Agrees(Append(u, e), m, t) BY AppendAgrees
  <2> QED BY <2>1, AppendProperties
<1>3. s \in Good
  <2> HIDE DEF Good
  <2> QED BY <1>1, <1>2, SequencesFrom
<1> QED BY <1>3

-----------------------------------------------------------------------------
(* What a search finds.                                                    *)

LEMMA ExceptionsAre ==
  ASSUME NEW o, data[o] \in Seq(Entries), NEW t
  PROVE  ExceptionsAt(o, t) = Selected(data[o], ValidNow(t))
<1>1. PICK s \in Seq(Entries) : s = data[o] OBVIOUS
<1>2. \A e \in ToSet(s) : e \in Entries BY DEF ToSet
<1>3. PICK S : S = {e \in ToSet(s) : ValidAt(e.validity, t)} OBVIOUS
<1>4. \A e \in ToSet(s) : e \in S <=> e \in ValidNow(t) BY <1>2, <1>3 DEF ValidNow
<1>5. Selected(s, S) = Selected(s, ValidNow(t)) BY <1>4, SelectedSame
<1> QED BY <1>1, <1>3, <1>5 DEF ExceptionsAt

LEMMA HoldingIs ==
  ASSUME NEW valid, NEW o, valid.exceptions[o] \in Seq(Exceptions), NEW t
  PROVE  Holding(valid, o, t) = Selected(valid.exceptions[o], HoldsAt(t))
<1>1. PICK s \in Seq(Exceptions) : s = valid.exceptions[o] OBVIOUS
<1>2. \A e \in ToSet(s) : e \in Exceptions BY DEF ToSet
<1>3. PICK S : S = {e \in ToSet(s) : e.begin <= t /\ t < e.end} OBVIOUS
<1>4. \A e \in ToSet(s) : e \in S <=> e \in HoldsAt(t) BY <1>2, <1>3 DEF HoldsAt
<1>5. Selected(s, S) = Selected(s, HoldsAt(t)) BY <1>4, SelectedSame
<1> QED BY <1>1, <1>3, <1>5 DEF Holding

DefaultEntries(s) == {e \in ToSet(s) : e.validity.kind = "default"}

LEMMA DefaultsAre ==
  ASSUME ValiditiesInOrder, NEW s \in Seq(Entries), IsComplete(s)
  PROVE  DefaultsOf(s) = MessagesOf(Selected(s, DefaultEntries(s)))
<1>1. CASE s = <<>>
  BY <1>1, SelectedEmpty, MessagesOfEmpty DEF DefaultsOf
<1>2. CASE s # <<>>
  <2>1. PICK k : k = FindEntry(s, DEFAULT_VALIDITY) OBVIOUS
  <2>2. IsEntry(s, DEFAULT_VALIDITY) /\ AreDistinct(s) BY <1>2 DEF IsComplete
  <2>3. k \in DOMAIN s /\ s[k].validity = DEFAULT_VALIDITY BY <2>1, <2>2, FoundEntry
  <2>4. ASSUME NEW i \in DOMAIN s
        PROVE  s[i].validity.kind = "default" <=> s[i].validity = DEFAULT_VALIDITY
    <3>1. s[i] \in Entries OBVIOUS
    <3>2. IsValidity(s[i].validity) BY <3>1, EntriesAre
    <3>3. PICK v : v = s[i].validity OBVIOUS
    <3>4. IsSingle(v) => v.kind = "single" BY DEF IsSingle
    <3>5. IsRepeated(v) => v.kind \in {"monthly", "weekly"} BY RepeatedIs
    <3>6. v.kind = "default" <=> v = DEFAULT_VALIDITY
      BY <3>2, <3>3, <3>4, <3>5 DEF IsValidity, DEFAULT_VALIDITY
    <3> QED BY <3>3, <3>6
  <2>5. \A i \in DOMAIN s : s[i] \in DefaultEntries(s) <=> i = k
    BY <2>2, <2>3, <2>4 DEF DefaultEntries, ToSet, AreDistinct
  <2>6. Selected(s, DefaultEntries(s)) = <<s[k]>> BY <2>3, <2>5, SelectedOne
  <2>7. PICK e \in Entries : e = s[k] BY <2>3
  <2>8. MessagesOf(<<e>>) = e.messages
    <3>1. \A y \in Entries : y.messages \in Seq(Messages) BY DEF Entries
    <3>2. <<>> \in Seq(Entries) /\ Append(<<>>, e) = <<e>> OBVIOUS
    <3>3. MessagesOf(Append(<<>>, e)) = MessagesOf(<<>>) \o e.messages
      BY <3>1, <3>2, MessagesOfAppend
    <3>4. <<>> \o e.messages = e.messages BY <3>1, ConcatEmptySeq
    <3> QED BY <3>2, <3>3, <3>4, MessagesOfEmpty
  <2> QED BY <1>2, <2>1, <2>6, <2>7, <2>8 DEF DefaultsOf
<1> QED BY <1>1, <1>2

\* The calculation for the month of the alarm gives each owner what is valid.
LEMMA OwnerAgrees ==
  ASSUME ValiditiesInOrder, DataAreTyped, DatasetsAreComplete,
         NEW m \in 2 .. Len(MonthLength) - 1,
         NEW t \in MonthBegin(m) .. MonthBegin(m + 1) - 1,
         NEW valid, valid = RecalculateValidityTimes(m), NEW o \in Owners
  PROVE  /\ Holding(valid, o, t) = <<>> <=> ExceptionsAt(o, t) = <<>>
         /\ ValidAlarms(valid, o, t) = MessagesAt(o, t)
<1>1. PICK s \in Seq(Entries) : s = data[o] /\ IsComplete(s)
  BY DEF DataAreTyped, DatasetsAreComplete
<1>2. Agrees(s, m, t) BY DatasetAgrees
<1>3. PICK g : g = ExceptionsAt(o, t) OBVIOUS
<1>4. g = Selected(s, ValidNow(t)) BY <1>1, <1>3, ExceptionsAre
<1>5. valid.exceptions[o] = PeriodsOf(s, m) /\ valid.defaults[o] = DefaultsOf(s)
  BY <1>1 DEF RecalculateValidityTimes
<1>6. PeriodsOf(s, m) \in Seq(Exceptions)
  <2>1. \A v \in Validities : IsValidity(v) /\ IsInOrder(v)
    BY DatabaseAssumption DEF ValiditiesInOrder, IsValidity, IsRepeated
  <2>2. \A v \in Validities : GetValidityPeriods(v, m) \in Seq(Periods)
    BY <2>1, PeriodsAre
  <2>3. CASE s = <<>>
    <3>1. PeriodsOf(<<>>, m) = <<>> BY PeriodsOfEmpty
    <3>2. <<>> \in Seq(Exceptions) OBVIOUS
    <3> QED BY <2>3, <3>1, <3>2
  <2>4. CASE s # <<>>
    <3>1. PICK e \in Entries : e = s[1] BY <2>4
    <3>2. /\ PeriodsOf(s, m) \in Seq(Exceptions)
          /\ PeriodsOf(Append(s, e), m) = PeriodsOf(s, m) \o ExceptionList(e, m)
      BY <2>2, PeriodsOfAppend
    <3> QED BY <3>2
  <2> QED BY <2>3, <2>4
<1>7. PICK h : h = Holding(valid, o, t) OBVIOUS
<1>8. h = Held(s, m, t) BY <1>5, <1>6, <1>7, HoldingIs DEF Held
<1>9. MessagesOf(h) = MessagesOf(g) /\ (h = <<>> <=> g = <<>>)
  BY <1>2, <1>4, <1>8 DEF Agrees
<1>10. valid.defaults[o] = MessagesOf(Selected(s, DefaultEntries(s)))
  BY <1>1, <1>5, DefaultsAre
<1>11. ValidAlarms(valid, o, t) = IF h # <<>> THEN MessagesOf(h) ELSE valid.defaults[o]
  BY <1>7 DEF ValidAlarms
<1>12. MessagesAt(o, t) = MessagesOf(IF g # <<>> THEN g ELSE Selected(s, DefaultEntries(s)))
  BY <1>1, <1>3 DEF MessagesAt, DefaultEntries
<1> QED BY <1>3, <1>7, <1>9, <1>10, <1>11, <1>12

LEMMA FoundIsAnswer ==
  ASSUME ValiditiesInOrder, DataAreTyped, DatasetsAreComplete,
         NEW m \in 2 .. Len(MonthLength) - 1,
         NEW t \in MonthBegin(m) .. MonthBegin(m + 1) - 1,
         NEW valid, valid = RecalculateValidityTimes(m), NEW c \in Codes
  PROVE  Found(valid, c, t) = AnswerAt(c, t)
<1>1. c \in Owners /\ "all" \in Owners /\ "fallback" \in Owners BY DEF Owners
<1>2. \A o \in Owners : /\ Holding(valid, o, t) = <<>> <=> ExceptionsAt(o, t) = <<>>
                        /\ ValidAlarms(valid, o, t) = MessagesAt(o, t)
  BY OwnerAgrees
<1>3. PICK own : own = MessagesAt(c, t) OBVIOUS
<1>4. PICK messages : messages = (IF own = <<>> THEN MessagesAt("fallback", t) ELSE own)
                                   \o MessagesAt("all", t)
  OBVIOUS
<1>5. PICK default \in BOOLEAN :
        default <=> /\ ExceptionsAt(c, t) = <<>>
                    /\ own = <<>> => ExceptionsAt("fallback", t) = <<>>
  OBVIOUS
<1>6. AnswerAt(c, t) =
        [code |-> c, time |-> t, found |-> messages # <<>>,
         messages |-> Selected(messages, ToSet(messages) \ EmptyMessages),
         default |-> /\ ExceptionsAt(c, t) = <<>>
                     /\ own = <<>> => ExceptionsAt("fallback", t) = <<>>]
  BY <1>3, <1>4 DEF AnswerAt
<1>7. Found(valid, c, t) =
        [code |-> c, time |-> t, found |-> messages # <<>>,
         messages |-> Sendable(messages),
         default |-> /\ Holding(valid, c, t) = <<>>
                     /\ own = <<>> => Holding(valid, "fallback", t) = <<>>]
  BY <1>1, <1>2, <1>3, <1>4 DEF Found
<1>8. (/\ Holding(valid, c, t) = <<>>
       /\ own = <<>> => Holding(valid, "fallback", t) = <<>>)
      = (/\ ExceptionsAt(c, t) = <<>>
         /\ own = <<>> => ExceptionsAt("fallback", t) = <<>>)
  BY <1>1, <1>2
<1> QED BY <1>6, <1>7, <1>8 DEF Sendable

LEMMA SearchFinds ==
  ASSUME ValiditiesInOrder, CacheIsCurrent, DataAreTyped, DatasetsAreComplete,
         NEW c \in Codes, NEW t \in AlarmTimes, Search(c, t)
  PROVE  LookUp
<1>1. PICK m \in 2 .. Len(MonthLength) - 1 : t \in MonthBegin(m) .. MonthBegin(m + 1) - 1
  BY LookupAssumption
<1>2. m \in Months /\ m # 0 BY NearMonths
<1>3. MonthOf(t) = m BY <1>1, <1>2, MonthOfTime
<1>4. PICK valid : valid = cache' OBVIOUS
<1>5. valid = RecalculateValidityTimes(m)
  <2>1. valid = Calculated(t) BY <1>4 DEF Search
  <2> QED BY <1>2, <1>3, <2>1 DEF Calculated, CacheIsCurrent
<1>6. answer' = Found(valid, c, t) BY <1>4 DEF Search
<1>7. Found(valid, c, t) = AnswerAt(c, t) BY <1>1, <1>5, FoundIsAnswer
<1>8. answer' = AnswerAt(c, t) BY <1>6, <1>7
<1>9. AnswerAt(c, t).code = c /\ AnswerAt(c, t).time = t BY DEF AnswerAt
<1>10. data' = data BY DEF Search
<1> QED BY <1>8, <1>9, <1>10 DEF LookUp

LEMMA NextIsLookup ==
  ASSUME ValiditiesInOrder, CacheIsCurrent, DataAreTyped, DatasetsAreComplete, [Next]_vars
  PROVE  [LookupNext]_lookupVars
<1>1. ASSUME answer' = answer PROVE [LookupNext]_lookupVars
  BY <1>1 DEF LookupNext, Change, lookupVars
<1>2. CASE UNCHANGED vars BY <1>1, <1>2 DEF vars, lookupVars
<1>3. ASSUME NEW c \in Codes, NEW t \in AlarmTimes, Search(c, t)
      PROVE  [LookupNext]_lookupVars
  BY <1>3, SearchFinds DEF LookupNext
<1>4. ASSUME Changed PROVE [LookupNext]_lookupVars BY <1>1, <1>4 DEF Changed
<1>5. ASSUME NEW c \in Codes, NEW v \in Validities, NEW x \in Messages, AddMessage(c, v, x)
      PROVE  [LookupNext]_lookupVars
  BY <1>4, <1>5 DEF AddMessage
<1>6. ASSUME NEW c \in Codes, NEW v \in Validities, RemoveValidity(c, v)
      PROVE  [LookupNext]_lookupVars
  BY <1>4, <1>6 DEF RemoveValidity
<1>7. ASSUME NEW o \in Owners, NEW dataset \in Datasets, SetDataset(o, dataset)
      PROVE  [LookupNext]_lookupVars
  BY <1>4, <1>7 DEF SetDataset
<1>8. ASSUME NEW c \in Codes, RemoveCode(c) PROVE [LookupNext]_lookupVars
  BY <1>4, <1>8 DEF RemoveCode
<1>9. ASSUME NEW database \in Databases, Assign(database) PROVE [LookupNext]_lookupVars
  BY <1>4, <1>9 DEF Assign
<1> QED BY <1>2, <1>3, <1>5, <1>6, <1>7, <1>8, <1>9 DEF Next

\* Every search finds the messages that are valid when the local clock shows
\* the time of the alarm: the periods of the UTC months around it, kept or
\* calculated anew, come down to the clock and the calendar, if the weekly
\* validities name their weeks in order and the monthly ones no month twice.
THEOREM LookupImplemented == ValiditiesInOrder /\ Spec => ImplementsLookup
<1>1. Init => LookupInit BY DEF Init, Nothing, LookupInit
<1>2. CASE ValiditiesInOrder
  <2>1. /\ CacheIsCurrent /\ DataAreTyped /\ DatasetsAreComplete /\ [Next]_vars
        => [LookupNext]_lookupVars
    BY <1>2, NextIsLookup
  <2> QED
    BY <1>1, <2>1, CacheCurrent, DatasetsInvariant, PTL
    DEF Spec, ImplementsLookup, LookupSpec
<1>3. CASE ~ ValiditiesInOrder BY <1>3
<1> QED BY <1>2, <1>3
=============================================================================
