--------------------------- MODULE AudioInput_proofs ---------------------------
(***************************************************************************)
(* Proofs about AudioInput, for any number of callers, any limits and any  *)
(* number of blocks, calls and failures: the conjuncts of IInv one after   *)
(* the other, each by cases on the actions that can disturb it.            *)
(***************************************************************************)
EXTENDS AudioInput, FiniteSetTheorems, SequenceTheorems, TLAPS

USE AudioInputAssumption

CallerSteps(c) ==
  \/ StartAudioInput(c) \/ StopAudioInput(c) \/ SetAudioDevice(c) \/ CallerNext(c)

-----------------------------------------------------------------------------
(* Sequences of blocks.                                                    *)

\* The blocks of a sequence of two parts are those of the parts.
LEMMA BlocksOfConcat ==
  ASSUME NEW s \in Seq(0 .. MaxBlocks), NEW t \in Seq(0 .. MaxBlocks)
  PROVE  Blocks(s \o t) = Blocks(s) \cup Blocks(t)
<1>1. ASSUME NEW b \in Blocks(s \o t) PROVE b \in Blocks(s) \cup Blocks(t)
  <2>1. PICK i \in DOMAIN (s \o t) : b = (s \o t)[i]
    BY DEF Blocks
  <2>2. b # Untracked
    BY DEF Blocks
  <2>3. CASE i <= Len(s)
    <3>1. i \in DOMAIN s /\ (s \o t)[i] = s[i]
      BY <2>1, <2>3
    <3> QED BY <3>1, <2>1, <2>2 DEF Blocks
  <2>4. CASE i > Len(s)
    <3>1. i - Len(s) \in DOMAIN t /\ (s \o t)[i] = t[i - Len(s)]
      BY <2>1, <2>4
    <3> QED BY <3>1, <2>1, <2>2 DEF Blocks
  <2> QED BY <2>1, <2>3, <2>4
<1>2. ASSUME NEW b \in Blocks(s) PROVE b \in Blocks(s \o t)
  <2>1. PICK i \in DOMAIN s : b = s[i]
    BY DEF Blocks
  <2>2. i \in DOMAIN (s \o t) /\ (s \o t)[i] = s[i]
    BY <2>1
  <2> QED BY <2>1, <2>2 DEF Blocks
<1>3. ASSUME NEW b \in Blocks(t) PROVE b \in Blocks(s \o t)
  <2>1. PICK i \in DOMAIN t : b = t[i]
    BY DEF Blocks
  <2>2. i + Len(s) \in DOMAIN (s \o t) /\ (s \o t)[i + Len(s)] = t[i]
    BY <2>1
  <2> QED BY <2>1, <2>2 DEF Blocks
<1> QED BY <1>1, <1>2, <1>3

\* The blocks of an extended sequence.
LEMMA BlocksOfAppend ==
  ASSUME NEW s \in Seq(0 .. MaxBlocks), NEW x \in 0 .. MaxBlocks
  PROVE  Blocks(Append(s, x)) = Blocks(s) \cup ({x} \ {Untracked})
<1>1. Append(s, x) = s \o <<x>>
  OBVIOUS
<1>2. Blocks(<<x>>) = {x} \ {Untracked}
  <2> DEFINE y == <<x>>
  <2>1. DOMAIN y = {1} /\ y[1] = x
    OBVIOUS
  <2>2. Blocks(y) = {x} \ {Untracked}
    <3> HIDE DEF y
    <3> QED BY <2>1 DEF Blocks
  <2> QED BY <2>2
<1>3. <<x>> \in Seq(0 .. MaxBlocks)
  OBVIOUS
<1>4. Blocks(s \o <<x>>) = Blocks(s) \cup Blocks(<<x>>)
  BY <1>3, BlocksOfConcat
<1> QED BY <1>1, <1>2, <1>4

\* A part of a sequence in order is in order, and each block of the first
\* part comes before each of the second.
LEMMA OrderedParts ==
  ASSUME NEW s \in Seq(0 .. MaxBlocks), NEW t \in Seq(0 .. MaxBlocks),
         Ordered(s \o t)
  PROVE  /\ Ordered(s) /\ Ordered(t)
         /\ \A a \in Blocks(s), b \in Blocks(t) : a < b
<1> DEFINE st == s \o t
<1>1. \A i \in DOMAIN s : i \in Nat /\ i \in DOMAIN st /\ st[i] = s[i]
  OBVIOUS
<1>2. \A i \in DOMAIN t :
        i \in Nat /\ i + Len(s) \in DOMAIN st /\ st[i + Len(s)] = t[i]
  OBVIOUS
<1>3. Ordered(s)
  BY <1>1 DEF Ordered
<1>4. ASSUME NEW i \in DOMAIN t, NEW j \in DOMAIN t, i < j, t[j] # Untracked
      PROVE  t[i] # Untracked /\ t[i] < t[j]
  <2>1. i \in Nat /\ j \in Nat /\ Len(s) \in Nat
    OBVIOUS
  <2>2. i + Len(s) < j + Len(s)
    BY <1>4, <2>1
  <2>3. st[j + Len(s)] # Untracked
    BY <1>2, <1>4
  <2> QED BY <1>2, <2>2, <2>3 DEF Ordered
<1>5. ASSUME NEW a \in Blocks(s), NEW b \in Blocks(t) PROVE a < b
  <2>1. PICK i \in DOMAIN s : a = s[i]
    BY DEF Blocks
  <2>2. PICK j \in DOMAIN t : b = t[j] /\ b # Untracked
    BY DEF Blocks
  <2>3. i < j + Len(s)
    BY <2>1, <2>2
  <2> QED BY <1>1, <1>2, <2>1, <2>2, <2>3 DEF Ordered
<1> QED BY <1>3, <1>4, <1>5 DEF Ordered

\* A sequence in order stays so with a later block, or one not told apart.
LEMMA OrderedAppend ==
  ASSUME NEW s \in Seq(0 .. MaxBlocks), NEW x \in 0 .. MaxBlocks,
         Ordered(s),
         x # Untracked => \A i \in DOMAIN s : s[i] # Untracked /\ s[i] < x
  PROVE  Ordered(Append(s, x))
<1> DEFINE sx == Append(s, x)
<1>1. \A i \in DOMAIN s : sx[i] = s[i]
  OBVIOUS
<1>2. sx[Len(s) + 1] = x /\ DOMAIN sx = 1 .. Len(s) + 1 /\ DOMAIN s = 1 .. Len(s)
  OBVIOUS
<1> QED BY <1>1, <1>2 DEF Ordered

-----------------------------------------------------------------------------
(* The conjuncts of IInv that are about threads, callers and mutexes.      *)

LEMMA BlocksType ==
  ASSUME NEW s \in Seq(0 .. MaxBlocks)
  PROVE  Blocks(s) \subseteq 1 .. MaxBlocks
BY DEF Blocks, Untracked

\* A caller that goes to another state leaves the others where they are.
LEMMA GoValue ==
  ASSUME NEW c \in Callers, NEW state \in CallerStates,
         caller \in [Callers -> CallerStates], Go(c, state)
  PROVE  /\ caller' \in [Callers -> CallerStates]
         /\ caller'[c] = state
         /\ \A d \in Callers : d # c => caller'[d] = caller[d]
BY DEF Go

\* Each step of a caller takes it to one of the states.
LEMMA CallerGoes ==
  ASSUME TypeOK, NEW c \in Callers, CallerSteps(c)
  PROVE  caller' \in [Callers -> CallerStates]
<1>1. \E state \in CallerStates : Go(c, state)
  BY DEF CallerSteps, CallerNext, StartAudioInput, StopAudioInput,
     SetAudioDevice, Call, RefuseStart, StartMain, StartReading, StopReading,
     JoinReader, StopMain, JoinMain, Joining, ReaderGone, Interrupt, Return,
     GetParameters, SetParameters, CallerStates
<1> QED BY <1>1, GoValue DEF TypeOK

\* Every variable keeps its type.
LEMMA TypeStep ==
  ASSUME TypeOK, [Next]_vars
  PROVE  TypeOK'
<1> USE DEF TypeOK
<1>0. /\ Blocks(unsynced) \subseteq 1 .. MaxBlocks
      /\ Blocks(taken) \subseteq 1 .. MaxBlocks
  BY BlocksType
<1>1. CASE ReaderNext \/ DeviceFails
  <2>1. CASE Synchronize
    <3>1. Captured \in Seq(0 .. MaxBlocks)
      BY DEF Captured, Untracked
    <3> QED BY <2>1, <3>1 DEF Synchronize, Capture, UpdateSignalQueue,
            CheckLength, mainVars, callerVars
  <2>2. CASE MissSynchronization
    <3>1. Captured \in Seq(0 .. MaxBlocks)
      BY DEF Captured, Untracked
    <3> QED BY <2>2, <3>1 DEF MissSynchronization, Capture, mainVars,
            callerVars, losses
  <2>3. CASE ForceSynchronization
    BY <2>3 DEF ForceSynchronization, UpdateSignalQueue, CheckLength, mainVars,
       callerVars
  <2>4. CASE ReaderStarts
    BY <2>4 DEF ReaderStarts, readerVars, mainVars, callerVars, losses
  <2>5. CASE ReaderTerminates
    <3>1. dropped' \subseteq 1 .. MaxBlocks
      BY <1>0, <2>5 DEF ReaderTerminates
    <3> QED BY <2>5, <3>1 DEF ReaderTerminates, mainVars, callerVars
  <2>6. CASE ReaderReads
    BY <2>6 DEF ReaderReads, readerVars, mainVars, callerVars, losses
  <2>7. CASE DeviceFails
    <3>1. lost' \subseteq 1 .. MaxBlocks
      BY <1>0, <2>7 DEF DeviceFails
    <3>2. failures' \in Nat
      BY <2>7 DEF DeviceFails
    <3> QED BY <2>7, <3>1, <3>2 DEF DeviceFails, mainVars, callerVars
  <2> QED BY <1>1, <2>1, <2>2, <2>3, <2>4, <2>5, <2>6, <2>7 DEF ReaderNext
<1>2. CASE MainNext \/ MainFails
  <2>1. CASE MainStarts \/ MainEnds \/ MainCopies
    BY <2>1 DEF MainStarts, MainEnds, MainCopies, readerVars, callerVars, losses
  <2>2. CASE MainTakes
    BY <2>2 DEF MainTakes, callerVars, losses
  <2>3. CASE MainAnalyses
    <3>1. analysed' \subseteq 1 .. MaxBlocks
      BY <1>0, <2>3 DEF MainAnalyses
    <3> QED BY <2>3, <3>1 DEF MainAnalyses, readerVars, callerVars, losses
  <2>4. CASE MainFails
    <3>1. lost' \subseteq 1 .. MaxBlocks
      BY <1>0, <2>4 DEF MainFails
    <3>2. failures' \in Nat
      BY <2>4 DEF MainFails
    <3> QED BY <2>4, <3>1, <3>2 DEF MainFails, readerVars, callerVars
  <2> QED BY <1>2, <2>1, <2>2, <2>3, <2>4 DEF MainNext
<1>3. ASSUME NEW c \in Callers, CallerSteps(c) PROVE TypeOK'
  <2>0. caller' \in [Callers -> CallerStates]
    BY <1>3, CallerGoes
  <2>1. CASE StartAudioInput(c) \/ StopAudioInput(c) \/ SetAudioDevice(c)
    <3>1. calls' = calls + 1 /\ clean' \subseteq Callers
      BY <2>1 DEF StartAudioInput, StopAudioInput, SetAudioDevice, Call
    <3>2. calls' \in Nat
      BY <3>1
    <3>3. CASE StartAudioInput(c)
      BY <2>0, <3>1, <3>2, <3>3 DEF StartAudioInput, readerVars, mainVars, losses
    <3>4. CASE StopAudioInput(c)
      BY <2>0, <3>1, <3>2, <3>4 DEF StopAudioInput, readerVars, mainVars, losses
    <3>5. CASE SetAudioDevice(c)
      BY <2>0, <3>1, <3>2, <3>5 DEF SetAudioDevice, readerVars, mainVars, losses
    <3> QED BY <2>1, <3>3, <3>4, <3>5
  <2>2. CASE RefuseStart(c)
    BY <2>0, <2>2 DEF RefuseStart, readerVars, mainVars, losses
  <2>3. CASE StartMain(c)
    BY <2>0, <2>3 DEF StartMain, readerVars, losses
  <2>4. CASE StartReading(c)
    <3>1. starts' \in Nat
      BY <2>4 DEF StartReading
    <3> QED BY <2>0, <2>4, <3>1 DEF StartReading, readerVars, mainVars, losses
  <2>5. CASE StopReading(c)
    BY <2>0, <2>5 DEF StopReading, readerVars, mainVars, losses
  <2>6. CASE JoinReader(c)
    BY <2>0, <2>6 DEF JoinReader, readerVars, mainVars, losses
  <2>7. CASE StopMain(c)
    BY <2>0, <2>7 DEF StopMain, Interrupt, Return, readerVars, losses
  <2>8. CASE JoinMain(c)
    BY <2>0, <2>8 DEF JoinMain, Return, readerVars, losses
  <2>9. CASE GetParameters(c)
    BY <2>0, <2>9 DEF GetParameters, readerVars, mainVars, losses
  <2>10. CASE SetParameters(c)
    BY <2>0, <2>10 DEF SetParameters, readerVars, mainVars, losses
  <2> QED BY <1>3, <2>1, <2>2, <2>3, <2>4, <2>5, <2>6, <2>7, <2>8, <2>9, <2>10
          DEF CallerSteps, CallerNext
<1>4. CASE UNCHANGED vars
  BY <1>4 DEF vars, readerVars, mainVars, callerVars, losses
<1> QED BY <1>1, <1>2, <1>3, <1>4 DEF Next, CallerSteps

\* The reader and the main thread leave the callers alone, exist before and
\* after their steps, and the callers leave the blocks alone.
LEMMA ThreadSteps ==
  ASSUME TypeOK, ReaderNext \/ DeviceFails \/ MainNext \/ MainFails
  PROVE  /\ UNCHANGED callerVars
         /\ (reader = "none") <=> (reader' = "none")
         /\ (main = "none") <=> (main' = "none")
BY DEF ReaderNext, DeviceFails, MainNext, MainFails, ReaderStarts,
   ReaderTerminates, ReaderReads, Synchronize, MissSynchronization,
   ForceSynchronization, Capture, UpdateSignalQueue, CheckLength, MainStarts,
   MainEnds, MainCopies, MainTakes, MainAnalyses, mainVars, callerVars, losses

LEMMA LocksStep ==
  ASSUME TypeOK, LocksAreExclusive, [Next]_vars
  PROVE  LocksAreExclusive'
<1> USE DEF LocksAreExclusive, MainMutex, ThreadMutex
<1>1. CASE ReaderNext \/ DeviceFails \/ MainNext \/ MainFails
  BY <1>1, ThreadSteps DEF callerVars
<1>2. ASSUME NEW c \in Callers, CallerSteps(c) PROVE LocksAreExclusive'
  <2>0. caller \in [Callers -> CallerStates]
    BY DEF TypeOK
  <2>1. CASE StartAudioInput(c)
    BY <2>0, <2>1, GoValue DEF StartAudioInput, Call, mainVars, CallerStates
  <2>2. CASE StopAudioInput(c)
    BY <2>0, <2>2, GoValue DEF StopAudioInput, Call, mainVars, CallerStates
  <2>3. CASE SetAudioDevice(c)
    BY <2>0, <2>3, GoValue DEF SetAudioDevice, Call, mainVars, CallerStates
  <2>4. CASE RefuseStart(c)
    BY <2>0, <2>4, GoValue DEF RefuseStart, mainVars, CallerStates
  <2>5. CASE StartMain(c)
    BY <2>0, <2>5, GoValue DEF StartMain, CallerStates
  <2>6. CASE StartReading(c)
    BY <2>0, <2>6, GoValue DEF StartReading, mainVars, CallerStates
  <2>7. CASE StopReading(c)
    <3>1. CASE reader = "none"
      BY <2>0, <2>7, <3>1, GoValue DEF StopReading, ReaderGone, CallerStates, mainVars
    <3>2. CASE reader # "none"
      BY <2>0, <2>7, <3>2, GoValue DEF StopReading, Joining, CallerStates, mainVars
    <3> QED BY <3>1, <3>2
  <2>8. CASE JoinReader(c)
    BY <2>0, <2>8, GoValue DEF JoinReader, ReaderGone, mainVars, CallerStates
  <2>9. CASE StopMain(c)
    <3>1. CASE main = "none"
      BY <2>0, <2>9, <3>1, GoValue DEF StopMain, Return, CallerStates
    <3>2. CASE main # "none"
      BY <2>0, <2>9, <3>2, GoValue DEF StopMain, Interrupt, CallerStates
    <3> QED BY <3>1, <3>2
  <2>10. CASE JoinMain(c)
    BY <2>0, <2>10, GoValue DEF JoinMain, Return, CallerStates
  <2>11. CASE GetParameters(c)
    BY <2>0, <2>11, GoValue DEF GetParameters, mainVars, CallerStates
  <2>12. CASE SetParameters(c)
    BY <2>0, <2>12, GoValue DEF SetParameters, mainVars, CallerStates
  <2> QED BY <1>2, <2>1, <2>2, <2>3, <2>4, <2>5, <2>6, <2>7, <2>8, <2>9, <2>10,
             <2>11, <2>12 DEF CallerSteps, CallerNext
<1>3. CASE UNCHANGED vars
  BY <1>3 DEF vars, mainVars, callerVars
<1> QED BY <1>1, <1>2, <1>3 DEF Next, CallerSteps

\* A StopAudioInput that no StartAudioInput overlaps leaves no thread behind.
LEMMA StopsStep ==
  ASSUME TypeOK, LocksAreExclusive, CleanStops, StopStops, [Next]_vars
  PROVE  CleanStops' /\ StopStops'
<1> USE DEF CleanStops, StopStops
<1>1. CASE ReaderNext \/ DeviceFails \/ MainNext \/ MainFails
  BY <1>1, ThreadSteps DEF callerVars
<1>2. ASSUME NEW c \in Callers, CallerSteps(c) PROVE CleanStops' /\ StopStops'
  <2>0. caller \in [Callers -> CallerStates] /\ clean \subseteq Callers
    BY DEF TypeOK
  <2>1. CASE StartAudioInput(c)
    BY <2>0, <2>1, GoValue DEF StartAudioInput, Call, mainVars, CallerStates
  <2>2. CASE StopAudioInput(c)
    BY <2>0, <2>2, GoValue DEF StopAudioInput, Call, mainVars, CallerStates
  <2>3. CASE SetAudioDevice(c)
    BY <2>0, <2>3, GoValue DEF SetAudioDevice, Call, mainVars, CallerStates
  <2>4. CASE RefuseStart(c)
    BY <2>0, <2>4, GoValue DEF RefuseStart, mainVars, CallerStates
  <2>5. CASE StartMain(c)
    BY <2>0, <2>5, GoValue DEF StartMain, CallerStates
  <2>6. CASE StartReading(c)
    BY <2>0, <2>6, GoValue DEF StartReading, mainVars, CallerStates
  <2>7. CASE StopReading(c)
    <3>1. CASE reader = "none"
      BY <2>0, <2>7, <3>1, GoValue DEF StopReading, ReaderGone, CallerStates, mainVars
    <3>2. CASE reader # "none"
      BY <2>0, <2>7, <3>2, GoValue DEF StopReading, Joining, CallerStates, mainVars
    <3> QED BY <3>1, <3>2
  <2>8. CASE JoinReader(c)
    BY <2>0, <2>8, GoValue DEF JoinReader, ReaderGone, mainVars, CallerStates
  <2>9. CASE StopMain(c)
    <3>1. CASE main = "none"
      BY <2>0, <2>9, <3>1, GoValue DEF StopMain, Return, CallerStates
    <3>2. CASE main # "none"
      BY <2>0, <2>9, <3>2, GoValue DEF StopMain, Interrupt, CallerStates
    <3> QED BY <3>1, <3>2
  <2>10. CASE JoinMain(c)
    BY <2>0, <2>10, GoValue DEF JoinMain, Return, CallerStates
  <2>11. CASE GetParameters(c)
    BY <2>0, <2>11, GoValue DEF GetParameters, mainVars, CallerStates
  <2>12. CASE SetParameters(c)
    BY <2>0, <2>12, GoValue DEF SetParameters, mainVars, CallerStates
  <2> QED BY <1>2, <2>1, <2>2, <2>3, <2>4, <2>5, <2>6, <2>7, <2>8, <2>9, <2>10,
             <2>11, <2>12 DEF CallerSteps, CallerNext
<1>3. CASE UNCHANGED vars
  BY <1>3 DEF vars, mainVars, callerVars
<1> QED BY <1>1, <1>2, <1>3 DEF Next, CallerSteps

-----------------------------------------------------------------------------
(* The bounds of the reader.                                               *)

\* A sequence has at most as many different blocks as elements.
LEMMA FewBlocks ==
  ASSUME NEW s \in Seq(0 .. MaxBlocks)
  PROVE  /\ IsFiniteSet(Blocks(s))
         /\ Cardinality(Blocks(s)) \in Nat /\ Cardinality(Blocks(s)) <= Len(s)
<1> DEFINE R == {s[i] : i \in DOMAIN s}
           f == [i \in 1 .. Len(s) |-> s[i]]
<1>1. Len(s) \in Nat /\ DOMAIN s = 1 .. Len(s)
  OBVIOUS
<1>2. f \in Surjection(1 .. Len(s), R)
  BY <1>1 DEF Surjection
<1>3. IsFiniteSet(1 .. Len(s)) /\ Cardinality(1 .. Len(s)) = Len(s)
  <2>1. 1 \in Int /\ Len(s) \in Int
    BY <1>1
  <2>2. /\ IsFiniteSet(1 .. Len(s))
        /\ Cardinality(1 .. Len(s)) = IF 1 > Len(s) THEN 0 ELSE Len(s) - 1 + 1
    BY <2>1, FS_Interval
  <2> QED BY <1>1, <2>2
<1>4. IsFiniteSet(R) /\ Cardinality(R) <= Len(s)
  BY <1>2, <1>3, FS_Surjection
<1>5. Blocks(s) \subseteq R
  BY DEF Blocks
<1>6. IsFiniteSet(Blocks(s)) /\ Cardinality(Blocks(s)) <= Cardinality(R)
  BY <1>4, <1>5, FS_Subset
<1>7. Cardinality(Blocks(s)) \in Nat /\ Cardinality(R) \in Nat
  BY <1>4, <1>6, FS_CardinalityType
<1> QED BY <1>1, <1>4, <1>6, <1>7

\* Dropping the blocks of s adds no more than its length.
LEMMA DroppedGrows ==
  ASSUME NEW D \in SUBSET (1 .. MaxBlocks), NEW s \in Seq(0 .. MaxBlocks)
  PROVE  /\ Cardinality(D) \in Nat /\ Cardinality(D \cup Blocks(s)) \in Nat
         /\ Cardinality(D \cup Blocks(s)) <= Cardinality(D) + Len(s)
<1>1. IsFiniteSet(D)
  <2>1. 1 \in Int /\ MaxBlocks \in Int
    OBVIOUS
  <2>2. IsFiniteSet(1 .. MaxBlocks)
    BY <2>1, FS_Interval
  <2> QED BY <2>2, FS_Subset
<1>2. /\ IsFiniteSet(D \cup Blocks(s))
      /\ Cardinality(D \cup Blocks(s)) =
           Cardinality(D) + Cardinality(Blocks(s)) - Cardinality(D \cap Blocks(s))
  BY <1>1, FewBlocks, FS_Union
<1>3. Cardinality(D \cap Blocks(s)) \in Nat
  BY <1>1, FS_Intersection, FS_CardinalityType
<1>4. Cardinality(D) \in Nat /\ Cardinality(D \cup Blocks(s)) \in Nat
  BY <1>1, <1>2, FS_CardinalityType
<1> QED BY <1>2, <1>3, <1>4, FewBlocks

\* One more reader.
LEMMA OneMore ==
  ASSUME NEW n \in Nat, NEW k \in Nat
  PROVE  n * k \in Nat /\ (n + 1) * k = n * k + k
OBVIOUS

\* The number of readers that have ended.
LEMMA FinishedType ==
  ASSUME TypeOK, ReaderIsBounded
  PROVE  FinishedReaders \in Nat
BY DEF TypeOK, ReaderIsBounded, FinishedReaders

\* Passing on at most MaxMissed blocks respects the bounds.
LEMMA BoundedUpdate ==
  ASSUME TypeOK, ReaderIsBounded, ReaderIsAlive,
         NEW s \in Seq(0 .. MaxBlocks), Len(s) <= MaxMissed,
         UpdateSignalQueue(s), UNCHANGED <<starts, dropped>>
  PROVE  ReaderIsBounded'
<1> DEFINE F == FinishedReaders
           queues == F * MaxMissed
           drops == F * (MaxMissed - 1)
<1>1. F \in Nat /\ F = starts - 1 /\ starts \in Nat /\ starts > 0
  BY FinishedType DEF FinishedReaders, ReaderIsBounded, TypeOK
<1>2. /\ queues \in Nat /\ (F + 1) * MaxMissed = queues + MaxMissed
      /\ drops \in Nat /\ (F + 1) * (MaxMissed - 1) = drops + (MaxMissed - 1)
  <2>1. MaxMissed \in Nat /\ MaxMissed - 1 \in Nat
    OBVIOUS
  <2> HIDE DEF F
  <2> QED BY <1>1, <2>1, OneMore
<1>3. Len(queue) \in Nat /\ Len(s) \in Nat /\ Len(queue') = Len(queue) + Len(s)
  BY DEF TypeOK, UpdateSignalQueue
<1>4. /\ Len(queue) <= MaxQueue + queues
      /\ Cardinality(dropped) <= drops
      /\ Len(queue) > MaxQueue => reported
  BY DEF ReaderIsBounded
<1>5. unsynced' = <<>> /\ Len(unsynced') = 0
  BY DEF UpdateSignalQueue
<1>6. Cardinality(dropped) \in Nat
  BY BlocksType, DroppedGrows DEF TypeOK
<1>7. CASE Len(queue') > MaxQueue
  <2>1. reader' = "ended" /\ reported'
    BY <1>7 DEF UpdateSignalQueue, CheckLength
  <2>2. ~ReaderIsAlive' /\ FinishedReaders' = F + 1
    BY <1>1, <2>1 DEF ReaderIsAlive, FinishedReaders
  <2>3. Len(queue') <= MaxQueue + FinishedReaders' * MaxMissed
    <3> HIDE DEF F, queues, drops
    <3>1. FinishedReaders' * MaxMissed = queues + MaxMissed
      BY <1>2, <2>2
    <3>2. Len(queue') <= MaxQueue + (queues + MaxMissed)
      BY <1>2, <1>3, <1>4
    <3> QED BY <3>1, <3>2
  <2>4. Cardinality(dropped') <= FinishedReaders' * (MaxMissed - 1)
    <3> HIDE DEF F, queues, drops
    <3> QED BY <1>2, <1>4, <1>6, <2>2
  <2> QED BY <1>5, <2>1, <2>2, <2>3, <2>4 DEF ReaderIsBounded
<1>8. CASE ~(Len(queue') > MaxQueue)
  <2>1. reader' = "top"
    BY <1>8 DEF UpdateSignalQueue, CheckLength
  <2>2. ReaderIsAlive' /\ FinishedReaders' = F
    BY <1>1, <2>1 DEF ReaderIsAlive, FinishedReaders
  <2>3. Len(queue') <= MaxQueue + FinishedReaders' * MaxMissed
    <3> HIDE DEF F, drops
    <3> QED BY <1>2, <1>3, <1>8, <2>2
  <2>4. Cardinality(dropped') <= FinishedReaders' * (MaxMissed - 1)
    BY <1>4, <2>2
  <2> QED BY <1>1, <1>5, <1>8, <2>1, <2>2, <2>3, <2>4 DEF ReaderIsBounded
<1> QED BY <1>7, <1>8

\* A reader that ends early, and keeps fewer than MaxMissed blocks.
LEMMA BoundedEnd ==
  ASSUME TypeOK, ReaderIsBounded, reader \in {"top", "reading"},
         reader' = "ended", unsynced' = <<>>,
         UNCHANGED <<queue, starts>>, reported => reported',
         dropped' = dropped \cup Blocks(unsynced) \/ dropped' = dropped
  PROVE  ReaderIsBounded'
<1> DEFINE F == FinishedReaders
           queues == F * MaxMissed
           drops == F * (MaxMissed - 1)
<1>1. F \in Nat /\ F = starts - 1 /\ starts \in Nat /\ starts > 0
  BY FinishedType DEF FinishedReaders, ReaderIsBounded, ReaderIsAlive, TypeOK
<1>2. /\ queues \in Nat /\ (F + 1) * MaxMissed = queues + MaxMissed
      /\ drops \in Nat /\ (F + 1) * (MaxMissed - 1) = drops + (MaxMissed - 1)
  <2>1. MaxMissed \in Nat /\ MaxMissed - 1 \in Nat
    OBVIOUS
  <2> HIDE DEF F
  <2> QED BY <1>1, <2>1, OneMore
<1>3. Len(queue) \in Nat /\ Len(unsynced) \in Nat
  BY DEF TypeOK
<1>4. /\ Len(queue) <= MaxQueue + queues
      /\ Cardinality(dropped) <= drops
      /\ Len(unsynced) <= MaxMissed - 1
      /\ Len(queue) > MaxQueue => reported
  BY DEF ReaderIsBounded
<1>5. /\ Cardinality(dropped) \in Nat /\ Cardinality(dropped') \in Nat
      /\ Cardinality(dropped') <= Cardinality(dropped) + Len(unsynced)
  <2>1. dropped \in SUBSET (1 .. MaxBlocks) /\ unsynced \in Seq(0 .. MaxBlocks)
    BY DEF TypeOK
  <2>2. /\ Cardinality(dropped) \in Nat
        /\ Cardinality(dropped \cup Blocks(unsynced)) \in Nat
        /\ Cardinality(dropped \cup Blocks(unsynced)) <=
             Cardinality(dropped) + Len(unsynced)
    BY <2>1, DroppedGrows
  <2>3. CASE dropped' = dropped
    BY <1>3, <2>2, <2>3
  <2>4. CASE dropped' = dropped \cup Blocks(unsynced)
    BY <2>2, <2>4
  <2> QED BY <2>3, <2>4
<1>6. ~ReaderIsAlive' /\ FinishedReaders' = F + 1 /\ Len(unsynced') = 0
  BY <1>1 DEF ReaderIsAlive, FinishedReaders
<1>7. Len(queue') <= MaxQueue + FinishedReaders' * MaxMissed
  <2> HIDE DEF F, queues, drops
  <2> QED BY <1>2, <1>3, <1>4, <1>6
<1>8. Cardinality(dropped') <= FinishedReaders' * (MaxMissed - 1)
  <2> HIDE DEF F, queues, drops
  <2> QED BY <1>2, <1>3, <1>4, <1>5, <1>6
<1> QED BY <1>4, <1>6, <1>7, <1>8 DEF ReaderIsBounded

LEMMA BoundedStep ==
  ASSUME TypeOK, ReaderIsBounded, [Next]_vars
  PROVE  ReaderIsBounded'
<1>1. CASE ReaderNext \/ DeviceFails
  <2>1. UNCHANGED starts
    BY <1>1, ThreadSteps DEF callerVars
  <2>2. reader = "reading" =>
          /\ Captured \in Seq(0 .. MaxBlocks)
          /\ Len(Captured) <= MaxMissed
    BY DEF Captured, Untracked, TypeOK, ReaderIsBounded
  <2>3. CASE Synchronize
    <3>1. ReaderIsAlive /\ UpdateSignalQueue(Captured) /\ UNCHANGED dropped
      BY <2>3 DEF Synchronize, Capture, ReaderIsAlive
    <3> QED BY <2>1, <2>2, <2>3, <3>1, BoundedUpdate DEF Synchronize, Capture
  <2>4. CASE ForceSynchronization
    <3>1. ReaderIsAlive /\ UpdateSignalQueue(unsynced) /\ UNCHANGED dropped
      BY <2>4 DEF ForceSynchronization, ReaderIsAlive
    <3>2. unsynced \in Seq(0 .. MaxBlocks) /\ Len(unsynced) <= MaxMissed
      BY <2>4 DEF ForceSynchronization, TypeOK, ReaderIsBounded
    <3> QED BY <2>1, <3>1, <3>2, BoundedUpdate
  <2>5. CASE MissSynchronization
    <3>1. /\ reader = "reading" /\ reader' \in {"top", "forcing"}
          /\ unsynced' = Captured
          /\ reader' = "top" => Len(unsynced') < MaxMissed
          /\ UNCHANGED <<queue, starts, dropped, reported>>
      BY <2>2, <2>5 DEF MissSynchronization, Capture, Forced, losses, callerVars
    <3>2. Len(unsynced') \in Nat /\ Len(unsynced') <= MaxMissed
      BY <2>2, <3>1
    <3>3. UNCHANGED FinishedReaders /\ ReaderIsAlive'
      BY <3>1 DEF FinishedReaders, ReaderIsAlive
    <3>4. Len(unsynced') <= IF reader' = "forcing" THEN MaxMissed ELSE MaxMissed - 1
      BY <3>1, <3>2
    <3>5. starts > 0
      BY <3>1 DEF ReaderIsBounded, ReaderIsAlive
    <3> QED BY <3>1, <3>3, <3>4, <3>5 DEF ReaderIsBounded
  <2>6. CASE ReaderStarts \/ ReaderReads
    <3>1. /\ reader \in {"started", "top"} /\ reader' \in {"top", "reading"}
          /\ UNCHANGED <<unsynced, queue, starts, dropped, reported>>
      BY <2>6 DEF ReaderStarts, ReaderReads, readerVars, losses, callerVars
    <3>2. UNCHANGED FinishedReaders /\ ReaderIsAlive'
      BY <3>1 DEF FinishedReaders, ReaderIsAlive
    <3>3. Len(unsynced') <= MaxMissed - 1 /\ starts > 0
      BY <3>1 DEF ReaderIsBounded, ReaderIsAlive
    <3> QED BY <3>1, <3>2, <3>3 DEF ReaderIsBounded
  <2>7. CASE ReaderTerminates \/ DeviceFails
    BY <2>1, <2>7, BoundedEnd DEF ReaderTerminates, DeviceFails
  <2> QED BY <1>1, <2>3, <2>4, <2>5, <2>6, <2>7 DEF ReaderNext
<1>2. CASE MainTakes
  <2>1. /\ queue' = <<>> /\ Len(queue') = 0
        /\ UNCHANGED <<reader, unsynced, starts, dropped, reported>>
    BY <1>2 DEF MainTakes, losses, callerVars
  <2>2. UNCHANGED <<FinishedReaders, ReaderIsAlive>>
    BY <2>1 DEF FinishedReaders, ReaderIsAlive
  <2>3. FinishedReaders * MaxMissed \in Nat
    BY FinishedType, OneMore
  <2>4. Len(queue') <= MaxQueue + FinishedReaders' * MaxMissed
    <3> DEFINE queues == FinishedReaders * MaxMissed
    <3>1. FinishedReaders' * MaxMissed = queues /\ queues \in Nat
      BY <2>2, <2>3
    <3> HIDE DEF queues
    <3> QED BY <2>1, <3>1
  <2>5. ~(Len(queue') > MaxQueue)
    BY <2>1
  <2> QED BY <2>1, <2>2, <2>4, <2>5 DEF ReaderIsBounded
<1>3. CASE (MainNext /\ ~MainTakes) \/ MainFails
  <2>1. /\ UNCHANGED <<reader, unsynced, queue, starts, dropped>>
        /\ reported => reported'
    BY <1>3 DEF MainNext, MainStarts, MainEnds, MainCopies, MainAnalyses,
       MainFails, readerVars, callerVars, losses
  <2>2. UNCHANGED <<FinishedReaders, ReaderIsAlive>>
    BY <2>1 DEF FinishedReaders, ReaderIsAlive
  <2> QED BY <2>1, <2>2 DEF ReaderIsBounded
<1>4. ASSUME NEW c \in Callers, CallerSteps(c) PROVE ReaderIsBounded'
  <2>1. CASE StartReading(c) /\ reader = "none"
    <3>1. /\ reader' = "started" /\ starts' = starts + 1
          /\ UNCHANGED <<unsynced, queue, dropped, reported>>
      BY <2>1 DEF StartReading, readerVars, losses
    <3>2. ReaderIsAlive' /\ FinishedReaders' = starts /\ starts' > 0
      BY <3>1 DEF FinishedReaders, ReaderIsAlive, TypeOK
    <3>3. FinishedReaders = starts
      BY <2>1 DEF FinishedReaders, ReaderIsAlive
    <3> QED BY <2>1, <3>1, <3>2, <3>3 DEF ReaderIsBounded
  <2>2. CASE JoinReader(c)
    <3>1. /\ reader = "ended" /\ reader' = "none"
          /\ UNCHANGED <<unsynced, queue, starts, dropped, reported>>
      BY <2>2 DEF JoinReader, readerVars, losses
    <3>2. UNCHANGED <<FinishedReaders, ReaderIsAlive>>
      BY <3>1 DEF FinishedReaders, ReaderIsAlive
    <3> QED BY <3>1, <3>2 DEF ReaderIsBounded
  <2>3. CASE ~JoinReader(c) /\ ~(StartReading(c) /\ reader = "none")
    <3>1. UNCHANGED <<reader, unsynced, queue, starts, dropped, reported>>
      BY <1>4, <2>3 DEF CallerSteps, CallerNext, StartAudioInput,
         StopAudioInput, SetAudioDevice, RefuseStart, StartMain, StartReading,
         StopReading, StopMain, JoinMain, GetParameters, SetParameters,
         readerVars, losses
    <3>2. UNCHANGED <<FinishedReaders, ReaderIsAlive>>
      BY <3>1 DEF FinishedReaders, ReaderIsAlive
    <3> QED BY <3>1, <3>2 DEF ReaderIsBounded
  <2> QED BY <2>1, <2>2, <2>3
<1>5. CASE UNCHANGED vars
  <2>1. UNCHANGED <<reader, unsynced, queue, starts, dropped, reported>>
    BY <1>5 DEF vars, readerVars, callerVars, losses
  <2>2. UNCHANGED <<FinishedReaders, ReaderIsAlive>>
    BY <2>1 DEF FinishedReaders, ReaderIsAlive
  <2> QED BY <2>1, <2>2 DEF ReaderIsBounded
<1> QED BY <1>1, <1>2, <1>3, <1>4, <1>5 DEF Next, CallerSteps

-----------------------------------------------------------------------------
(* The blocks and their order.                                             *)

\* EachBlockOnce for a stream s, n blocks captured, and the sets of blocks
\* analysed, lost and dropped.
Accounted(s, n, a, l, d) ==
  /\ Ordered(s)
  /\ \A x \in a, y \in Blocks(s) : x < y
  /\ a \cup l \cup d \cup Blocks(s) = 1 .. n
  /\ a \cap (l \cup d) = {} /\ l \cap d = {}
  /\ Blocks(s) \cap (l \cup d) = {}

AllTracked(s) == \A i \in DOMAIN s : s[i] # Untracked

\* One more block was captured.
LEMMA StreamGrows ==
  ASSUME NEW s \in Seq(0 .. MaxBlocks), NEW n \in 0 .. MaxBlocks,
         NEW a \in SUBSET (1 .. MaxBlocks), NEW l \in SUBSET (1 .. MaxBlocks),
         NEW d \in SUBSET (1 .. MaxBlocks),
         Accounted(s, n, a, l, d), n < MaxBlocks => AllTracked(s)
  PROVE  /\ n < MaxBlocks =>
              /\ Accounted(Append(s, n + 1), n + 1, a, l, d)
              /\ AllTracked(Append(s, n + 1))
         /\ ~(n < MaxBlocks) => Accounted(Append(s, Untracked), n, a, l, d)
<1>1. Blocks(s) \subseteq 1 .. n /\ a \subseteq 1 .. n /\ l \cup d \subseteq 1 .. n
  BY DEF Accounted
<1>2. ASSUME n < MaxBlocks
      PROVE  /\ Accounted(Append(s, n + 1), n + 1, a, l, d)
             /\ AllTracked(Append(s, n + 1))
  <2>1. n + 1 \in 0 .. MaxBlocks /\ n + 1 # Untracked
    BY <1>2 DEF Untracked
  <2>2. \A i \in DOMAIN s : s[i] # Untracked /\ s[i] < n + 1
    <3> TAKE i \in DOMAIN s
    <3>1. s[i] # Untracked
      BY <1>2 DEF AllTracked
    <3>2. s[i] \in 1 .. n
      BY <1>1, <3>1 DEF Blocks
    <3> QED BY <3>1, <3>2
  <2>3. Ordered(Append(s, n + 1))
    BY <2>1, <2>2, OrderedAppend DEF Accounted
  <2>4. Blocks(Append(s, n + 1)) = Blocks(s) \cup {n + 1}
    BY <2>1, BlocksOfAppend
  <2>5. \A x \in a, y \in Blocks(s) \cup {n + 1} : x < y
    BY <1>1 DEF Accounted
  <2>6. a \cup l \cup d \cup (Blocks(s) \cup {n + 1}) = 1 .. n + 1
    <3>1. 1 .. n + 1 = (1 .. n) \cup {n + 1}
      OBVIOUS
    <3> QED BY <3>1 DEF Accounted
  <2>7. (Blocks(s) \cup {n + 1}) \cap (l \cup d) = {}
    <3>1. n + 1 \notin 1 .. n
      OBVIOUS
    <3> QED BY <1>1, <3>1 DEF Accounted
  <2>8. AllTracked(Append(s, n + 1))
    BY <2>1, <2>2 DEF AllTracked
  <2> QED BY <2>3, <2>4, <2>5, <2>6, <2>7, <2>8 DEF Accounted
<1>3. ASSUME ~(n < MaxBlocks) PROVE Accounted(Append(s, Untracked), n, a, l, d)
  <2>1. Untracked \in 0 .. MaxBlocks
    BY DEF Untracked
  <2>2. Ordered(Append(s, Untracked))
    BY <2>1, OrderedAppend DEF Accounted
  <2>3. Blocks(Append(s, Untracked)) = Blocks(s)
    BY <2>1, BlocksOfAppend
  <2> QED BY <2>2, <2>3 DEF Accounted
<1> QED BY <1>2, <1>3

\* The two parts of a stream share no block.
LEMMA PartsAreDisjoint ==
  ASSUME NEW s \in Seq(0 .. MaxBlocks), NEW t \in Seq(0 .. MaxBlocks),
         Ordered(s \o t)
  PROVE  Blocks(s) \cap Blocks(t) = {}
<1> SUFFICES ASSUME NEW b \in Blocks(s) \cap Blocks(t) PROVE FALSE
  OBVIOUS
<1>1. b < b
  BY OrderedParts
<1>2. b \in 1 .. MaxBlocks
  BY BlocksType
<1> QED BY <1>1, <1>2

\* The first part of the stream was analysed or lost, or the last part was
\* lost or dropped.
LEMMA StreamShrinks ==
  ASSUME NEW s \in Seq(0 .. MaxBlocks), NEW t \in Seq(0 .. MaxBlocks),
         NEW n \in 0 .. MaxBlocks,
         NEW a \in SUBSET (1 .. MaxBlocks), NEW l \in SUBSET (1 .. MaxBlocks),
         NEW d \in SUBSET (1 .. MaxBlocks),
         Accounted(s \o t, n, a, l, d)
  PROVE  /\ Accounted(t, n, a \cup Blocks(s), l, d)
         /\ Accounted(t, n, a, l \cup Blocks(s), d)
         /\ Accounted(s, n, a, l \cup Blocks(t), d)
         /\ Accounted(s, n, a, l, d \cup Blocks(t))
<1>1. Blocks(s \o t) = Blocks(s) \cup Blocks(t)
  BY BlocksOfConcat
<1>2. Ordered(s) /\ Ordered(t) /\ \A x \in Blocks(s), y \in Blocks(t) : x < y
  BY OrderedParts DEF Accounted
<1>3. Blocks(s) \cap Blocks(t) = {}
  BY PartsAreDisjoint DEF Accounted
<1>4. /\ \A x \in a, y \in Blocks(s) \cup Blocks(t) : x < y
      /\ a \cup l \cup d \cup (Blocks(s) \cup Blocks(t)) = 1 .. n
      /\ a \cap (l \cup d) = {} /\ l \cap d = {}
      /\ (Blocks(s) \cup Blocks(t)) \cap (l \cup d) = {}
  BY <1>1 DEF Accounted
<1>5. a \cap (Blocks(s) \cup Blocks(t)) = {}
  <2> SUFFICES ASSUME NEW x \in a \cap (Blocks(s) \cup Blocks(t)) PROVE FALSE
    OBVIOUS
  <2>1. x < x /\ x \in 1 .. MaxBlocks
    BY <1>4
  <2> QED BY <2>1
<1>6. /\ (a \cup Blocks(s)) \cup l \cup d \cup Blocks(t) = 1 .. n
      /\ a \cup (l \cup Blocks(s)) \cup d \cup Blocks(t) = 1 .. n
      /\ a \cup (l \cup Blocks(t)) \cup d \cup Blocks(s) = 1 .. n
      /\ a \cup l \cup (d \cup Blocks(t)) \cup Blocks(s) = 1 .. n
  BY <1>4
<1> DEFINE bs == Blocks(s)
           bt == Blocks(t)
<1> HIDE DEF bs, bt
<1>7. /\ Ordered(s) /\ Ordered(t)
      /\ \A x \in bs, y \in bt : x < y
      /\ \A x \in a, y \in bs \cup bt : x < y
      /\ bs \cap bt = {} /\ a \cap (bs \cup bt) = {}
      /\ a \cap (l \cup d) = {} /\ l \cap d = {}
      /\ (bs \cup bt) \cap (l \cup d) = {}
  BY <1>2, <1>3, <1>4, <1>5 DEF bs, bt
<1>8. Accounted(t, n, a \cup bs, l, d)
  BY <1>6, <1>7 DEF Accounted, bs, bt
<1>9. Accounted(t, n, a, l \cup bs, d)
  BY <1>6, <1>7 DEF Accounted, bs, bt
<1>10. Accounted(s, n, a, l \cup bt, d)
  BY <1>6, <1>7 DEF Accounted, bs, bt
<1>11. Accounted(s, n, a, l, d \cup bt)
  BY <1>6, <1>7 DEF Accounted, bs, bt
<1> QED BY <1>8, <1>9, <1>10, <1>11 DEF bs, bt

LEMMA TrackedParts ==
  ASSUME NEW s \in Seq(0 .. MaxBlocks), NEW t \in Seq(0 .. MaxBlocks),
         AllTracked(s \o t)
  PROVE  AllTracked(s) /\ AllTracked(t)
<1> DEFINE st == s \o t
<1>1. \A i \in DOMAIN s : i \in DOMAIN st /\ st[i] = s[i]
  OBVIOUS
<1>2. \A i \in DOMAIN t : i + Len(s) \in DOMAIN st /\ st[i + Len(s)] = t[i]
  OBVIOUS
<1> QED BY <1>1, <1>2 DEF AllTracked

\* Three parts of the stream, regrouped.
LEMMA Regroup ==
  ASSUME NEW s \in Seq(0 .. MaxBlocks), NEW t \in Seq(0 .. MaxBlocks),
         NEW u \in Seq(0 .. MaxBlocks)
  PROVE  (s \o t) \o u = s \o (t \o u)
<1> DEFINE l == (s \o t) \o u
           r == s \o (t \o u)
<1>1. l \in Seq(0 .. MaxBlocks) /\ r \in Seq(0 .. MaxBlocks)
  BY ConcatProperties
<1>2. Len(l) = Len(s) + Len(t) + Len(u) /\ Len(r) = Len(s) + Len(t) + Len(u)
  OBVIOUS
<1>3. \A i \in 1 .. Len(l) : l[i] = r[i]
  OBVIOUS
<1> HIDE DEF l, r
<1>4. l = r
  BY <1>1, <1>2, <1>3, SeqEqual
<1> QED BY <1>4 DEF l, r

\* What has to be shown of the next state, for its stream s.
LEMMA StreamNext ==
  ASSUME NEW s, s = taken' \o queue' \o unsynced',
         Accounted(s, captured', analysed', lost', dropped'),
         captured' < MaxBlocks => AllTracked(s),
         main' # "processing" => taken' = <<>>
  PROVE  TakenIsProcessed' /\ EachBlockOnce'
BY DEF Accounted, AllTracked, TakenIsProcessed, EachBlockOnce, Stream

\* What is known of this state.
LEMMA StreamNow ==
  ASSUME TypeOK, TakenIsProcessed, EachBlockOnce
  PROVE  /\ taken \o queue \in Seq(0 .. MaxBlocks)
         /\ queue \o unsynced \in Seq(0 .. MaxBlocks)
         /\ Stream \in Seq(0 .. MaxBlocks)
         /\ Stream = (taken \o queue) \o unsynced
         /\ Stream = taken \o (queue \o unsynced)
         /\ Accounted(Stream, captured, analysed, lost, dropped)
         /\ captured < MaxBlocks => AllTracked(Stream)
         /\ main # "processing" => taken = <<>>
<1>1. /\ taken \in Seq(0 .. MaxBlocks) /\ queue \in Seq(0 .. MaxBlocks)
      /\ unsynced \in Seq(0 .. MaxBlocks)
  BY DEF TypeOK
<1>2. Stream = (taken \o queue) \o unsynced
  BY DEF Stream
<1>3. /\ taken \o queue \in Seq(0 .. MaxBlocks)
      /\ queue \o unsynced \in Seq(0 .. MaxBlocks)
  BY <1>1, ConcatProperties
<1>4. Stream \in Seq(0 .. MaxBlocks)
  BY <1>1, <1>2, <1>3, ConcatProperties
<1>5. Stream = taken \o (queue \o unsynced)
  BY <1>1, <1>2, Regroup
<1>6. Accounted(Stream, captured, analysed, lost, dropped)
  BY DEF EachBlockOnce, Accounted
<1>7. /\ captured < MaxBlocks => AllTracked(Stream)
      /\ main # "processing" => taken = <<>>
  BY DEF TakenIsProcessed, AllTracked
<1> QED BY <1>2, <1>3, <1>4, <1>5, <1>6, <1>7

\* The stream stays, and so do the other blocks.
LEMMA StreamSame ==
  ASSUME TypeOK, TakenIsProcessed, EachBlockOnce,
         taken' \o queue' \o unsynced' = Stream,
         UNCHANGED <<captured, analysed, lost, dropped>>,
         main' # "processing" => taken' = <<>>
  PROVE  TakenIsProcessed' /\ EachBlockOnce'
BY StreamNow, StreamNext

\* The reader captures a block, whether it passes it on or keeps it.
LEMMA StreamCaptures ==
  ASSUME TypeOK, TakenIsProcessed, EachBlockOnce, Capture,
         taken' \o queue' \o unsynced' = (taken \o queue) \o Captured,
         UNCHANGED <<main, taken, analysed, lost, dropped>>
  PROVE  TakenIsProcessed' /\ EachBlockOnce'
<1> DEFINE x == IF captured < MaxBlocks THEN captured + 1 ELSE Untracked
           s == Append(Stream, x)
<1>1. captured \in 0 .. MaxBlocks /\ x \in 0 .. MaxBlocks
  BY DEF TypeOK, Untracked
<1>2. unsynced \in Seq(0 .. MaxBlocks) /\ Captured = Append(unsynced, x)
  BY DEF TypeOK, Captured
<1>3. s = taken' \o queue' \o unsynced'
  <2> HIDE DEF x
  <2>1. <<x>> \in Seq(0 .. MaxBlocks)
    BY <1>1
  <2>2. s = ((taken \o queue) \o unsynced) \o <<x>>
    BY <1>1, StreamNow, AppendIsConcat
  <2>3. Captured = unsynced \o <<x>>
    BY <1>1, <1>2, AppendIsConcat
  <2>4. ((taken \o queue) \o unsynced) \o <<x>> = (taken \o queue) \o (unsynced \o <<x>>)
    <3>1. taken \o queue \in Seq(0 .. MaxBlocks)
      BY StreamNow
    <3> QED BY <1>2, <2>1, <3>1, Regroup
  <2> QED BY <2>2, <2>3, <2>4
<1>4. /\ Accounted(s, captured', analysed, lost, dropped)
      /\ captured' < MaxBlocks => AllTracked(s)
  <2>1. /\ captured < MaxBlocks =>
             /\ Accounted(Append(Stream, captured + 1), captured + 1, analysed, lost, dropped)
             /\ AllTracked(Append(Stream, captured + 1))
        /\ ~(captured < MaxBlocks) =>
             Accounted(Append(Stream, Untracked), captured, analysed, lost, dropped)
    BY <1>1, StreamNow, StreamGrows DEF TypeOK
  <2>2. CASE captured < MaxBlocks
    <3>1. captured' = captured + 1 /\ x = captured + 1
      BY <2>2 DEF Capture
    <3> QED BY <2>1, <2>2, <3>1
  <2>3. CASE ~(captured < MaxBlocks)
    <3>1. captured' = captured /\ x = Untracked
      BY <2>3 DEF Capture
    <3> QED BY <2>1, <2>3, <3>1
  <2> QED BY <2>2, <2>3
<1>5. main' # "processing" => taken' = <<>>
  BY StreamNow
<1> HIDE DEF s
<1> QED BY <1>3, <1>4, <1>5, StreamNext

\* The main thread has analysed or lost what it had taken.
LEMMA StreamTaken ==
  ASSUME TypeOK, TakenIsProcessed, EachBlockOnce,
         taken' = <<>>, UNCHANGED <<queue, unsynced, captured, dropped>>,
         \/ analysed' = analysed \cup Blocks(taken) /\ lost' = lost
         \/ lost' = lost \cup Blocks(taken) /\ analysed' = analysed
  PROVE  TakenIsProcessed' /\ EachBlockOnce'
<1> DEFINE s == queue \o unsynced
<1>1. taken \in Seq(0 .. MaxBlocks) /\ queue \in Seq(0 .. MaxBlocks)
  BY DEF TypeOK
<1>2. s = taken' \o queue' \o unsynced'
  BY <1>1, ConcatEmptySeq
<1>3. /\ Accounted(s, captured, analysed \cup Blocks(taken), lost, dropped)
      /\ Accounted(s, captured, analysed, lost \cup Blocks(taken), dropped)
  BY <1>1, StreamNow, StreamShrinks DEF TypeOK
<1>4. captured' < MaxBlocks => AllTracked(s)
  BY <1>1, StreamNow, TrackedParts
<1> HIDE DEF s
<1>5. Accounted(s, captured', analysed', lost', dropped')
  BY <1>3
<1> QED BY <1>2, <1>4, <1>5, StreamNext

\* The reader ends with the blocks it has not passed on.
LEMMA StreamKept ==
  ASSUME TypeOK, TakenIsProcessed, EachBlockOnce,
         unsynced' = <<>>, UNCHANGED <<main, taken, queue, captured, analysed>>,
         \/ dropped' = dropped \cup Blocks(unsynced) /\ lost' = lost
         \/ lost' = lost \cup Blocks(unsynced) /\ dropped' = dropped
  PROVE  TakenIsProcessed' /\ EachBlockOnce'
<1> DEFINE s == taken \o queue
<1>1. unsynced \in Seq(0 .. MaxBlocks) /\ s \in Seq(0 .. MaxBlocks)
  BY StreamNow DEF TypeOK
<1>2. s = taken' \o queue' \o unsynced'
  BY <1>1, ConcatEmptySeq
<1>3. /\ Accounted(s, captured, analysed, lost \cup Blocks(unsynced), dropped)
      /\ Accounted(s, captured, analysed, lost, dropped \cup Blocks(unsynced))
  BY <1>1, StreamNow, StreamShrinks DEF TypeOK
<1>4. captured' < MaxBlocks => AllTracked(s)
  BY <1>1, StreamNow, TrackedParts
<1>5. main' # "processing" => taken' = <<>>
  BY StreamNow
<1> HIDE DEF s
<1>6. Accounted(s, captured', analysed', lost', dropped')
  BY <1>3
<1> QED BY <1>2, <1>4, <1>5, <1>6, StreamNext

LEMMA StreamStep ==
  ASSUME TypeOK, TakenIsProcessed, EachBlockOnce, [Next]_vars
  PROVE  TakenIsProcessed' /\ EachBlockOnce'
<1>0. /\ taken \in Seq(0 .. MaxBlocks) /\ queue \in Seq(0 .. MaxBlocks)
      /\ unsynced \in Seq(0 .. MaxBlocks)
  BY DEF TypeOK
<1>1. CASE Synchronize
  <2>1. /\ Capture /\ taken' = taken
        /\ queue' = queue \o Captured /\ unsynced' = <<>>
        /\ UNCHANGED <<main, analysed, lost, dropped>>
    BY <1>1 DEF Synchronize, UpdateSignalQueue, mainVars
  <2>2. Captured \in Seq(0 .. MaxBlocks)
    BY DEF TypeOK, Captured, Untracked
  <2>3. taken \o (queue \o Captured) = (taken \o queue) \o Captured
    <3> DEFINE t == taken
               q == queue
               x == Captured
    <3>1. /\ t \in Seq(0 .. MaxBlocks) /\ q \in Seq(0 .. MaxBlocks)
          /\ x \in Seq(0 .. MaxBlocks)
      BY <1>0, <2>2
    <3> HIDE DEF t, q, x
    <3>2. (t \o q) \o x = t \o (q \o x)
      BY <3>1, Regroup
    <3> QED BY <3>2 DEF t, q, x
  <2>4. ((taken \o queue) \o Captured) \o <<>> = (taken \o queue) \o Captured
    BY <2>2, StreamNow, ConcatProperties, ConcatEmptySeq
  <2> QED BY <2>1, <2>3, <2>4, StreamCaptures
<1>2. CASE MissSynchronization
  BY <1>2, StreamCaptures DEF MissSynchronization, mainVars, losses
<1>3. CASE ForceSynchronization
  <2>1. /\ queue' = queue \o unsynced /\ unsynced' = <<>>
        /\ UNCHANGED <<main, taken, captured, analysed, lost, dropped>>
    BY <1>3 DEF ForceSynchronization, UpdateSignalQueue, mainVars
  <2>2. taken' \o queue' \o unsynced' = Stream
    BY <2>1, StreamNow, ConcatEmptySeq
  <2> QED BY <2>1, <2>2, StreamNow, StreamSame
<1>4. CASE ReaderTerminates \/ DeviceFails
  BY <1>4, StreamKept DEF ReaderTerminates, DeviceFails, mainVars
<1>5. CASE MainTakes
  <2>1. /\ main = "copying" /\ main' = "processing" /\ taken' = queue /\ queue' = <<>>
        /\ UNCHANGED <<unsynced, captured, analysed, lost, dropped>>
    BY <1>5 DEF MainTakes, losses
  <2>2. taken' \o queue' \o unsynced' = Stream
    <3>1. taken = <<>>
      BY <2>1, StreamNow
    <3> QED BY <1>0, <2>1, <3>1, ConcatEmptySeq DEF Stream
  <2> QED BY <2>1, <2>2, StreamSame
<1>6. CASE MainAnalyses \/ MainFails
  BY <1>6, StreamTaken DEF MainAnalyses, MainFails, readerVars, losses
<1>7. CASE ReaderStarts \/ ReaderReads \/ MainStarts \/ MainEnds \/ MainCopies
  <2>1. /\ UNCHANGED <<taken, queue, unsynced, captured, analysed, lost, dropped>>
        /\ main' # "processing" => taken' = <<>>
    BY <1>7, StreamNow DEF ReaderStarts, ReaderReads, MainStarts, MainEnds,
       MainCopies, readerVars, mainVars, losses
  <2> QED BY <2>1, StreamSame DEF Stream
<1>8. ASSUME NEW c \in Callers, CallerSteps(c)
      PROVE  TakenIsProcessed' /\ EachBlockOnce'
  <2>1. /\ UNCHANGED <<taken, queue, unsynced, captured, analysed, lost, dropped>>
        /\ \/ main' = main
           \/ main' \in {"started", "none"} /\ main \in {"none", "ended"}
    BY <1>8 DEF CallerSteps, CallerNext, StartAudioInput, StopAudioInput,
       SetAudioDevice, RefuseStart, StartMain, StartReading, StopReading,
       JoinReader, StopMain, JoinMain, GetParameters, SetParameters,
       readerVars, mainVars, losses
  <2>2. main' # "processing" => taken' = <<>>
    BY <2>1, StreamNow
  <2> QED BY <2>1, <2>2, StreamSame DEF Stream
<1>9. CASE UNCHANGED vars
  <2>1. UNCHANGED <<main, taken, queue, unsynced, captured, analysed, lost, dropped>>
    BY <1>9 DEF vars, readerVars, mainVars, losses
  <2> QED BY <2>1, StreamNow, StreamSame DEF Stream
<1> QED BY <1>1, <1>2, <1>3, <1>4, <1>5, <1>6, <1>7, <1>8, <1>9
        DEF Next, ReaderNext, MainNext, CallerSteps

-----------------------------------------------------------------------------
(* The theorems.                                                           *)

LEMMA InitInvariant == Init => IInv
<1> SUFFICES ASSUME Init PROVE IInv
  OBVIOUS
<1>1. TypeOK /\ LocksAreExclusive /\ CleanStops /\ StopStops
  <2>1. TypeOK
    <3>1. unsynced \in Seq(0 .. MaxBlocks) /\ queue \in Seq(0 .. MaxBlocks)
          /\ taken \in Seq(0 .. MaxBlocks)
      BY DEF Init
    <3>2. captured \in 0 .. MaxBlocks
      BY DEF Init
    <3>3. caller \in [Callers -> CallerStates]
      BY DEF Init, CallerStates
    <3> QED BY <3>1, <3>2, <3>3 DEF Init, TypeOK
  <2>2. LocksAreExclusive
    BY DEF Init, LocksAreExclusive, MainMutex, ThreadMutex
  <2>3. CleanStops /\ StopStops
    BY DEF Init, CleanStops, StopStops
  <2> QED BY <2>1, <2>2, <2>3
<1>2. ReaderIsBounded
  <2>1. /\ ~ReaderIsAlive /\ FinishedReaders = 0 /\ reader = "none"
        /\ unsynced = <<>> /\ queue = <<>>
    BY DEF Init, ReaderIsAlive, FinishedReaders
  <2>2. Cardinality(dropped) = 0
    BY FS_EmptySet DEF Init
  <2>3. Len(unsynced) = 0 /\ Len(queue) = 0
    BY <2>1
  <2>4. FinishedReaders * MaxMissed = 0 /\ FinishedReaders * (MaxMissed - 1) = 0
    BY <2>1
  <2> QED BY <2>1, <2>2, <2>3, <2>4 DEF ReaderIsBounded
<1>3. TakenIsProcessed /\ EachBlockOnce
  <2>1. Stream = <<>>
    BY DEF Init, Stream
  <2>2. Blocks(Stream) = {} /\ DOMAIN Stream = {}
    BY <2>1 DEF Blocks
  <2>3. captured = 0 /\ taken = <<>> /\ analysed = {} /\ lost = {} /\ dropped = {}
    BY DEF Init
  <2> QED BY <2>2, <2>3 DEF TakenIsProcessed, EachBlockOnce, Ordered
<1> QED BY <1>1, <1>2, <1>3 DEF IInv

\* Every conjunct of the invariant holds always.  Each block is in one place
\* because a reader has no block kept back unless it runs, and the main thread
\* none unless it processes it, so a thread that is started again begins with
\* nothing; the bounds count the readers that have ended.
THEOREM Invariant == Spec => []IInv
<1>1. IInv /\ [Next]_vars => IInv'
  BY TypeStep, LocksStep, StopsStep, BoundedStep, StreamStep DEF IInv
<1> QED BY <1>1, InitInvariant, PTL DEF Spec

\* No block captured is lost or analysed twice between the two threads, and
\* none overtakes another.
THEOREM BlocksOnce == Spec => []EachBlockOnce
<1>1. IInv => EachBlockOnce
  BY DEF IInv
<1> QED BY <1>1, Invariant, PTL

\* StopAudioInput returns with both threads ended, for any number of callers.
THEOREM Stops == Spec => []StopStops
<1>1. IInv => StopStops
  BY DEF IInv
<1> QED BY <1>1, Invariant, PTL

\* The queue and the blocks lost when the reader is stopped are limited by the
\* number of times it was started.
THEOREM Limits == Spec => [](QueueIsBounded /\ StopsLoseLittle)
<1>1. IInv => QueueIsBounded /\ StopsLoseLittle
  <2> SUFFICES ASSUME IInv PROVE QueueIsBounded /\ StopsLoseLittle
    OBVIOUS
  <2> DEFINE F == FinishedReaders
  <2>1. /\ Len(queue) <= MaxQueue + F * MaxMissed
        /\ Cardinality(dropped) <= F * (MaxMissed - 1)
        /\ Len(queue) > MaxQueue => reported
    BY DEF IInv, ReaderIsBounded
  <2>2. F \in Nat /\ starts \in Nat /\ (starts = F \/ starts = F + 1)
    BY FinishedType DEF IInv, TypeOK, FinishedReaders
  <2>3. Len(queue) \in Nat /\ Cardinality(dropped) \in Nat
    <3>1. dropped \in SUBSET (1 .. MaxBlocks) /\ queue \in Seq(0 .. MaxBlocks)
      BY DEF IInv, TypeOK
    <3>2. Cardinality(dropped) \in Nat
      BY <3>1, DroppedGrows
    <3>3. Len(queue) \in Nat
      BY <3>1
    <3> QED BY <3>2, <3>3
  <2>4. /\ F * MaxMissed \in Nat /\ (F + 1) * MaxMissed = F * MaxMissed + MaxMissed
        /\ F * (MaxMissed - 1) \in Nat
        /\ (F + 1) * (MaxMissed - 1) = F * (MaxMissed - 1) + (MaxMissed - 1)
    <3>1. MaxMissed \in Nat /\ MaxMissed - 1 \in Nat
      OBVIOUS
    <3> HIDE DEF F
    <3> QED BY <2>2, <3>1, OneMore
  <2>5. F * MaxMissed <= starts * MaxMissed /\ starts * MaxMissed \in Nat
    <3> HIDE DEF F
    <3> QED BY <2>2, <2>4
  <2>6. /\ F * (MaxMissed - 1) <= starts * (MaxMissed - 1)
        /\ starts * (MaxMissed - 1) \in Nat
    <3> HIDE DEF F
    <3> QED BY <2>2, <2>4
  <2> DEFINE A == F * MaxMissed
             B == F * (MaxMissed - 1)
             C == starts * MaxMissed
             D == starts * (MaxMissed - 1)
  <2>7. /\ A \in Nat /\ B \in Nat /\ C \in Nat /\ D \in Nat /\ A <= C /\ B <= D
        /\ Len(queue) <= MaxQueue + A /\ Cardinality(dropped) <= B
    BY <2>1, <2>4, <2>5, <2>6
  <2> HIDE DEF A, B, C, D
  <2>8. Len(queue) <= MaxQueue + C /\ Cardinality(dropped) <= D
    BY <2>3, <2>7
  <2> QED BY <2>1, <2>8 DEF QueueIsBounded, StopsLoseLittle, C, D
<1> QED BY <1>1, Invariant, PTL

\* The blocks dropped when the reader is stopped are those of at most
\* MaxMissed - 1 missed attempts per start of the reader.
THEOREM Losses == Spec => []StopsLoseLittle
<1> QED BY Limits, PTL
=============================================================================
