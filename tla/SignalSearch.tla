------------------------------ MODULE SignalSearch ------------------------------
(***************************************************************************)
(* How tones and sequences of tones are found in the spectra of a signal   *)
(* (src/Core/Search.h, ToneSearch.h, FMESequenceSearch.h).  Two threads    *)
(* work on streams: the tone search cuts the spectra into steps and finds  *)
(* the tones of each, the sequence search looks at CodeLength neighbouring *)
(* tones at a time.  The analysis thread carries the data between them.    *)
(*                                                                         *)
(* Time is counted in fine spectra.  There is at most one peak in a        *)
(* spectrum (params.dat); a coarse spectrum covers CoarseStep fine ones    *)
(* and shows the tone in the middle of them.  After Length spectra there   *)
(* is silence, which is not counted, but still arrives.                    *)
(***************************************************************************)
EXTENDS Integers, Sequences, FiniteSets

CONSTANTS
  Signals,         \* what may be heard: functions from 0 .. Length - 1
  Silence,         \* a sample with no tone
  Length,          \* number of fine spectra
  CoarseLength,    \* number of coarse spectra
  CoarseStep,      \* fine spectra in one coarse spectrum
  FineBatches, CoarseBatches, \* how many spectra may be ready at once
  EvalToneLength, NumNeighbours, \* of CToneSearch
  CodeLength, ExcessTime, DeltaTMaxTwice, MinLength, MaxLength,
  MaxToneLevelRatio \* of CFMESequenceSearch

ASSUME SearchAssumption ==
  /\ {Length, CoarseLength, CoarseStep, CodeLength} \subseteq Nat \ {0}
  /\ {EvalToneLength, NumNeighbours, ExcessTime, DeltaTMaxTwice, MinLength,
      MaxLength, MaxToneLevelRatio} \subseteq Nat
  /\ FineBatches \subseteq Nat /\ CoarseBatches \subseteq Nat
  /\ Silence \in [tone : Nat, level : Nat]
  /\ Signals \subseteq [0 .. Length - 1 -> [tone : Nat, level : Nat]]

\* The streams are never reordered, so the containers that hold a part of one
\* are the numbers of its elements between two of these counts.
VARIABLES
  signal,      \* what is heard
  fine,        \* timeCalc, peaks: put, read by the thread, erased by it
  coarse,      \* timeCalcCoarse, peaksCoarse: the same
  toneThread,  \* "reading", "searching", "waiting"
  isEnoughData,
  oldTones,    \* tones that may go on in the next step, a set
  tones,       \* all tones that were moved to the result
  given,       \* how many of them PutTonesStream was given
  read, erased,\* how many the sequence search has read and erased
  codeThread,  \* "reading", "searching", "waiting"
  last,        \* lastCode and startTimeLast, in a set
  foundCodes   \* all codes that were moved to the result

toneVars == <<fine, coarse, toneThread, isEnoughData, oldTones, tones>>
codeVars == <<read, erased, codeThread, last, foundCodes>>
vars == <<signal, given, toneVars, codeVars>>

AtMost(a, b) == IF a < b THEN a ELSE b
AtLeast(a, b) == IF a > b THEN a ELSE b
Largest(S) == CHOOSE a \in S : \A b \in S : b <= a
Smallest(S) == CHOOSE a \in S : \A b \in S : a <= b

\* Containers of tones are sorted by the starts of the tones, which differ.
Elements(seq) == {seq[i] : i \in DOMAIN seq}
Sorted(S) ==
  [i \in 1 .. Cardinality(S) |->
     CHOOSE x \in S : Cardinality({y \in S : y.start < x.start}) = i - 1]

----------------------------------------------------------------------------
(* Tones of one step *)

\* When coarse spectrum j was taken, and what it shows.
CoarseTime(j) == CoarseStep * j + CoarseStep \div 2
CoarsePeak(j) == IF CoarseTime(j) < Length THEN signal[CoarseTime(j)] ELSE Silence

\* SearchForTonesTwoStreams: the coarse spectra among js that show the tone of
\* fine spectrum t of a step, near it.  The time of a coarse spectrum counts
\* for the first fine one that is not before it, or for the last of the step.
Witnesses(t, step, js) ==
  {j \in js : LET later == {u \in step : u >= CoarseTime(j)}
                  at == IF later # {} THEN Smallest(later) ELSE Largest(step)
              IN /\ signal[t].tone = CoarsePeak(j).tone
                 /\ t \in at - NumNeighbours .. at + NumNeighbours
                 /\ CoarseTime(j) - NumNeighbours <= t
                 /\ t < CoarseTime(j) + NumNeighbours}

\* Those of the moments in heard that start or end a tone: the neighbour has
\* none or another one.
Starts(heard) ==
  {s \in heard : s - 1 \in heard => signal[s - 1].tone # signal[s].tone}
Ends(heard) ==
  {e \in heard : e + 1 \in heard => signal[e + 1].tone # signal[e].tone}
EndOf(s, heard) == Smallest({e \in Ends(heard) : e >= s})

\* FindStartStopTimes: the tones in a step.
StepTones(step, js) ==
  LET heard == {t \in step : signal[t] # Silence /\ Witnesses(t, step, js) # {}}
      Level(s, e) ==
        Largest({CoarsePeak(j).level : j \in UNION {Witnesses(t, step, js) : t \in s .. e}})
      Tone(s, e) ==
        [tone |-> signal[s].tone, start |-> s, end |-> e, level |-> Level(s, e)]
  IN {Tone(s, EndOf(s, heard)) : s \in Starts(heard)}

\* The output part of PerformToneSearch: a tone that is there from the
\* beginning of the step continues the old one with the same index.
Continues(old, new, step) == new.tone = old.tone /\ new.start = Smallest(step)
Joined(old, new) == [new EXCEPT !.start = old.start,
                                !.level = AtLeast(old.level, new.level)]

\* A wrong variant: a tone is always a tone of its own.
PerformToneSearchApart(step, js) == oldTones \cup StepTones(step, js)

PerformToneSearch(step, js) ==
  LET found == StepTones(step, js)
      Before(new) == {old \in oldTones : Continues(old, new, step)}
      First(olds) == CHOOSE x \in olds : \A y \in olds : x.start <= y.start
  IN {IF Before(new) = {} THEN new ELSE Joined(First(Before(new)), new) : new \in found}
       \cup {old \in oldTones : \A new \in found : ~ Continues(old, new, step)}

----------------------------------------------------------------------------
(* The thread of the tone search *)

Put(stream, n, length) == [stream EXCEPT !.put = AtMost(@ + n, length)]
Read(stream) == [stream EXCEPT !.read = stream.put]
Woken(thread) == IF thread = "waiting" THEN "reading" ELSE thread

AllPut == fine.put = Length /\ coarse.put = CoarseLength

\* CSearch::CalculateTones gives PutFrequencyStream the spectra that are
\* ready, of one stream or of both, which cover the same signal.  Only new
\* coarse ones wake the thread up.
PutFrequencyStream ==
  \E n \in FineBatches, m \in CoarseBatches :
    /\ fine' = Put(fine, n, Length)
    /\ coarse' = Put(coarse, m, CoarseLength)
    /\ AllPut \/ fine'.put > fine.put \/ coarse'.put > coarse.put
    /\ toneThread' = IF AllPut \/ m > 0 THEN Woken(toneThread) ELSE toneThread
    /\ UNCHANGED <<signal, given, isEnoughData, oldTones, tones, codeVars>>

\* More than EvalToneLength lies between the first and the last of a queue.
Suffices(first, back) == first <= back /\ back - first > EvalToneLength

ReadFrequencyStream ==
  /\ toneThread = "reading"
  /\ fine' = Read(fine) /\ coarse' = Read(coarse)
  /\ IF /\ isEnoughData
        /\ Suffices(fine.done, fine.put - 1)
        /\ coarse.done < coarse.put
        /\ Suffices(CoarseTime(coarse.done), CoarseTime(coarse.put - 1))
       THEN toneThread' = "searching" /\ UNCHANGED isEnoughData
       ELSE toneThread' = "waiting" /\ isEnoughData' = TRUE
  /\ UNCHANGED <<signal, given, oldTones, tones, codeVars>>

\* GetNextDatasets: the step ends before stepEnd.  Spectra up to
\* NumNeighbours later are needed, and as many earlier ones are kept.
StepEnd == fine.done + EvalToneLength + 1
CoarseCurrent == coarse.done .. coarse.read - 1
CoarseAhead ==
  {j \in CoarseCurrent : CoarseTime(j) >= StepEnd + NumNeighbours}
TooShort == StepEnd + NumNeighbours >= fine.read \/ CoarseAhead = {}
CoarseToProcess == coarse.done .. Smallest(CoarseAhead)

CoarseKeptFrom ==
  Largest({coarse.done} \cup
          {j \in CoarseCurrent : CoarseTime(j) <= StepEnd - NumNeighbours})

SearchTones ==
  /\ toneThread = "searching"
  /\ toneThread' = "reading"
  /\ IF TooShort
       THEN isEnoughData' = FALSE /\ UNCHANGED <<fine, coarse, oldTones, tones>>
       ELSE LET step == fine.done .. StepEnd - 1
                found == PerformToneSearch(step, CoarseToProcess)
                Unfinished(x) == x.end >= Largest(step)
            IN /\ oldTones' = {x \in found : Unfinished(x)}
               /\ tones' = tones \o Sorted({x \in found : ~ Unfinished(x)})
               /\ fine' = [fine EXCEPT !.done = StepEnd]
               /\ coarse' = [coarse EXCEPT !.done = CoarseKeptFrom]
               /\ UNCHANGED isEnoughData
  /\ UNCHANGED <<signal, given, codeVars>>

----------------------------------------------------------------------------
(* Sequences of tones *)

\* A wrong variant: the sequence search is not notified.
PutTonesSilently ==
  /\ given < Len(tones)
  /\ given' = Len(tones)
  /\ UNCHANGED <<signal, toneVars, codeVars>>

\* The analysis thread takes the new tones (GetTones) and gives them to the
\* sequence search (PerformSpecializedCalculation, PutTonesStream).
PutTonesStream ==
  /\ given < Len(tones)
  /\ given' = Len(tones)
  /\ codeThread' = Woken(codeThread)
  /\ UNCHANGED <<signal, toneVars, read, erased, last, foundCodes>>

ReadTones ==
  /\ codeThread = "reading"
  /\ read' = given
  /\ codeThread' = IF given - erased >= CodeLength THEN "searching" ELSE "waiting"
  /\ UNCHANGED <<signal, given, toneVars, erased, last, foundCodes>>

ToneLength(x) == x.end - x.start + ExcessTime
IsProper(duration) == duration > MinLength /\ duration < MaxLength

\* FindTones, for the tones of one window.
FindTones(window) ==
  Sorted({x \in Elements(window) : IsProper(ToneLength(x))})

\* The period of a tone, unless it is the last one.
Period(found, i) == AtLeast(found[i + 1].start - found[i].start, ToneLength(found[i]))

IsLoudAs(first, x) ==
  /\ first.level # 0
  /\ x.level * MaxToneLevelRatio >= first.level
  /\ x.level <= first.level * MaxToneLevelRatio

\* FindCodeSequences: no tone but the last ends the sequence.
IsSequence(found) ==
  /\ Len(found) = CodeLength
  /\ \A i \in 1 .. CodeLength - 1 : IsProper(Period(found, i))
  /\ \A i \in 2 .. CodeLength : IsLoudAs(found[1], found[i])

Code(found) == [i \in DOMAIN found |-> found[i].tone + 1]

\* The end of FindFullCodeSequences: tone 10 is the digit 0, tone 11 repeats
\* the digit before it.
Digits(code) ==
  LET digit[i \in DOMAIN code] ==
        IF code[i] = 10 THEN 0
        ELSE IF code[i] = 11 /\ i > 1 THEN digit[i - 1]
        ELSE code[i]
  IN digit

\* A wrong variant: what matters is the distance only.
IsSoon(code, start) == \E l \in last : start - l.start <= DeltaTMaxTwice

\* The code was found before and is found a second time.
IsRepetition(code, start) ==
  \E l \in last : l.code = code /\ start - l.start <= DeltaTMaxTwice

\* GetNextDatasets takes CodeLength tones and erases one.
Window == SubSeq(tones, erased + 1, erased + CodeLength)

SearchSequences ==
  /\ codeThread = "searching"
  /\ codeThread' = "reading"
  /\ erased' = erased + 1
  /\ LET found == FindTones(Window)
         code == Code(found)
         start == found[1].start
     IN IF IsSequence(found) /\ ~ IsRepetition(code, start)
          THEN /\ last' = {[code |-> code, start |-> start]}
               /\ foundCodes' = Append(foundCodes,
                                       [start |-> start, code |-> Digits(code)])
          ELSE UNCHANGED <<last, foundCodes>>
  /\ UNCHANGED <<signal, given, toneVars, read>>

----------------------------------------------------------------------------
Init ==
  /\ signal \in Signals
  /\ fine = [put |-> 0, read |-> 0, done |-> 0]
  /\ coarse = [put |-> 0, read |-> 0, done |-> 0]
  /\ toneThread = "reading" /\ isEnoughData = TRUE
  /\ oldTones = {} /\ tones = <<>>
  /\ given = 0 /\ read = 0 /\ erased = 0
  /\ codeThread = "reading" /\ last = {} /\ foundCodes = <<>>

AnalysisThread == PutFrequencyStream \/ PutTonesStream
ToneSearchThread == ReadFrequencyStream \/ SearchTones
SequenceSearchThread == ReadTones \/ SearchSequences

Next == AnalysisThread \/ ToneSearchThread \/ SequenceSearchThread

Spec == Init /\ [][Next]_vars

\* A thread that does not wait goes on.  Each of its steps, and no other,
\* takes it out of such a state, so this is the fairness of ToneSearchThread
\* and of SequenceSearchThread, said without their data.
ThreadStates == {"reading", "searching", "waiting"}
ToneThreadRuns == toneThread # "waiting" /\ toneThread' \in ThreadStates \ {toneThread}
CodeThreadRuns == codeThread # "waiting" /\ codeThread' \in ThreadStates \ {codeThread}

\* The analysis thread does both in turn for ever, and the threads run.
FairSpec ==
  /\ Spec
  /\ WF_vars(PutFrequencyStream) /\ WF_vars(PutTonesStream)
  /\ WF_toneThread(ToneThreadRuns) /\ WF_codeThread(CodeThreadRuns)

----------------------------------------------------------------------------
(* What they should find, told of the signal as a whole *)

\* The coarse spectra that confirm the tone of a moment, and the moments with
\* a tone that is confirmed.
Confirming(t) ==
  {j \in 0 .. CoarseLength - 1 :
     /\ CoarsePeak(j).tone = signal[t].tone
     /\ CoarseTime(j) - NumNeighbours <= t /\ t < CoarseTime(j) + NumNeighbours}
Heard == {t \in 0 .. Length - 1 : signal[t] # Silence /\ Confirming(t) # {}}

\* The tones of the signal before n, from the first to the last moment, with
\* the largest level of what confirms them.
Loudness(s, e) ==
  Largest({CoarsePeak(j).level : j \in UNION {Confirming(t) : t \in s .. e}})
Runs(n) ==
  LET heard == Heard \cap (0 .. n - 1)
      Tone(s, e) ==
        [tone |-> signal[s].tone, start |-> s, end |-> e, level |-> Loudness(s, e)]
  IN {Tone(s, EndOf(s, heard)) : s \in Starts(heard)}

\* However the signal is cut into steps and the spectra arrive, each tone of
\* the signal that was searched is found once, as a whole, with its level, and
\* in order; only a tone that ends with the last step waits for the next.
TonesAreRuns ==
  /\ Elements(tones) \cup oldTones = Runs(fine.done)
  /\ \A i, k \in DOMAIN tones : i < k => tones[i].start < tones[k].start
  /\ \A x \in Elements(tones) : x.end < fine.done - 1
  /\ \A x \in oldTones : x.end = fine.done - 1

\* CodeLength neighbouring tones form a sequence.
IsCall(i) ==
  /\ \A k \in i .. i + CodeLength - 1 : IsProper(ToneLength(tones[k]))
  /\ \A k \in i .. i + CodeLength - 2 : tones[k + 1].start - tones[k].start < MaxLength
  /\ \A k \in i + 1 .. i + CodeLength - 1 : IsLoudAs(tones[i], tones[k])
SameCall(i, k) == \A n \in 0 .. CodeLength - 1 : tones[i + n].tone = tones[k + n].tone
Reported(i) == \E n \in DOMAIN foundCodes : foundCodes[n].start = tones[i].start

\* Of the tones looked at, only sequences are reported, in the order of their
\* starts and each once (CAudioSignalPreserver distinguishes them by it).  A
\* sequence is left out only after the same one was reported, no longer than
\* DeltaTMaxTwice before, with no other report in between; otherwise never.
ReportsAreExact ==
  /\ \A n, m \in DOMAIN foundCodes : n < m => foundCodes[n].start < foundCodes[m].start
  /\ \A n \in DOMAIN foundCodes :
       \E i \in 1 .. erased : IsCall(i) /\ tones[i].start = foundCodes[n].start
  /\ \A i \in 1 .. erased : IsCall(i) =>
       (Reported(i) <=>
         ~ \E k \in 1 .. i - 1 :
             /\ Reported(k) /\ SameCall(i, k)
             /\ tones[i].start - tones[k].start <= DeltaTMaxTwice
             /\ \A m \in k + 1 .. i - 1 : ~ Reported(m))

\* The tone search gets to the end of the signal, up to a step that is not
\* complete, and every tone it finds is looked at, so by TonesAreRuns and
\* ReportsAreExact every sequence is found: no notification is lost for good.
EveryToneIsSearched ==
  []<>(/\ StepEnd + NumNeighbours + CoarseStep >= Length
       /\ erased = Len(tones) - CodeLength + 1 \/ Len(tones) < CodeLength)
=============================================================================
