-------------------------- MODULE SequenceProcessing --------------------------
(***************************************************************************)
(* What happens to a detected sequence: the main thread of the audio input *)
(* hands it to the sequence passer and to the audio signal preserver, two  *)
(* threads that meet again in the blacklist of the execution runtime.      *)
(* The passer announces the alarm unless it repeats the previous sequence  *)
(* too soon or its code is not on the whitelist; the preserver waits until *)
(* enough audio has followed, and records it unless it is on the blacklist *)
(* (src/Core/privImplementation.cpp, SequencePasser.h,                     *)
(* AudioSignalPreserver.h, src/Middleware/ExecutionRuntime.cpp and         *)
(* ExecutionDetectorRuntime.cpp).                                          *)
(*                                                                         *)
(* Time is the time of the audio signal in ticks of one sample, clocked by *)
(* the samples the preserver gets.  The detection is external: it finds    *)
(* sequences in the order of their start, some time after it, and never    *)
(* two with the same start.  Queues and maps of sequences are sets, read   *)
(* in the order of the start times.  Recording is switched on              *)
(* (recordingLength > 0).                                                  *)
(***************************************************************************)
EXTENDS Integers, FiniteSets

CONSTANTS
  Codes,         \* codes of sequences
  Whitelist,     \* the whitelist of the settings, empty: any code
  MinDistance,   \* minDistanceRepetition
  RecordFrom,    \* recordTimeLowerLimit, from the start of the sequence
  RecordUntil,   \* recordTimeUpperLimit, from the start of the sequence
  Buffer,        \* recordTimeBuffer
  MaxDelay,      \* bound: a sequence is found at most so long after its start
  PasserLag,     \* bound: and has been passed at most so long after it
  RecorderLag,   \* bound: and has been recorded at most so long after it
  MaxTime,       \* bound: time stops here, after every recording, and no sequence
                 \* is found any more
  MaxSequences,  \* bound: sequences found
  MaxFailures,   \* bound: exceptions that kill a thread
  NoSequence     \* no sequence

\* CAudioSignalPreserver::SetParameters refuses other limits.
ASSUME SequenceProcessingAssumption ==
  /\ Whitelist \subseteq Codes
  /\ MinDistance \in Nat /\ RecordFrom \in Int /\ RecordUntil \in Nat
  /\ Buffer \in Nat /\ Buffer >= -RecordFrom /\ RecordFrom <= RecordUntil
  /\ MaxDelay \in Nat /\ PasserLag \in Nat /\ RecorderLag \in Nat
  /\ MaxTime \in Nat /\ MaxSequences \in Nat /\ MaxFailures \in Nat
  /\ NoSequence \notin [code : Codes, start : Nat]

VARIABLES
  audio,      \* time of the last sample given to the preserver
  fresh,      \* sequences the main thread has yet to give the preserver
  queue,      \* foundSequences of the passer
  passer,     \* where the passer thread is
  copy,       \* sequenceCopy of the passer thread
  last,       \* lastSequence
  blacklist,  \* sequencesBlacklist
  incoming,   \* captureSequenceRecords
  recorder,   \* where the preserver thread is
  pending,    \* localCaptureSequenceRecords
  toScan,     \* the part of it this pass has yet to look at
  heard,      \* time of the last sample in localRecordedTime
  kept,       \* time of the first sample in it
  failures,   \* exceptions that have killed a thread so far
  detected,   \* history: the sequences found
  announced,  \* history: sequences announced and sent with state true
  suppressed, \* history: sequences the passer put on the blacklist
  recorded,   \* history: sequences stored and sent with state false
  cut         \* history: recorded sequences that lacked audio at the start

passerVars == <<queue, passer, copy, last, blacklist>>
recorderVars == <<incoming, recorder, pending, toScan, heard, kept>>
history == <<detected, announced, suppressed, recorded, cut>>
vars == <<audio, fresh, passerVars, recorderVars, failures, history>>

Sequences == [code : Codes, start : Nat]

TypeOK ==
  /\ audio \in Nat
  /\ fresh \subseteq Sequences
  /\ queue \subseteq Sequences
  /\ passer \in {"top", "waiting", "processing", "announcing", "ended"}
  /\ copy \subseteq Sequences
  /\ last \in Sequences \cup {NoSequence}
  /\ blacklist \subseteq Sequences
  /\ incoming \subseteq Sequences
  /\ recorder \in {"top", "waiting", "scanning", "storing", "ended"}
  /\ pending \subseteq Sequences
  /\ toScan \subseteq Sequences
  /\ heard \in Nat
  /\ kept \in Int
  /\ failures \in Nat
  /\ detected \subseteq Sequences
  /\ announced \subseteq Sequences
  /\ suppressed \subseteq Sequences
  /\ recorded \subseteq Sequences
  /\ cut \subseteq Sequences

Init ==
  /\ audio = 0
  /\ fresh = {}
  /\ queue = {}
  /\ passer = "top"
  /\ copy = {}
  /\ last = NoSequence
  /\ blacklist = {}
  /\ incoming = {}
  /\ recorder = "top"
  /\ pending = {}
  /\ toScan = {}
  /\ heard = 0
  /\ kept = 1
  /\ failures = 0
  /\ detected = {}
  /\ announced = {}
  /\ suppressed = {}
  /\ recorded = {}
  /\ cut = {}

First(s, S) == s \in S /\ \A t \in S : s.start <= t.start

\* Sequences the passer has not dealt with, and sequences not yet recorded.
Passing == copy \cup queue
Recording == pending \cup incoming \cup fresh

-----------------------------------------------------------------------------
(* The main thread of the audio input.                                     *)

\* A notification reaches a thread only while it waits.
Woken(state) == IF state = "waiting" THEN "top" ELSE state

NotifyNobody == UNCHANGED recorder
NotifyRecorder == recorder' = Woken(recorder)

\* The next sample; those after MaxTime are not counted.  The two lags bound
\* how far the threads may fall behind.
Capture ==
  /\ fresh = {}
  /\ passer # "ended" => \A s \in Passing : audio < s.start + PasserLag
  /\ recorder # "ended" => \A s \in Recording : audio < s.start + RecorderLag
  /\ audio' = IF audio < MaxTime THEN audio + 1 ELSE audio
  /\ NotifyRecorder
  /\ UNCHANGED <<fresh, passerVars, incoming, pending, toScan, heard, kept,
                 failures, history>>

\* GetSequencesDebug returns the sequences in S, and the passer gets them.
PassSequences(S) ==
  /\ fresh = {} /\ audio < MaxTime
  /\ S # {} /\ Cardinality(detected \cup S) <= MaxSequences
  /\ \A s \in S :
       /\ s.start <= audio /\ audio <= s.start + MaxDelay
       /\ s.start + RecordUntil < MaxTime
       /\ \A t \in detected : t.start < s.start
       /\ \A t \in S : t.start = s.start => t = s
  /\ detected' = detected \cup S
  /\ queue' = queue \cup S
  /\ passer' = Woken(passer)
  /\ fresh' = S
  /\ UNCHANGED <<audio, copy, last, blacklist, recorderVars, failures,
                 announced, suppressed, recorded, cut>>

\* Then the preserver gets them.
KeepSequences ==
  /\ fresh # {}
  /\ incoming' = incoming \cup fresh
  /\ NotifyRecorder
  /\ fresh' = {}
  /\ UNCHANGED <<audio, passerVars, pending, toScan, heard, kept, failures,
                 history>>

-----------------------------------------------------------------------------
(* The sequence passer and BasicSequenceProcessing.                        *)

PasserTakes ==
  /\ passer = "top"
  /\ copy' = queue
  /\ queue' = {}
  /\ passer' = IF queue = {} THEN "waiting" ELSE "processing"
  /\ UNCHANGED <<audio, fresh, last, blacklist, recorderVars, failures,
                 history>>

\* The queue is empty when the lock is given up: what was copied is gone.
RestAtOnce(S) == "top"
Rest(S) == IF S = {} THEN "top" ELSE "processing"

\* The sequence before s had the same code and is too close.
RepeatsLate(s) ==
  last # NoSequence /\ last.code = s.code /\ s.start - last.start > MinDistance
Repeats(s) ==
  last # NoSequence /\ last.code = s.code /\ s.start - last.start < MinDistance

Allowed(s) == Whitelist = {} \/ s.code \in Whitelist

\* deleteTimespan, and what is deleted from the blacklist at the time of s.
DeleteTimespan == IF MinDistance > RecordUntil THEN MinDistance ELSE RecordUntil
ForgottenEarly(s) == {t \in blacklist : s.start - t.start > DeleteTimespan}
Forgotten(s) == {t \in blacklist : s.start - t.start > 2 * DeleteTimespan}

\* A repetition or a code that is not allowed ends on the blacklist.
Suppress(s) ==
  /\ passer = "processing" /\ First(s, copy)
  /\ Repeats(s) \/ ~Allowed(s)
  /\ last' = s
  /\ blacklist' = (blacklist \ Forgotten(s)) \cup {s}
  /\ suppressed' = suppressed \cup {s}
  /\ copy' = copy \ {s}
  /\ passer' = Rest(copy \ {s})
  /\ UNCHANGED <<audio, fresh, queue, recorderVars, failures, detected,
                 announced, recorded, cut>>

\* Any other sequence will be announced after the locks are given up.
Accept(s) ==
  /\ passer = "processing" /\ First(s, copy)
  /\ ~Repeats(s) /\ Allowed(s)
  /\ last' = s
  /\ blacklist' = blacklist \ Forgotten(s)
  /\ passer' = "announcing"
  /\ UNCHANGED <<audio, fresh, queue, copy, recorderVars, failures,
                 history>>

\* onFoundSequenceCallback and gateways.Send, state true.  That there is no
\* message for the code is reported and ends the matter.
Announce(s) ==
  /\ passer = "announcing" /\ First(s, copy)
  /\ announced' = announced \cup {s}
  /\ copy' = copy \ {s}
  /\ passer' = Rest(copy \ {s})
  /\ UNCHANGED <<audio, fresh, queue, last, blacklist, recorderVars,
                 failures, detected, suppressed, recorded, cut>>

\* Another exception leaves the callback or the gateways.
PasserFails ==
  /\ passer = "announcing"
  /\ failures < MaxFailures
  /\ failures' = failures + 1
  /\ passer' = "ended"
  /\ UNCHANGED <<audio, fresh, queue, copy, last, blacklist, recorderVars,
                 history>>

-----------------------------------------------------------------------------
(* The audio signal preserver and OnRecordedData.                          *)

Later(a, b) == IF a > b THEN a ELSE b

\* DeleteSignalData without a pending sequence, and after one was recorded.
IdleKeepsNothing(now) == Later(kept, now + 1)
IdleKeeps(now) == Later(kept, now + 1 - Buffer)

KeepForPending(S) ==
  IF S = {} THEN UNCHANGED kept
  ELSE \E t \in S : First(t, S) /\ kept' = Later(kept, t.start - Buffer)

\* New sequences and samples are taken over.
Collect ==
  /\ recorder = "top"
  /\ pending' = pending \cup incoming
  /\ incoming' = {}
  /\ heard' = audio
  /\ toScan' = pending'
  /\ kept' = IF pending' = {} THEN IdleKeeps(audio) ELSE kept
  /\ recorder' = "scanning"
  /\ UNCHANGED <<audio, fresh, passerVars, failures, history>>

\* Has enough audio followed a sequence?
ReadyAtOnce(s) == kept <= heard
Ready(s) == kept <= heard /\ heard - s.start > RecordUntil

\* Is there any audio left between its limits?
HasAudio(s) == Later(kept, s.start + RecordFrom) < s.start + RecordUntil

\* Not yet: the next sequence is looked at.
Postpone(s) ==
  /\ recorder = "scanning" /\ First(s, toScan)
  /\ ~Ready(s)
  /\ toScan' = toScan \ {s}
  /\ UNCHANGED <<audio, fresh, passerVars, incoming, recorder, pending,
                 heard, kept, failures, history>>

\* A sequence leaves the preserver, with the audio only it needed.
Drop(s) ==
  /\ pending' = pending \ {s}
  /\ toScan' = toScan \ {s}
  /\ KeepForPending(pending \ {s})
  /\ UNCHANGED <<incoming, heard>>

\* OnRecordedData finds it on the blacklist.
Ignore(s) ==
  /\ recorder = "scanning" /\ First(s, toScan)
  /\ Ready(s) /\ HasAudio(s)
  /\ s \in blacklist
  /\ Drop(s)
  /\ UNCHANGED <<audio, fresh, passerVars, recorder, failures, history>>

\* It does not, and goes on to store the audio file ...
BeginStoring(s) ==
  /\ recorder = "scanning" /\ First(s, toScan)
  /\ Ready(s) /\ HasAudio(s)
  /\ s \notin blacklist
  /\ recorder' = "storing"
  /\ UNCHANGED <<audio, fresh, passerVars, incoming, pending, toScan,
                 heard, kept, failures, history>>

\* ... which is sent with state false; exceptions of Send are ignored.
Store(s) ==
  /\ recorder = "storing" /\ First(s, toScan)
  /\ recorded' = recorded \cup {s}
  /\ cut' = IF kept > Later(1, s.start + RecordFrom)
            THEN cut \cup {s} ELSE cut
  /\ recorder' = "scanning"
  /\ Drop(s)
  /\ UNCHANGED <<audio, fresh, passerVars, failures, detected, announced,
                 suppressed>>

\* OnRecordedData throws if no audio is left, and the thread ends.
ComeTooLate(s) ==
  /\ recorder = "scanning" /\ First(s, toScan)
  /\ Ready(s) /\ ~HasAudio(s)
  /\ recorder' = "ended"
  /\ UNCHANGED <<audio, fresh, passerVars, incoming, pending, toScan, heard,
                 kept, failures, history>>

\* The audio file cannot be stored.
RecorderFails ==
  /\ recorder = "storing"
  /\ failures < MaxFailures
  /\ failures' = failures + 1
  /\ recorder' = "ended"
  /\ UNCHANGED <<audio, fresh, passerVars, incoming, pending, toScan,
                 heard, kept, history>>

RecorderRests ==
  /\ recorder = "scanning" /\ toScan = {}
  /\ recorder' = "waiting"
  /\ UNCHANGED <<audio, fresh, passerVars, incoming, pending, toScan,
                 heard, kept, failures, history>>

-----------------------------------------------------------------------------

MainNext ==
  \/ Capture
  \/ \E S \in SUBSET [code : Codes, start : Later(1, audio - MaxDelay) .. audio] :
       PassSequences(S)
  \/ KeepSequences

PasserNext ==
  \/ PasserTakes
  \/ \E s \in copy : Suppress(s) \/ Accept(s) \/ Announce(s)

RecorderNext ==
  \/ Collect
  \/ \E s \in toScan : \/ Postpone(s) \/ Ignore(s) \/ ComeTooLate(s)
                       \/ BeginStoring(s) \/ Store(s)
  \/ RecorderRests

Next == MainNext \/ PasserNext \/ PasserFails \/ RecorderNext \/ RecorderFails

\* The threads run, and the audio device delivers samples.
Fairness ==
  /\ WF_vars(Capture)
  /\ WF_vars(KeepSequences)
  /\ WF_vars(PasserNext)
  /\ WF_vars(RecorderNext)

Spec == Init /\ [][Next]_vars
FairSpec == Spec /\ Fairness

-----------------------------------------------------------------------------
(* Properties.                                                             *)

\* A sequence that was put on the blacklist, as a repetition or for its
\* code, raises no alarm, and its audio is neither stored nor sent.  The
\* recording ends in another thread, long after the decision, and the
\* blacklist forgets: this holds because the entry is kept for twice the
\* time a recording takes, and only as long as neither thread falls behind.
SuppressedStaysSilent == suppressed \cap (announced \cup recorded) = {}

\* No recording begins later than RecordFrom after its sequence, although
\* the sequence is found late and older audio is thrown away, between
\* recordings and after each of several that overlap.
RecordingsAreComplete == cut = {}

\* A detected sequence is in one place of the passer's side and in one place
\* of the preserver's side, or done with; a passer that waits has nothing to
\* do, so no sequence is lost between the check of the queue and the wait.
NothingIsForgotten ==
  /\ detected = copy \cup queue \cup announced \cup suppressed
  /\ copy \cap queue = {}
  /\ (copy \cup queue) \cap (announced \cup suppressed) = {}
  /\ detected \subseteq Recording \cup recorded \cup suppressed
  /\ Recording \cap recorded = {}
  /\ passer = "waiting" => queue = {} /\ copy = {}

Separated(S) ==
  \A s, t \in S :
    s.code = t.code /\ s.start < t.start /\ t.start < s.start + MinDistance =>
      \E u \in detected :
        s.start < u.start /\ u.start < t.start /\ u.code # s.code

\* Two alarms of the same code that are closer than MinDistance have a
\* sequence of another code between them.
AlarmsAreApart == Separated(announced)

\* The manual: after an alarm every further alarm for this sequence is
\* suppressed for the time set.
RepetitionsAreSuppressed ==
  \A s, t \in announced :
    s.code = t.code /\ s.start < t.start => t.start >= s.start + MinDistance

\* Every detected sequence is announced or put on the blacklist, unless an
\* exception has ended the passer thread: the passer catches up again and again.
EverySequenceIsDecided ==
  []<>(detected \subseteq announced \cup suppressed \/ passer = "ended")

\* Every alarm is recorded, although the preserver waits without looking
\* whether samples came in while it was busy: the next ones wake it up.  Only
\* an exception prevents it: the audio file cannot be stored, or the audio of a
\* sequence was deleted before it came.
EveryAlarmIsRecorded ==
  []<>(announced \subseteq recorded \/ recorder = "ended")

\* Sequences the passer has decided on, and those of them that raise an alarm.
Announcing == {s \in copy : First(s, copy) /\ passer \in {"announcing", "ended"}}
Alarming == announced \cup Announcing
Decided == Alarming \cup suppressed

\* Starts tell sequences apart, and what is found later starts later.
InOrder ==
  /\ \A s, t \in detected : s.start = t.start => s = t
  /\ \A s \in detected : s.start <= audio
  /\ \A s \in copy, t \in queue : s.start < t.start
  /\ \A s \in pending, t \in incoming \cup fresh : s.start < t.start
  /\ \A s \in incoming, t \in fresh : s.start < t.start
  /\ pending \cup incoming \cup fresh \cup recorded \subseteq detected
  /\ blacklist \subseteq suppressed
  /\ passer \in {"processing", "announcing"} => copy # {}
  /\ passer \in {"top", "waiting"} => copy = {}
  /\ toScan \subseteq pending
  /\ heard <= audio

\* lastSequence is the latest sequence decided on.
LastIsLatest ==
  /\ \A s \in Decided : last # NoSequence /\ s.start <= last.start
  /\ last # NoSequence => last \in Decided
  /\ \A s \in Decided, t \in (copy \cup queue) \ Decided : s.start < t.start

\* The invariant that implies what holds whatever the delays are.
IInv ==
  /\ TypeOK /\ InOrder /\ NothingIsForgotten /\ LastIsLatest
  /\ Separated(Alarming)

\* The delays for which the blacklist and the audio kept are enough.
Timely ==
  /\ MaxDelay <= PasserLag /\ PasserLag <= RecordUntil
  /\ MaxDelay <= RecorderLag /\ RecorderLag <= 2 * DeleteTimespan
  /\ MaxDelay < Buffer + RecordFrom

\* Neither thread falls behind.
InTime ==
  /\ passer # "ended" => \A s \in Passing : audio <= s.start + PasserLag
  /\ recorder # "ended" => \A s \in Recording : audio <= s.start + RecorderLag
  /\ \A s \in fresh : audio <= s.start + MaxDelay

\* What may still be recorded has not been forgotten by the blacklist.
Remembered ==
  /\ recorder # "ended" => suppressed \cap Recording \subseteq blacklist
  /\ recorder = "storing" =>
       \A s \in toScan : First(s, toScan) => Ready(s) /\ s \notin suppressed
  /\ SuppressedStaysSilent
  /\ passer # "ended" => recorded \subseteq announced

\* The audio for every sequence found, or to be found, is still there.
AudioIsKept ==
  /\ kept <= Later(1, audio + 1 - Buffer)
  /\ recorder # "ended" =>
       \A s \in Recording : kept <= Later(1, s.start + RecordFrom)

\* The invariant that implies the rest.
TimelyInv ==
  IInv /\ InTime /\ Remembered /\ AudioIsKept /\ RecordingsAreComplete

Lifecycle == INSTANCE AlarmLifecycle
  WITH known <- detected, alarms <- announced, silenced <- suppressed,
       stored <- recorded, broken <- (passer = "ended")

\* To the caller the two threads look like one that decides first and
\* records afterwards.
ImplementsLifecycle == Lifecycle!Spec
=============================================================================
