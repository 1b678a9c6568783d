------------------------------ MODULE AudioInput ------------------------------
(***************************************************************************)
(* Audio input: the audio capturing thread reads blocks of samples from    *)
(* the device into a queue, the main thread takes them from there and has  *)
(* them analysed.  Both are started and stopped by callers from several    *)
(* threads, who may also change the device                                 *)
(* (src/Core/AudioSignalReader.h and src/Core/privImplementation.cpp).     *)
(*                                                                         *)
(* The capturing thread must not wait for the queue: if it is in use, the  *)
(* block is kept for the next time, MaxMissed - 1 times.  The mutexes of   *)
(* the queue and of the two threads, and the locks on the two sets of      *)
(* parameters, follow from where the threads and callers are.  What the    *)
(* main thread does with the blocks is in SequenceProcessing.              *)
(*                                                                         *)
(* Blocks are numbered in the order of capture; those after MaxBlocks are  *)
(* not told apart.  The parameters have been set once.                     *)
(***************************************************************************)
EXTENDS Integers, Sequences, FiniteSets

CONSTANTS
  Callers,       \* threads that start and stop the audio input
  MaxQueue,      \* maxLengthInputQueue, in blocks
  MaxMissed,     \* maxMissedAttempts
  MaxBlocks,     \* bound: blocks told apart
  MaxCalls,      \* bound: calls
  MaxFailures    \* bound: exceptions of the device and of the analysis

ASSUME AudioInputAssumption ==
  /\ MaxQueue \in Nat /\ MaxMissed \in Nat \ {0}
  /\ MaxBlocks \in Nat /\ MaxCalls \in Nat /\ MaxFailures \in Nat

VARIABLES
  reader,      \* where the audio capturing thread is
  terminate,   \* isTerminateThread
  unsynced,    \* newInputSignal; missedAttempts is its length
  queue,       \* inputSignal
  main,        \* where the main thread is
  interrupted, \* the interruption of the main thread was requested
  taken,       \* inputSignal of the main thread
  caller,      \* where the callers are
  calls,       \* calls so far
  failures,    \* exceptions so far
  captured,    \* history: blocks captured
  analysed,    \* history: blocks analysed
  lost,        \* history: blocks lost when a thread failed
  dropped,     \* history: blocks lost when the reader was stopped
  reported,    \* history: runtimeErrorSignal was sent
  starts,      \* history: audio capturing threads started
  clean,       \* history: callers in StopAudioInput without StartAudioInput
  stopped      \* history: such a call has returned, and nothing started since

readerVars == <<unsynced, queue, captured>>
mainVars == <<main, interrupted, taken, analysed>>
callerVars == <<caller, calls, starts, clean, stopped>>
losses == <<failures, lost, dropped, reported>>
vars == <<reader, terminate, readerVars, mainVars, callerVars, losses>>

\* A block that is not told apart.
Untracked == 0

CallerStates ==
  {"idle", "toStart", "starting", "stopping", "joiningReader", "stoppingMain",
   "joiningMain", "toChange", "changing", "joiningToChange", "setting"}

TypeOK ==
  /\ reader \in {"none", "started", "top", "reading", "forcing", "ended"}
  /\ terminate \in BOOLEAN
  /\ unsynced \in Seq(0 .. MaxBlocks)
  /\ queue \in Seq(0 .. MaxBlocks)
  /\ main \in {"none", "started", "top", "copying", "processing", "ended"}
  /\ interrupted \in BOOLEAN
  /\ taken \in Seq(0 .. MaxBlocks)
  /\ caller \in [Callers -> CallerStates]
  /\ calls \in Nat /\ failures \in Nat /\ starts \in Nat
  /\ captured \in 0 .. MaxBlocks
  /\ analysed \subseteq 1 .. MaxBlocks
  /\ lost \subseteq 1 .. MaxBlocks
  /\ dropped \subseteq 1 .. MaxBlocks
  /\ reported \in BOOLEAN
  /\ clean \subseteq Callers
  /\ stopped \in BOOLEAN

Init ==
  /\ reader = "none" /\ terminate = FALSE
  /\ unsynced = <<>> /\ queue = <<>>
  /\ main = "none" /\ interrupted = FALSE /\ taken = <<>>
  /\ caller = [c \in Callers |-> "idle"]
  /\ calls = 0 /\ failures = 0 /\ starts = 0
  /\ captured = 0
  /\ analysed = {} /\ lost = {} /\ dropped = {}
  /\ reported = FALSE
  /\ clean = {} /\ stopped = FALSE

Blocks(s) == {s[i] : i \in DOMAIN s} \ {Untracked}

\* mainThreadMutex, threadMutex, the lock on the parameters of the audio
\* input, and the lock on those of the reader.
MainMutex == {c \in Callers : caller[c] \in {"starting", "joiningMain"}}
ThreadMutex == {c \in Callers : caller[c] \in {"joiningReader", "joiningToChange"}}
ParameterMutex ==
  {c \in Callers :
     caller[c] \in {"toChange", "changing", "joiningToChange", "setting"}}
ReaderHasParameters == reader \in {"top", "reading", "forcing"}
MainHasParameters == main \in {"top", "copying", "processing"}

-----------------------------------------------------------------------------
(* The audio capturing thread: ReadAudioInputThread.                       *)

ReaderStarts ==
  /\ reader = "started"
  /\ reader' = "top"
  /\ UNCHANGED <<terminate, readerVars, mainVars, callerVars, losses>>

ReaderTerminates ==
  /\ reader = "top" /\ terminate
  /\ reader' = "ended"
  /\ unsynced' = <<>>
  /\ dropped' = dropped \cup Blocks(unsynced)
  /\ UNCHANGED <<terminate, queue, captured, mainVars, callerVars, failures,
                 lost, reported>>

ReaderReads ==
  /\ reader = "top" /\ ~terminate
  /\ reader' = "reading"
  /\ UNCHANGED <<terminate, readerVars, mainVars, callerVars, losses>>

\* UpdateSignalQueue throws after it has stored the blocks.
IgnoreLength(q) == "top"
CheckLength(q) == IF Len(q) > MaxQueue THEN "ended" ELSE "top"

UpdateAndKeep(new) ==
  /\ queue' = queue \o new
  /\ unsynced' = IF new = unsynced THEN unsynced ELSE <<>>
  /\ reader' = CheckLength(queue')
  /\ reported' = (reported \/ reader' = "ended")

UpdateWithLast(new) ==
  /\ queue' = Append(queue, new[Len(new)])
  /\ unsynced' = <<>>
  /\ reader' = CheckLength(queue')
  /\ reported' = (reported \/ reader' = "ended")

UpdateSignalQueue(new) ==
  /\ queue' = queue \o new
  /\ unsynced' = <<>>
  /\ reader' = CheckLength(queue')
  /\ reported' = (reported \/ reader' = "ended")

\* ReadStream returns a block.
Capture ==
  /\ reader = "reading"
  /\ captured' = IF captured < MaxBlocks THEN captured + 1 ELSE captured

Captured ==
  Append(unsynced, IF captured < MaxBlocks THEN captured + 1 ELSE Untracked)

Synchronize ==
  /\ Capture
  /\ main # "copying"
  /\ UpdateSignalQueue(Captured)
  /\ UNCHANGED <<terminate, mainVars, callerVars, failures, lost, dropped>>

\* Has the reader to wait for the queue now?
ForcedLate(s) == Len(s) > MaxMissed
Forced(s) == Len(s) >= MaxMissed

MissSynchronization ==
  /\ Capture
  /\ main = "copying"
  /\ unsynced' = Captured
  /\ reader' = IF Forced(unsynced') THEN "forcing" ELSE "top"
  /\ UNCHANGED <<terminate, queue, mainVars, callerVars, losses>>

ForceSynchronization ==
  /\ reader = "forcing"
  /\ main # "copying"
  /\ UpdateSignalQueue(unsynced)
  /\ UNCHANGED <<terminate, captured, mainVars, callerVars, failures, lost,
                 dropped>>

\* ReadStream throws.
DeviceFails ==
  /\ reader = "reading"
  /\ failures < MaxFailures
  /\ failures' = failures + 1
  /\ reader' = "ended"
  /\ unsynced' = <<>>
  /\ lost' = lost \cup Blocks(unsynced)
  /\ reported' = TRUE
  /\ UNCHANGED <<terminate, queue, captured, mainVars, callerVars, dropped>>

-----------------------------------------------------------------------------
(* The main thread: MainThread.                                            *)

MainStarts ==
  /\ main = "started"
  /\ ParameterMutex = {}
  /\ main' = "top"
  /\ UNCHANGED <<reader, terminate, readerVars, interrupted, taken, analysed,
                 callerVars, losses>>

MainEnds ==
  /\ main = "top" /\ interrupted
  /\ main' = "ended"
  /\ UNCHANGED <<reader, terminate, readerVars, interrupted, taken, analysed,
                 callerVars, losses>>

\* GetSignalData locks the queue ...
MainCopies ==
  /\ main = "top" /\ ~interrupted
  /\ main' = "copying"
  /\ UNCHANGED <<reader, terminate, readerVars, interrupted, taken, analysed,
                 callerVars, losses>>

\* ... takes everything and unlocks it.
MainTakes ==
  /\ main = "copying"
  /\ main' = "processing"
  /\ taken' = queue
  /\ queue' = <<>>
  /\ UNCHANGED <<reader, terminate, unsynced, captured, interrupted, analysed,
                 callerVars, losses>>

MainAnalyses ==
  /\ main = "processing"
  /\ main' = "top"
  /\ analysed' = analysed \cup Blocks(taken)
  /\ taken' = <<>>
  /\ UNCHANGED <<reader, terminate, readerVars, interrupted, callerVars,
                 losses>>

MainFails ==
  /\ main = "processing"
  /\ failures < MaxFailures
  /\ failures' = failures + 1
  /\ main' = "ended"
  /\ lost' = lost \cup Blocks(taken)
  /\ taken' = <<>>
  /\ reported' = TRUE
  /\ UNCHANGED <<reader, terminate, readerVars, interrupted, analysed,
                 callerVars, dropped>>

-----------------------------------------------------------------------------
(* The callers.                                                            *)

Go(c, state) == caller' = [caller EXCEPT ![c] = state]

Call(c, state) ==
  /\ caller[c] = "idle"
  /\ calls < MaxCalls
  /\ calls' = calls + 1
  /\ Go(c, state)

StartAudioInput(c) ==
  /\ Call(c, "toStart")
  /\ clean' = {} /\ stopped' = FALSE
  /\ UNCHANGED <<reader, terminate, readerVars, mainVars, starts, losses>>

\* The thread is not joined yet, even if it has ended.
RefuseStart(c) ==
  /\ caller[c] = "toStart"
  /\ MainMutex = {}
  /\ main # "none"
  /\ Go(c, "idle")
  /\ UNCHANGED <<reader, terminate, readerVars, mainVars, calls, starts, clean,
                 stopped, losses>>

StartMain(c) ==
  /\ caller[c] = "toStart"
  /\ MainMutex = {}
  /\ main = "none"
  /\ main' = "started" /\ interrupted' = FALSE
  /\ Go(c, "starting")
  /\ UNCHANGED <<reader, terminate, readerVars, taken, analysed, calls, starts,
                 clean, stopped, losses>>

\* The call ends, with an exception if there is an audio capturing thread.
StartReading(c) ==
  /\ caller[c] = "starting"
  /\ ThreadMutex = {}
  /\ IF reader = "none"
     THEN reader' = "started" /\ terminate' = FALSE /\ starts' = starts + 1
     ELSE UNCHANGED <<reader, terminate, starts>>
  /\ Go(c, "idle")
  /\ UNCHANGED <<readerVars, mainVars, calls, clean, stopped, losses>>

StopAudioInput(c) ==
  /\ Call(c, "stopping")
  /\ clean' = IF \E d \in Callers : caller[d] \in {"toStart", "starting"}
              THEN clean ELSE clean \cup {c}
  /\ UNCHANGED <<reader, terminate, readerVars, mainVars, starts, stopped,
                 losses>>

\* What follows when the reader is to be joined, and when it is gone.
Joining(c) ==
  IF caller[c] = "stopping" THEN "joiningReader" ELSE "joiningToChange"
ReaderGone(c) ==
  IF caller[c] \in {"stopping", "joiningReader"} THEN "stoppingMain" ELSE "setting"

\* StopReading, by StopAudioInput and by SetParameters of the reader.
StopReading(c) ==
  /\ caller[c] \in {"stopping", "changing"}
  /\ ThreadMutex = {}
  /\ \/ reader = "none" /\ Go(c, ReaderGone(c)) /\ UNCHANGED terminate
     \/ reader # "none" /\ Go(c, Joining(c)) /\ terminate' = TRUE
  /\ UNCHANGED <<reader, readerVars, mainVars, calls, starts, clean, stopped,
                 losses>>

JoinReader(c) ==
  /\ caller[c] \in {"joiningReader", "joiningToChange"}
  /\ reader = "ended"
  /\ reader' = "none"
  /\ Go(c, ReaderGone(c))
  /\ UNCHANGED <<terminate, readerVars, mainVars, calls, starts, clean,
                 stopped, losses>>

\* StopAudioInput returns.
Return(c) ==
  /\ Go(c, "idle")
  /\ stopped' = (stopped \/ c \in clean)
  /\ clean' = clean \ {c}

InterruptAndReturn(c) ==
  /\ interrupted' = TRUE
  /\ Return(c)

JoinWithoutInterrupt(c) ==
  /\ Go(c, "joiningMain")
  /\ UNCHANGED <<interrupted, clean, stopped>>

Interrupt(c) ==
  /\ interrupted' = TRUE
  /\ Go(c, "joiningMain")
  /\ UNCHANGED <<clean, stopped>>

StopMain(c) ==
  /\ caller[c] = "stoppingMain"
  /\ MainMutex = {}
  /\ \/ main = "none" /\ Return(c) /\ UNCHANGED interrupted
     \/ main # "none" /\ Interrupt(c)
  /\ UNCHANGED <<reader, terminate, readerVars, main, taken, analysed, calls,
                 starts, losses>>

JoinMain(c) ==
  /\ caller[c] = "joiningMain"
  /\ main = "ended"
  /\ main' = "none"
  /\ Return(c)
  /\ UNCHANGED <<reader, terminate, readerVars, interrupted, taken, analysed,
                 calls, starts, losses>>

\* It throws while the main thread runs or another call changes the device.
SetAudioDevice(c) ==
  /\ ~MainHasParameters /\ ParameterMutex = {}
  /\ Call(c, "toChange")
  /\ UNCHANGED <<reader, terminate, readerVars, mainVars, starts, clean,
                 stopped, losses>>

\* GetParameters of the reader.
GetParameters(c) ==
  /\ caller[c] = "toChange"
  /\ ~ReaderHasParameters
  /\ Go(c, "changing")
  /\ UNCHANGED <<reader, terminate, readerVars, mainVars, calls, starts, clean,
                 stopped, losses>>

\* After StopReading, SetParameters sets the device, or throws if the audio
\* capturing was started again.
SetParameters(c) ==
  /\ caller[c] = "setting"
  /\ Go(c, "idle")
  /\ UNCHANGED <<reader, terminate, readerVars, mainVars, calls, starts, clean,
                 stopped, losses>>

-----------------------------------------------------------------------------

ReaderNext ==
  \/ ReaderStarts \/ ReaderTerminates \/ ReaderReads
  \/ Synchronize \/ MissSynchronization \/ ForceSynchronization

MainNext == MainStarts \/ MainEnds \/ MainCopies \/ MainTakes \/ MainAnalyses

\* The steps of a call that has begun.
CallerNext(c) ==
  \/ RefuseStart(c) \/ StartMain(c) \/ StartReading(c)
  \/ StopReading(c) \/ JoinReader(c) \/ StopMain(c) \/ JoinMain(c)
  \/ GetParameters(c) \/ SetParameters(c)

Next ==
  \/ ReaderNext \/ DeviceFails
  \/ MainNext \/ MainFails
  \/ \E c \in Callers :
       StartAudioInput(c) \/ StopAudioInput(c) \/ SetAudioDevice(c) \/ CallerNext(c)

\* The threads run, the device delivers blocks, and a thread that waits for
\* the mutex of the queue gets it, as the main thread sleeps in every cycle.
Fairness ==
  /\ WF_vars(ReaderNext)
  /\ SF_vars(ForceSynchronization)
  /\ WF_vars(MainNext)
  /\ \A c \in Callers : WF_vars(CallerNext(c))

Spec == Init /\ [][Next]_vars
FairSpec == Spec /\ Fairness

-----------------------------------------------------------------------------
(* Properties.                                                             *)

\* All blocks on their way to the analysis, the oldest first.
Stream == taken \o queue \o unsynced

Ordered(s) ==
  \A i, j \in DOMAIN s : i < j /\ s[j] # Untracked => s[i] # Untracked /\ s[i] < s[j]

\* Every block captured is in one place, also while the reader keeps it
\* because it could not lock the queue and however often the threads end and
\* are started again; the analysis gets the blocks in the order of capture.
EachBlockOnce ==
  /\ Ordered(Stream)
  /\ \A a \in analysed, b \in Blocks(Stream) : a < b
  /\ analysed \cup lost \cup dropped \cup Blocks(Stream) = 1 .. captured
  /\ analysed \cap (lost \cup dropped) = {} /\ lost \cap dropped = {}
  /\ Blocks(Stream) \cap (lost \cup dropped) = {}

\* Whenever the reader is stopped, it takes fewer than MaxMissed blocks with
\* it that it has not passed on.
StopsLoseLittle == Cardinality(dropped) <= starts * (MaxMissed - 1)

\* The queue gets longer than allowed only once for each start of the reader,
\* which reports that and ends.
QueueIsBounded ==
  /\ Len(queue) <= MaxQueue + starts * MaxMissed
  /\ Len(queue) > MaxQueue => reported

\* When StopAudioInput returns, both threads have ended, if no StartAudioInput
\* overlapped it; other calls of it and of SetAudioDevice may.
StopStops == stopped => reader = "none" /\ main = "none"

\* IsRunning returns that the audio input is being processed.
IsRunning == main # "none"
RunningIsProcessing ==
  MainMutex = {} /\ IsRunning => main # "ended"

\* Every call returns, although callers wait for each other and for both
\* threads.  SetAudioDevice may wait for a reader that nobody stops, as the
\* main thread has failed: then the queue overflows and ends the reader.
EveryCallReturns ==
  \A c \in Callers : caller[c] # "idle" ~> caller[c] = "idle"

\* A captured block is analysed or lost unless the main thread ends: the
\* reader cannot miss the queue for ever.
EveryBlockIsAnalysed ==
  \A b \in 1 .. MaxBlocks :
    captured >= b ~> \/ b \in analysed \cup lost \cup dropped
                    \/ main \in {"none", "ended"}

\* Nobody else has a mutex, and threads are joined only if they exist.
LocksAreExclusive ==
  /\ \A c, d \in MainMutex : c = d
  /\ \A c, d \in ThreadMutex : c = d
  /\ \A c \in ThreadMutex : reader # "none"
  /\ \A c \in MainMutex : main # "none"

\* What StopAudioInput has achieved on its way.
CleanStops ==
  /\ stopped \/ clean # {} =>
       \A c \in Callers : caller[c] \notin {"toStart", "starting"}
  /\ \A c \in clean :
       /\ caller[c] \in {"stopping", "joiningReader", "stoppingMain", "joiningMain"}
       /\ caller[c] \in {"stoppingMain", "joiningMain"} => reader = "none"

\* The reader keeps few blocks, and only as long as it runs; each start of it
\* can exceed the length of the queue and drop blocks once.
ReaderIsAlive == reader \in {"started", "top", "reading", "forcing"}
FinishedReaders == IF ReaderIsAlive THEN starts - 1 ELSE starts
ReaderIsBounded ==
  /\ ReaderIsAlive => starts > 0
  /\ Len(unsynced) <= IF reader = "forcing" THEN MaxMissed ELSE MaxMissed - 1
  /\ reader \notin {"top", "reading", "forcing"} => unsynced = <<>>
  /\ Len(queue) <= MaxQueue + FinishedReaders * MaxMissed
  /\ Len(queue) > MaxQueue => reported
  /\ Cardinality(dropped) <= FinishedReaders * (MaxMissed - 1)

\* Nothing is taken unless it is processed, and the blocks not told apart
\* come last.
TakenIsProcessed ==
  /\ main # "processing" => taken = <<>>
  /\ captured < MaxBlocks => \A i \in DOMAIN Stream : Stream[i] # Untracked

\* The invariant that implies the others.
IInv ==
  /\ TypeOK /\ LocksAreExclusive /\ CleanStops /\ StopStops
  /\ ReaderIsBounded /\ TakenIsProcessed /\ EachBlockOnce
=============================================================================
