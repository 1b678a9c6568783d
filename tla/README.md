# PersonalFME: TLA+ models, checks and proofs

PersonalFME listens to an analogue radio channel, detects five-tone sequences
in the audio signal, and raises alarms by e-mail, by an alarming service or by
an external program; after the alarm it can record the audio that follows the
sequence and send it in a second message. It can also send the sequences it
finds to other computers. This directory holds TLA+ modules of its core, the
configurations with which TLC checks them, and proofs checked by the TLA+ proof
system.

## The system

    audio device -> CAudioSignalReader -> main thread -> CSearch / FME search
                     (thread)             (CPrivImplementation)  (thread)
                                              |  sequences, audio
                              +---------------+----------------+
                     CSequencePasser                 CAudioSignalPreserver
                     (thread)                        (thread)
                              |   blacklist of the          |
       BasicSequenceProcessing <- execution runtime -> OnRecordedData
                              |                             |
                              +--> CAlarmGatewaysManager <--+
                                         |   one CConnectionManager per gateway
                                   manager thread, connection threads
                                         |
                                   e-mail, alarming service, program

    CSettingsParam (logins, alarms, whitelist) -> copied by the execution runtime
    CAlarmMessageDatabase (validities, monthly cache) -> searched by Send
    CFMEClient -> CFMEServer, CFMESession: sequences over TCP

| component | source (src/) | state | operations | what is hard | what makes it correct |
|---|---|---|---|---|---|
| connection manager | Networking/ConnectionManager, ConnectionThread | message queue keyed by time, pool of connections, wake-up flags | AddMessage, manager pass, sending trial, completion callback, destruction | two kinds of threads and asynchronous callbacks under three mutexes, retries, destruction while sending | every message ends in one final report; trials bounded and spaced; no lost wake-up |
| sequence passer | Core/SequencePasser.h | queue, local copy | PutSequences, thread | check and wait, failing callback | nothing lost, order kept |
| audio signal preserver | Core/AudioSignalPreserver.h | audio buffer, pending sequences | PutSignalData, PutSequences, thread | wait without a condition, pruning against late sequences | complete recordings of every alarm |
| execution runtime | Middleware/ExecutionRuntime, ExecutionDetectorRuntime | last sequence, blacklist | BasicSequenceProcessing, OnRecordedData | the blacklist is written in one thread and read in another, and forgets | suppressed sequences stay silent |
| main thread | Core/privImplementation.cpp | thread, its interruption | cycle, start, stop, parameters | order of samples and sequences | each sequence reaches both threads |
| audio signal reader | Core/AudioSignalReader.h | queue, blocks not passed on yet, thread | capturing thread, GetSignalData, start, stop, SetAudioDevice | try-lock with a limit, overflow, restart after a failure | samples in order, none lost silently |
| tone search | Core/ToneSearch.h | two streams of spectra, unfinished tones | PutFrequencyStream, thread, GetTones | steps that cut tones, neighbours beyond the step, a wait without a condition | the tones are those of the whole signal |
| sequence search | Core/Search.h, FMESequenceSearch.h | tones, last code | PutTonesStream, thread | overlapping windows, repetitions of the receiver | each sequence found once, in order |
| signal analysis | Core/FrequencySearch.h, filters, FFT | filter state | numeric | floating point | - |
| gateways manager | Networking/AlarmGatewaysManager, GatewayLoginDatabase | logins, managers | Add, Remove, reset of the databases, Send | partial failure of Send, logins removed one by one | every message of an alarm is queued |
| settings | Middleware/SettingsParam | gateways, alarms, whitelist | setters in any order, loading | values derived from several settings | the whitelist fits the database |
| message database | Networking/AlarmMessagesDatabase, AlarmValidities, validities | entries of each code, monthly cache | Add, Replace, Remove, assignment, Search | stale cache, local time against UTC, ends of months | the messages valid by the local clock |
| client, server | Networking/FMEClient, FMEServer, FMESession, FMESessionManager | sessions, endpoints, the io_service | Init, Send, Run, Stop, handlers | asynchronous reads, broken connections, several endpoints, a second Run | framing, each sequence once, no handler of a destroyed session, a Run that serves |
| console, utilities, plugins | Console, Utilities, plugins | records | output | shutdown on a signal | - |

The file PROJECT.json lists every component with its status and every hazard
with the line where it bites and the properties that cover it.

## Modules

**ConnectionManager** models `CConnectionManager` and `CConnectionThread`.

| state | code |
|---|---|
| `clock`, `queue` | `steady_clock`, `messageQueue`: a set of entries with distinct keys `at` |
| `available`, `unavailable` | the two deques of connections |
| `manager`, `toCheck`, `deadline`, `noConnections` | control state of `ManagerThread`, rest of the loop over busy connections, time of `wait_for`, `isNoConnectionsAvailable` |
| `isResume`, `isTerminate` | `isResumeThread`, `isTerminateThread` |
| `thread`, `job`, `status`, `isNew`, `isStopping` | per connection: control state, message with its trials, `status.code`, `isNewMessageReceived`, `isTerminateThread` |
| `callbacks` | running futures of `finishedSendingCallback` |
| `accepted`, `overwritten`, `reported`, `outcome`, `lastReport` | history |

One action is one critical section. The manager mutex is held from the wake-up
of the manager to the end of its pass (`ManagerMutexFree`), so a pass is a
sequence of actions `WakeUp`, `SkipConnection` or `RegainConnection` for each busy
connection, and one of `NothingDue`, `NoneAvailable`, `SendNextDueMessage`,
between which connection threads run but clients and callbacks do not.
`GatewayReturns` covers the three ways a call of the gateway ends (success,
`std::domain_error`, another exception). `ThreadFails` and the second branch of
`RegainConnection` are the exceptions that end a thread. The order of the
destruction is that of the members: the busy connections, then the others.
**AlarmDelivery** is what a caller is promised: a message that was accepted is
reported once per trial, is retried fewer times than the limit, and its final
report is success, a fatal failure or a timeout.

**SequenceProcessing** models what happens to a detected sequence in three
threads: `CPrivImplementation::MainThread` gives it to `CSequencePasser` and then
to `CAudioSignalPreserver`; the passer calls `BasicSequenceProcessing`, the
preserver `OnRecordedData`, and both meet in the blacklist.

| state | code |
|---|---|
| `audio`, `heard`, `kept` | time of the newest sample given to the preserver, newest and oldest sample in `localRecordedTime` |
| `fresh` | sequences between the two calls of the main thread |
| `queue`, `copy`, `passer` | `foundSequences`, `sequenceCopy`, control state |
| `last`, `blacklist` | `lastSequence`, `sequencesBlacklist` |
| `incoming`, `pending`, `toScan`, `recorder` | `captureSequenceRecords`, `localCaptureSequenceRecords`, rest of the loop, control state |
| `detected`, `announced`, `suppressed`, `recorded`, `cut` | history |

Time is the time of the audio, one tick per sample. The search is the
environment: it finds sequences with distinct, growing starts, several at
once, at most `MaxDelay` after they start. `PasserLag` and `RecorderLag` bound how
long the two threads may take; large values take the bounds away. The start
times count from 1; `RecordFrom`, `RecordUntil` and `Buffer` are the limits given to
`SetParameters`. A failing `Save` ends the preserver (`RecorderFails`), so does a
sequence without audio (`ComeTooLate`); exceptions of `Send` are caught there, in
the passer only two of them are (`PasserFails` is the rest).
**AlarmLifecycle** is what a detector promises of a sequence: decided once,
recorded only after it raised an alarm.

Left out of SequenceProcessing: exceptions of the callback for recorded data
(they end the preserver after the message was sent), spurious wake-ups
(they only start a pass earlier), resetting the parameters and stopping the
threads.

**AudioInput** models `CAudioSignalReader` and the start and stop of
`CPrivImplementation`: the capturing thread, the main thread, and callers that
start, stop and change the device from several threads.

| state | code |
|---|---|
| `reader`, `terminate` | control state of `ReadAudioInputThread` (`"none"`: not joinable), `isTerminateThread` |
| `unsynced`, `queue`, `taken` | `newInputSignal`, `inputSignal` of the reader, `inputSignal` of `MainThread`, in blocks |
| `main`, `interrupted` | control state of `MainThread` (`"none"`: `threadMain` is null), its interruption |
| `caller` | control state of each caller |
| `captured`, `analysed`, `lost`, `dropped`, `reported`, `starts`, `clean`, `stopped`, `calls`, `failures` | history and bounds |

Nothing is stored for the five mutexes: who has one follows from the control
states (`MainMutex`, `ThreadMutex`, `ParameterMutex`, `ReaderHasParameters`,
`MainHasParameters`; that of the queue is taken while `main = "copying"`), and
`LocksAreExclusive` checks it. `missedAttempts` is the length of `unsynced`. A
reader that exceeds the length of the queue ends after it has stored the
blocks; an ended thread exists until it is joined. A call of `SetAudioDevice`
stops the reader if there is one and does not start it again.

Left out of AudioInput: `IsReading`, setting all parameters, a device that
refuses the new parameters (the call throws at its end), and the destructors,
which call the modelled stops.

**AlarmMessageDatabase** models `CAlarmMessageDatabase` with the datasets
(`CAlarmValidities`) it holds, **AlarmValidities** what a validity means
(`CSingleTimeValidity`, `CMonthlyValidity`, `CWeeklyValidity` and the conversion of
local time), and **AlarmLookup** what a search promises: the messages whose entries
are valid when the local clock shows the time of the alarm, said without
months, periods and caches.

| state | code |
|---|---|
| `data` | `alarmDatabase` for each code, `allCodesAlarms` ("all"), `fallbackAlarms` ("fallback"): sequences of a validity with its messages |
| `cache` | `lastCalculatedMonth`, and the messages calculated for it: those by default and the periods of the exceptions |
| `answer` | history: what the last search returned or threw (`found` false) |

Each method that changes the database is an action and makes the month void;
`Search` calculates the month of the alarm anew if needed. A calendar is a
parameter: lengths of months, days and weeks, and the two changes of the
clock. `LocalToUTC` chooses the first of two equal hours and the end of the gap
in spring, as the code does; "last" is the fifth weekday of a month and falls
back to the fourth. A period of length zero does not exist. The lookup counts
an hour that comes twice until it has passed for the first time, which is what
the conversion of the limits of a period amounts to.

**AlarmGateways** composes the settings, the login database and the gateways
manager: what a client sets, what a runtime copies, and what Send makes of it.

| state | code |
|---|---|
| `client` | a `CGatewayLoginDatabase` of the client: `gatewayDatabase`, `loginDatabase`, by their types |
| `settings`, `params` | `CSettingsParam` of the client and the copy of the runtime: functionality and recording set, default recording, logins, alarms, whitelist |
| `running`, `managers` | is there a runtime, keys of `connectionManagers` |
| `alarms`, `ignored`, `changes` | history and bound |

`Send` queues one message after the other, so an error leaves any part of them
queued (`Queued`); errors are a login that is missing (a runtime error, which ends
the passer) and a manager that is missing (out of range, which counts as not in the
database). The search is any selection of the stored messages: which one is the
business of AlarmMessageDatabase. The managers are ConnectionManager.

**SequenceTransfer** models the client and the server for sequences.

| state | code |
|---|---|
| `phase`, `item`, `again` | of a client: where its io_service is, the sequence, what the last Run returned |
| `iterator`, `endpoint`, `isValid` | `hostEndpointIt`, `hostEndpoint` or the iterator given to `HandleConnect`, `isValidEndpoint` |
| `conn` | every connection: owner, state of the client's side, pieces sent and read, state of its `CFMESession` at the server |
| `server`, `stopped`, `accepting`, `open` | `isInit` and `isRunning`, the stopped io_service, pending `async_accept`, open acceptor |
| `undefined` | a handler was called for a session that is destroyed |
| `requested`, `unprepared`, `interrupted` | history: Stop was called since Run returned last; that Run had no Init before it; a Run was ended by Stop or an exception |

A handler is an action, since each io_service calls its handlers in one
thread. Messages are a header and pieces, read in any portions; strangers send a
bad header, or data of the wrong length or that cannot be decoded, or nothing (which
of these it is shows when the header is read).
The client is modelled with one Send for each Run. `StopAll` destroys the sessions
of a server while their handlers stay in the io_service, to be called by the
next Run with a pointer to a destroyed session: that is undefined, and the
model stops there (`undefined`), since every continuation is possible. A session
that ends by itself leaves no handler, so this needs a Run that was ended by Stop or by an
exception (`StaleNeedsInterruption`).

The end of Run is modelled as it is written. io_service::run returns when it is stopped
or out of work, and is stopped in both cases, or an exception leaves it
(`AcceptThrows`: `set_option` of `StartRead` on a connection that is broken already). Then
`Cleanup` closes the acceptor, destroys the sessions and resets the io_service.
Run asks only whether Init was ever called; called again without Init it finds the
acceptor closed, `acceptor.cancel()` throws, and nothing after it is executed
(`CleanupThrows`): the io_service stays stopped. `RunServes` says that this and Stop are the
only reasons for a Run that returns at once.

**SignalSearch** models how tones and sequences are found: the analysis thread
puts spectra and tones, `CToneSearch` works on steps of two streams, and
`CFMESequenceSearch` on windows of neighbouring tones.

| state | code |
|---|---|
| `signal` | what is heard, in fine spectra |
| `fine`, `coarse` | `timeCalc`, `peaks` and `timeCalcCoarse`, `peaksCoarse`: how many spectra were put, copied by the thread, erased by it |
| `toneThread`, `isEnoughData`, `oldTones`, `tones` | control state of `SearchTonesThread`, its flag, the set of tones that are not finished, result |
| `given`, `read`, `erased`, `codeThread` | tones put, copied and erased of `SearchFullSequencesThread`, its control state |
| `last`, `foundCodes` | `lastCode` with `calcStartTimeLast`, result |

The streams are never reordered, so a container is an interval of numbers. A
spectrum has at most one peak, as params.dat configures it. Times are numbers of
spectra, so the comparisons are exact. The tones of a step are a set, which
`Sorted` puts in the order of their starts, as the code does before it hands them
on. `TonesAreRuns` says what the tones are, levels included. `ReportsAreExact` says
that starts grow, which SequenceProcessing assumes of its environment.

## Runs

| run | instance | shows |
|---|---|---|
| cm | 2 messages, 1 connection, 2 trials, equal clock readings, 1 failure, fair | the inductive invariant; every message in one place; trials counted and bounded; a message is given only to an idle connection; no wake-up lost; reports final and retries spaced (action properties); AlarmDelivery implemented; every message that is not displaced gets its final report unless a thread fails or the manager is destroyed; the destruction ends |
| cm_displaced | as cm, no failure | violated: a message is replaced in the queue by another one with an equal key |
| sp_timely | 2 codes, one of them allowed, 2 sequences, delays within the limits, 1 failure | the inductive invariant; suppressed sequences stay silent; recordings complete; AlarmLifecycle implemented |
| sp_late | 2 codes, 3 sequences, any delay, no buffer, 1 failure, fair | whatever the delays: no sequence is lost or decided twice, equal alarms are apart, every sequence is decided, and every alarm is recorded unless an exception ends the preserver, which is also what a recording that comes too late does |
| sp_repetition | 2 codes, 3 sequences | violated: after A, B a second A raises an alarm within the minimum distance |
| ai | 2 callers, queue of 2 blocks, 2 attempts, 3 blocks told apart, 4 calls, 1 failure, fair | the inductive invariant; every block in one place and in order; queue and loss at a stop bounded; no thread is left after a stop; every call returns; a captured block is analysed or accounted for, or the main thread ends |
| ai_running | 2 callers, 2 calls, 1 failure | violated: `IsRunning` is true although the main thread has ended by an exception |
| db | 2 codes, 2 messages (one empty), 5 validities, 2 changes, 9 times of alarms in 4 short months | the cache is current; entries by default exist and no validity twice; AlarmLookup implemented |
| transfer | 1 client, 2 endpoints, 2 connections, 2 sequences, 2 runs of the server after an Init and any without, 1 failure, fair | each sequence signalled at most once; handlers of destroyed sessions only after Stop or an exception; a Run serves unless it was told to stop or follows one without Init; all endpoints tried; calls return; what was transmitted is signalled |
| search | 216 signals of 32 spectra, 3 tones per sequence, fair | tones are those of the whole signal; reports exact, in order; all of the signal searched |
| gateways | 2 gateways, 2 codes, 4 messages, 4 databases, 5 changes, 2 alarms | every message of an alarm queued; the whitelist is that of the databases |
| gateways_protocol | as gateways, 4 changes | violated: a code that is not listed is recorded with default recording off |

Bounds. Two messages are enough for the conflicts of ConnectionManager: two
messages for one key or one connection, a message that waits while the
connection works, fails or is regained; a retry and the last trial need two
trials. The proofs cover any number of connections. In SequenceProcessing two sequences are enough
for a repetition, for two recordings that overlap, for one that is found while
the audio of the other is thrown away, and for an entry of the blacklist that
the next sequence removes (in sp_timely starts are up to 5 apart, and an entry is
removed by a sequence more than 4, twice the longer limit, after it); three are needed for A, B, A. `MaxClock`, `MaxTime`,
`MaxFailures`, `MaxSequences` bound the counters; after `MaxTime` samples still arrive,
and wake the preserver up, but are not counted, and sequences start early
enough to be recorded by then and are found before. In AudioInput two callers are enough for each pair
of calls at once; four calls allow two stops of a reader that was started
twice; with two attempts the reader keeps one block and is forced to wait for
the queue with the second, and a queue of two blocks overflows by one.
Blocks after the third are not told apart, so the threads go on for ever.

In AlarmMessageDatabase a month of eight or nine days of four hours has every
case of the calendar: a day that only one month has, a fifth weekday, exceptions
that pass midnight and the end of a month (of UTC, one hour later), the missing and the
double hour. The times of alarms lie at these borders. Two changes from an
empty or a full database, with searches in between, are every way in which a
change can meet a kept month. In SequenceTransfer the client has one endpoint
that does not listen before the one that does; two connections are a client
that repeats, or a client and a stranger; two runs of the server let a handler of
the first survive into the second; runs without Init, which dispatch next to
nothing, are not counted, so one of them may come between the two. In SignalSearch a sequence has three tones
instead of five and a step five fine spectra, so every tone meets every
position in a step; the calls are of each length from too short to too long, with and
without a pause, quiet or not, repeated at once or after others, within and
beyond the limit; spectra come at once or in portions of 11 and 4. In
AlarmGateways five changes reach a runtime with any database by the setters in any order
or by loading, with a login added and removed.

The timing of sp_timely is a premise, not a result: nothing in the code makes
the passer decide before the recording of the same sequence ends. If it takes
longer, the preserver finds no entry in the blacklist, and stores and sends
the audio of a sequence that is suppressed afterwards. Named parts of the premise
(`Timely`): a sequence is found before its audio leaves the buffer, it is passed before its
recording ends, and it is recorded before the blacklist forgets it.

Deadlock is checked in sp_late, sp_repetition and search. It is not in the
runs of ConnectionManager, where a manager that has ended stops, nor in
sp_timely, whose bounds on the delays may stop the clock of the model, nor in
those of AudioInput and SequenceTransfer, which rest when the threads have
ended and all calls are made; there `EveryCallReturns` and `ClientReturns` say that no caller is
stuck. The database and the gateways stop when their changes are used up.

Fairness. In ConnectionManager the threads and callbacks are weakly fair, as a
thread that can run does so, a gateway call returns (all gateways have
timeouts), and time passes; nobody has to add messages, to destroy the
manager, or to fail. In SequenceProcessing the three threads are weakly fair
and the audio device goes on delivering samples. That is what the recording
relies on: the preserver waits without a condition and may miss a
notification, and only the next samples wake it up. In AudioInput the threads
and the calls that have begun are weakly fair, nobody has to begin a call or to
fail, and `ForceSynchronization` is strongly fair: the main thread releases the
mutex of the queue in every cycle and sleeps (`mainThreadCycleTime`) before it takes
it again, so a reader that waits for it gets it. With weak fairness there
the reader could lose that race in every cycle. In SequenceTransfer the handlers
of each connection, the client's Run and the end of the server's Run are
weakly fair, as an io_service calls what is ready; nobody has to send, connect,
start or stop. In SignalSearch both threads and the analysis thread are weakly
fair; the latter goes on with silence after the signal, which wakes the tone
search up again.

## Proofs

**ConnectionManager_proofs** proves, for all messages, connections, limits and
clock drifts, that `IInv` is an invariant of `Spec`, and from it every safety
property of cm, the two action properties and the refinement of
AlarmDelivery. `IInv` adds to the properties what makes them inductive: the
connections are partitioned into the two deques except while a pass moves
them, the state of a thread follows the status of its message, a retry in the
queue lies in the future of its last report, and a wake-up is pending whenever
the manager should not sleep. There is one lemma per group of conjuncts and one
step per action. The assumption on the constants is the one in the module.

**SequenceProcessing_proofs** proves two layers. Whatever the delays (`Invariant`):
types, the order of starts in all queues, that no sequence is forgotten, and
that `last` is the latest sequence decided on, which makes `AlarmsAreApart`
inductive together with the alarm accepted but not yet announced. Under `Timely`, a premise on the
constants (`TimelyInvariant`): both threads are in time; a suppressed sequence
that may still be recorded is on the blacklist, since an entry is only deleted
at a sequence more than twice `DeleteTimespan` later and by then its recording is
done; a sequence whose recording starts has been decided on, since its audio ends after the
passer had to decide; the oldest sample kept is early enough for every sequence
known or still to be found. From this follow `SuppressedStaysSilent`,
`RecordingsAreComplete` and the refinement of AlarmLifecycle. TLC checks `TimelyInv`,
which contains `IInv`, in sp_timely.

**AudioInput_proofs** proves `IInv` for any number of callers, any limits and any
number of blocks, calls and failures, and from it the four safety properties
of ai. It adds that a thread which does not run has no blocks
(`ReaderIsBounded`, `TakenIsProcessed`), so that one that is started again begins
with none; that a stop which no start overlaps has already joined the reader
when it waits for the main thread (`CleanStops`); and the bounds count the readers
that have ended instead of those started. Lemmas on sequences say what becomes
of the blocks when the stream is extended, or its front or its end is taken
away.

**AlarmMessageDatabase_proofs** proves that the cache is current, which is
inductive as it stands since every change makes the month void, that the
datasets are complete (lemmas on sequences say what adding an entry,
extending one and removing one at its position do to the entry by default
and to the validities), and with both that the database implements AlarmLookup
(`LookupImplemented`): a search, which looks into periods of UTC kept for a month,
finds what is valid when the local clock shows the time of the alarm. Along
this argument:

- The conversion of a local time is the first UTC time at which the clock has shown
  it or a later one (`ConversionIsClock`), so it grows with the local time, and an alarm
  lies in a period exactly when the clock is within it (`WithinIsPeriod`). The
  gap and the hour that comes twice are part of this.
- The n-th weekday of a month, computed from its first day, is the day of which
  AlarmLookup counts the weeks (`WeekdayIs`, `WeeklyDays`), the last one included.
- Days ahead or behind by more than a month do not reach into the month
  searched (`OnlyNear`), so the three months around it are enough.
- The periods of a validity are in order, do not overlap, and are repeated only
  next to each other (`RepeatedPeriodsAre`). Once the repetitions are removed a time lies in
  one of them at most (`UniqueAscends`, `OneHolds`), and an entry contributes its messages once or not at all (`HeldOfEntry`).
- By induction over the entries, the exceptions of a dataset that hold are its valid
  entries in order (`DatasetAgrees`); entries by default are alone
  (`DefaultsAre`), and the fallback is chosen alike (`FoundIsAnswer`).

The theorem has the hypothesis `ValiditiesInOrder`: weekly validities name their
weeks in the order of the month, monthly ones no month twice. Without it the
statement is false: `std::unique` removes neighbours only, and a message is
found twice (see below). TLC evaluates it in MCAlarmMessageDatabase.
The assumptions on the constants are those of the modules: what is set
or assigned is a dataset itself; months have four to five weeks, days more than
two hours; validities are what their setters accept; and there is another month
before and after every alarm.

**InductionLemmas** holds what this proof and that of SignalSearch share: induction
over numbers, finite sets and sequences with a set in place of the predicate, and what
the concatenation of a list of lists is (the library defines it by a recursive
function).

**AlarmGateways_proofs** proves `IInv`, defined there: the settings of the client and
the runtime's copy have a gateway for each type of their messages and the
whitelist of their own databases (whichever part was set last); a running runtime has
a login and a manager for each gateway; and an alarm has queued what the
properties say. From it follow both properties of gateways.

**SequenceTransfer_proofs** proves, for all clients, endpoints, connections and
numbers of pieces, every safety property of transfer. `IInv` adds: a client that
knows no good endpoint asks them in order, from the first (`EndpointsInOrder`), and one that has
started to write knows one; there is room for the connection of every client that
connects, counted over all of them (`RoomIsKept`); the server signals only what it
has read to the end (`FoundIsComplete`); and a sequence is sent again only when
all earlier connections with it are dead, that is, reset before the last
piece was sent (`RepeatedWhenDead`). The last one is why repeating is safe
(`FoundOnce`): a client that has written everything does not repeat, and a
dead connection can no longer be completed. That is `ClientInv`; `ServerInv` is about the
server: a session reads only while Run has the acceptor open; if Run then will dispatch no
more, Stop was called, and if it has ended, that was Stop or an exception; outside
the end of Run the io_service is stopped only by Stop or by a clean-up that threw. So the
sessions that `StopAll` leaves with a handler stem from an interrupted Run
(`StaleHandlers`), and a Run that was prepared and not stopped serves (`Serves`). `AllTried` proves the action property
`FailureTriedAll`.

**SignalSearch_proofs** proves both safety properties of search, for any signal, any
lengths, thresholds and ratio of the streams and any portions. Its parts:

- The tones of a signal are its runs of loud spectra; a signal cut in two has the
  runs of both parts, except that a run over the cut joins the last one of
  the first part and the first of the second (`RunsOfBoth`).
- A spectrum heard in the coarse stream confirms a fine peak near it. What a step still
  has of both streams decides that like the whole signal does (`StepTonesAreRuns`):
  the coarse spectra that were erased are too early for any fine spectrum still to be
  searched, and those that are needed have been put (`StreamsOK`).
- So the tones found and the unfinished ones are the runs of what was searched
  (`TonesOK`, from which `TonesAreFound`).
- A window of neighbouring tones is a call of the whole list or not, each window is
  searched once (`WindowsOK`), and `lastCode` with its start is the last
  report made (`ReportsOK`); from which `SequencesAreReported`.

Sorting is unique by counting smaller elements (`RankIsPlace`). Facts about all
elements of a finite set are proved by taking a least counterexample.

The inductive invariants of all of these proofs were checked by TLC on the instances
of the runs before they were proved.

Only model-checked: liveness, since fairness and ENABLED are out of the reach of the
prover. Every safety property and every refinement of a passing run is proved.

## What the models show of the code

Four statements of the documents do not hold, each with a run that shows it
(cm_displaced, sp_repetition, ai_running, gateways_protocol). Beside them:

- Weeks of a `CWeeklyValidity` that are not in the order of the month, for
  example last, first, fourth, give the same period twice where the fourth is the last one,
  since `std::unique` removes only neighbours; the message is then sent
  twice.
- A server that is stopped and run again may call the handlers of sessions it has
  destroyed (`undefined` in SequenceTransfer). After a failed accept it waits for
  no further client, and a client that has broken its connection before it is accepted
  can end the Run by an exception.
- `CFMEServer::Run` called again without Init throws at `acceptor.cancel()`
  (`FMEServer.cpp:186`) instead of reporting that Init is missing; the sessions are not
  stopped and the io_service is not reset, so the Run after the next Init returns at once.
- A client may be told of a success whose sequence never arrives: the
  connection breaks after the system has taken the data. Nothing acknowledges a
  sequence. It is never told of a failure after the whole sequence was written, so
  repeating is safe (`FoundOnce`).
- `CGatewayLoginDatabase::Remove` keeps the gateway, so settings with such a
  database are accepted, and the runtime throws when it is constructed, though
  `ResetGatewayLoginDatabase` is documented to throw nothing; no alarm is
  sent half-way.
- `~CExecutionDetectorRuntime` stops the reader and the main thread; its members are
  then destroyed in reverse order, so the audio plugin, the directory and the
  callback go before the audio input, whose destruction joins the preserver thread. A
  recording that is being stored meanwhile uses destroyed objects. (Read from
  the code; the models keep the runtime alive.)
- The tone search can miss a notification while it finds a stream too short; it
  goes on with the next spectra.

## Plan

1. Done: ConnectionManager with AlarmDelivery, SequenceProcessing with
   AlarmLifecycle, AudioInput, AlarmGateways, AlarmMessageDatabase with
   AlarmLookup, SequenceTransfer, SignalSearch: checked and proved.
2. Parameters and stop of the passer, the preserver and the search
   (`SetParameters` of the audio input), as far as they differ from AudioInput.
3. The destruction of the detector runtime, with the threads of the passer and the
   preserver still at work.

## Not modelled

The signal processing (filters, Fourier transform, search for frequencies,
sampling rates) computes with floating point numbers, and the tests of the
repository compare it with recordings. The gateways (mail, alarming service,
external program), the audio device and the audio plugins wrap libraries; what
their callers rely on, that a call ends in one of three ways, is part of
ConnectionManager. The XML classes convert records one by one and the
database, validities and settings they fill are modelled. The console
program is output around one flag and a condition variable. The generation of
test signals, version and status records, and the parameters of the analysis
have no behaviour over time.
