--------------------------- MODULE ConnectionManager ---------------------------
(***************************************************************************)
(* One gateway's connection manager and its connection threads             *)
(* (src/Networking/ConnectionManager.cpp, ConnectionThread.cpp).           *)
(*                                                                         *)
(* Clients add alarm messages to a queue that is a std::map keyed by the   *)
(* time at which an entry is due.  The manager thread regains finished     *)
(* connections, requeues what failed without being fatal, and hands one    *)
(* due message per pass to an idle connection thread, which calls the      *)
(* gateway.  One action is one critical section of managerThreadMutex, or  *)
(* one step of a connection thread between two of its locks.               *)
(*                                                                         *)
(* Abstracted: the contents of a message, its login and its audio file     *)
(* (a message is an element of Messages); the order of the two deques of   *)
(* connections (which idle connection is taken, and in which order the     *)
(* busy ones are looked at, is left open).                                 *)
(***************************************************************************)
EXTENDS Integers, FiniteSets

CONSTANTS
  Messages,      \* the messages clients may add
  Connections,   \* the connection threads (maxNumConnections of them)
  MaxTrials,     \* numTrials of the login
  TimeDist,      \* timeDistTrial of the login, in clock ticks
  DistinctKeys,  \* TRUE: no insertion computes a key that is in the queue
  Drift,         \* bound: how far the clock may move while a key is computed
  MaxClock,      \* bound: idle time stops here
  MaxFailures,   \* bound: exceptions that kill a thread
  NoMessage      \* the message of a connection that never sent one

ASSUME ConnectionManagerAssumption ==
  /\ MaxTrials \in Nat /\ TimeDist \in Nat
  /\ Drift \in Nat /\ MaxClock \in Nat /\ MaxFailures \in Nat
  /\ DistinctKeys \in BOOLEAN
  /\ NoMessage \notin Messages

VARIABLES
  clock,          \* steady_clock::now()
  queue,          \* messageQueue, a set of [at, msg, trials], one per key
  available,      \* availableConnections
  unavailable,    \* unavailableConnections
  manager,        \* where the manager thread is
  toCheck,        \* connections RegainFinishedConnections has yet to visit
  deadline,       \* until when the manager sleeps, NoDeadline for ever
  noConnections,  \* isNoConnectionsAvailable
  isResume,       \* isResumeThread
  isTerminate,    \* isTerminateThread
  thread,         \* where each connection thread is
  job,            \* message and numTrials of each connection
  status,         \* status.code of each connection
  isNew,          \* isNewMessageReceived of each connection
  isStopping,     \* isTerminateThread of each connection
  callbacks,      \* launched finishedSendingCallbacks that have not run yet
  failures,       \* exceptions that have killed a thread so far
  accepted,       \* history: messages whose AddMessage has returned
  overwritten,    \* history: messages displaced from the queue by a key
  reported,       \* history: how many status reports each message had
  outcome,        \* history: the final report of each message
  lastReport      \* history: when the latest report of each message was made

managerVars == <<manager, toCheck, deadline, noConnections>>
connVars == <<thread, job, status, isNew, isStopping>>
history == <<accepted, overwritten, reported, outcome, lastReport>>
vars == <<clock, queue, available, unavailable, managerVars, isResume,
          isTerminate, connVars, callbacks, failures, history>>

NoDeadline == -1
Final == {"SUCCESS", "FATAL_FAILURE", "TIMEOUT_FAILURE"}
GatewayResult == {"SUCCESS", "NONFATAL_FAILURE", "FATAL_FAILURE"}

TypeOK ==
  /\ clock \in Nat
  /\ queue \subseteq [at : Nat, msg : Messages, trials : Nat]
  /\ available \subseteq Connections
  /\ unavailable \subseteq Connections
  /\ manager \in {"top", "waiting", "regain", "ended"}
  /\ toCheck \subseteq Connections
  /\ deadline \in Nat \cup {NoDeadline}
  /\ noConnections \in BOOLEAN
  /\ isResume \in BOOLEAN
  /\ isTerminate \in BOOLEAN
  /\ thread \in [Connections -> {"waiting", "sending", "signalling", "ended"}]
  /\ job \in [Connections -> [msg : Messages \cup {NoMessage}, trials : Nat]]
  /\ status \in [Connections -> GatewayResult \cup {"NONE", "IN_PROCESSING"}]
  /\ isNew \in [Connections -> BOOLEAN]
  /\ isStopping \in [Connections -> BOOLEAN]
  /\ callbacks \in [Connections -> Nat]
  /\ failures \in Nat
  /\ accepted \subseteq Messages
  /\ overwritten \subseteq Messages
  /\ reported \in [Messages -> Nat]
  /\ outcome \in [Messages -> Final \cup {"none"}]
  /\ lastReport \in [Messages -> Nat]

Init ==
  /\ clock = 0
  /\ queue = {}
  /\ available = Connections
  /\ unavailable = {}
  /\ manager = "top"
  /\ toCheck = {}
  /\ deadline = NoDeadline
  /\ noConnections = FALSE
  /\ isResume = FALSE
  /\ isTerminate = FALSE
  /\ thread = [c \in Connections |-> "waiting"]
  /\ job = [c \in Connections |-> [msg |-> NoMessage, trials |-> 0]]
  /\ status = [c \in Connections |-> "NONE"]
  /\ isNew = [c \in Connections |-> FALSE]
  /\ isStopping = [c \in Connections |-> FALSE]
  /\ callbacks = [c \in Connections |-> 0]
  /\ failures = 0
  /\ accepted = {}
  /\ overwritten = {}
  /\ reported = [m \in Messages |-> 0]
  /\ outcome = [m \in Messages |-> "none"]
  /\ lastReport = [m \in Messages |-> 0]

-----------------------------------------------------------------------------
(* The queue.                                                              *)

\* managerThreadMutex is held from the wake-up of the manager thread to the
\* end of its pass.
ManagerMutexFree == manager # "regain"

\* begin( messageQueue ): the entry with the smallest key.
IsHead(e) == e \in queue /\ \A f \in queue : e.at <= f.at

\* The entry is erased from the map when its message is handed over.
TakeKeeps(e) == queue
Take(e) == queue \ {e}

\* messageQueue[key] = make_pair( m, trials ): an entry under the same key
\* is replaced.
Entry(key, m, trials) == [at |-> key, msg |-> m, trials |-> trials]

Insert(key, m, trials) ==
  {e \in queue : e.at # key} \cup {Entry(key, m, trials)}

Displaced(key) == {e.msg : e \in {f \in queue : f.at = key}}

\* A reading of the steady clock that a key now + delay is computed from.
ReadClock(now, delay) ==
  /\ now \in clock .. (clock + Drift)
  /\ DistinctKeys => \A e \in queue : e.at # now + delay
  /\ clock' = now

\* isResumeThread = true, then notify_all.
ResumeForgotten == UNCHANGED isResume
Resume == isResume' = TRUE

\* Time passes.  Beyond MaxClock it only does so while the manager has
\* something to wait for.
Tick ==
  /\ \/ clock < MaxClock
     \/ \E e \in queue : IsHead(e) /\ e.at > clock
  /\ clock' = clock + 1
  /\ UNCHANGED <<queue, available, unavailable, managerVars, isResume,
                 isTerminate, connVars, callbacks, failures, history>>

-----------------------------------------------------------------------------
(* Clients.                                                                *)

AddMessage(m) ==
  /\ ~isTerminate
  /\ m \notin accepted
  /\ ManagerMutexFree
  /\ \E now \in clock .. (clock + Drift) :
       /\ ReadClock(now, 0)
       /\ queue' = Insert(now, m, 0)
       /\ overwritten' = overwritten \cup Displaced(now)
  /\ Resume
  /\ accepted' = accepted \cup {m}
  /\ UNCHANGED <<available, unavailable, managerVars, isTerminate, connVars,
                 callbacks, failures, reported, outcome, lastReport>>

\* ~CConnectionManager up to the join of the manager thread.
BeginDestruction ==
  /\ ~isTerminate
  /\ ManagerMutexFree
  /\ isTerminate' = TRUE
  /\ Resume
  /\ UNCHANGED <<clock, queue, available, unavailable, managerVars, connVars,
                 callbacks, failures, history>>

-----------------------------------------------------------------------------
(* The manager thread.                                                     *)

GoToSleep ==
  /\ manager = "top"
  /\ manager' = "waiting"
  /\ IF queue # {} /\ ~noConnections
     THEN \E e \in queue : IsHead(e) /\ deadline' = e.at
     ELSE deadline' = NoDeadline
  /\ UNCHANGED <<clock, queue, available, unavailable, toCheck, noConnections,
                 isResume, isTerminate, connVars, callbacks, failures, history>>

WakeUp ==
  /\ manager = "waiting"
  /\ isResume \/ (deadline # NoDeadline /\ clock >= deadline)
  /\ isResume' = FALSE
  /\ IF isTerminate
     THEN manager' = "ended" /\ UNCHANGED toCheck
     ELSE manager' = "regain" /\ toCheck' = unavailable
  /\ UNCHANGED <<clock, queue, available, unavailable, deadline, noConnections,
                 isTerminate, connVars, callbacks, failures, history>>

\* Has the trial of a connection ended?
TrialOverByThread(c) == thread[c] # "sending"
TrialOver(c) == status[c] # "IN_PROCESSING"

\* Is the message of an ended trial put back into the queue?
MayRetryOnceMore(c) ==
  status[c] = "NONFATAL_FAILURE" /\ job[c].trials <= MaxTrials
MayRetry(c) == status[c] = "NONFATAL_FAILURE" /\ job[c].trials < MaxTrials

\* The key of a retry.
RetryAtOnce(now) == now
RetryAt(now) == now + TimeDist

\* The deque of busy connections without a regained one.
BusyKept(c) == unavailable
Busy(c) == unavailable \ {c}

\* The loop of RegainFinishedConnections finds a connection still at work.
SkipConnection(c) ==
  /\ manager = "regain"
  /\ c \in toCheck
  /\ ~TrialOver(c)
  /\ toCheck' = toCheck \ {c}
  /\ UNCHANGED <<clock, queue, available, unavailable, manager, deadline,
                 noConnections, isResume, isTerminate, connVars, callbacks,
                 failures, history>>

\* The message of a finished trial goes back to the queue.
Requeue(m, trials) ==
  \E now \in clock .. (clock + Drift) :
    /\ ReadClock(now, TimeDist)
    /\ queue' = Insert(RetryAt(now), m, trials)
    /\ overwritten' = overwritten \cup Displaced(RetryAt(now))
    /\ lastReport' = [lastReport EXCEPT ![m] = now]

NoRequeue(m) ==
  /\ lastReport' = [lastReport EXCEPT ![m] = clock]
  /\ UNCHANGED <<clock, queue, overwritten>>

\* The loop of RegainFinishedConnections finds a finished connection; the
\* status callback runs at the end of it, and an exception it throws ends
\* the manager thread.
RegainConnection(c) ==
  LET m == job[c].msg
      again == MayRetry(c)
  IN
  /\ manager = "regain"
  /\ c \in toCheck
  /\ TrialOver(c)
  /\ toCheck' = toCheck \ {c}
  /\ unavailable' = Busy(c)
  /\ available' = available \cup {c}
  /\ IF again THEN Requeue(m, job[c].trials) ELSE NoRequeue(m)
  /\ reported' = [reported EXCEPT ![m] = @ + 1]
  /\ outcome' = [outcome EXCEPT ![m] =
                   IF again THEN @
                   ELSE IF status[c] = "NONFATAL_FAILURE" THEN "TIMEOUT_FAILURE"
                   ELSE status[c]]
  /\ \/ UNCHANGED <<manager, failures>>
     \/ /\ failures < MaxFailures
        /\ failures' = failures + 1
        /\ manager' = "ended"
  /\ UNCHANGED <<deadline, noConnections, isResume, isTerminate, connVars,
                 callbacks, accepted>>

\* CConnectionThread::SendMessage, called by the manager.  It waits for the
\* messageProcessingMutex, which a thread holds while it sends and signals.
SendMessage(c, m, trials) ==
  /\ thread[c] \in {"waiting", "ended"}
  /\ job' = [job EXCEPT ![c] = [msg |-> m, trials |-> trials + 1]]
  /\ status' = [status EXCEPT ![c] = "IN_PROCESSING"]
  /\ isNew' = [isNew EXCEPT ![c] = TRUE]
  /\ UNCHANGED <<thread, isStopping>>

\* SendNextDueMessage, the end of the manager's pass.
NothingDue ==
  /\ manager = "regain" /\ toCheck = {}
  /\ \A e \in queue : e.at > clock
  /\ noConnections' = FALSE
  /\ manager' = "top"
  /\ UNCHANGED <<clock, queue, available, unavailable, toCheck, deadline,
                 isResume, isTerminate, connVars, callbacks, failures, history>>

NoneAvailable ==
  /\ manager = "regain" /\ toCheck = {}
  /\ \E e \in queue : e.at <= clock
  /\ available = {}
  /\ noConnections' = TRUE
  /\ manager' = "top"
  /\ UNCHANGED <<clock, queue, available, unavailable, toCheck, deadline,
                 isResume, isTerminate, connVars, callbacks, failures, history>>

SendNextDueMessage(c) ==
  /\ manager = "regain" /\ toCheck = {}
  /\ c \in available
  /\ \E e \in queue :
       /\ IsHead(e)
       /\ e.at <= clock
       /\ queue' = Take(e)
       /\ SendMessage(c, e.msg, e.trials)
  /\ available' = available \ {c}
  /\ unavailable' = unavailable \cup {c}
  /\ noConnections' = FALSE
  /\ manager' = "top"
  /\ UNCHANGED <<clock, toCheck, deadline, isResume, isTerminate, callbacks,
                 failures, history>>

-----------------------------------------------------------------------------
(* A connection thread.                                                    *)

ThreadWakeUp(c) ==
  /\ thread[c] = "waiting"
  /\ isNew[c]
  /\ isNew' = [isNew EXCEPT ![c] = FALSE]
  /\ thread' = [thread EXCEPT ![c] =
                  IF isStopping[c] THEN "ended" ELSE "sending"]
  /\ UNCHANGED <<clock, queue, available, unavailable, managerVars, isResume,
                 isTerminate, job, status, isStopping, callbacks, failures,
                 history>>

\* connection->Send returns or throws, and the status is written.
GatewayReturns(c, result) ==
  /\ thread[c] = "sending"
  /\ status' = [status EXCEPT ![c] = result]
  /\ thread' = [thread EXCEPT ![c] = "signalling"]
  /\ UNCHANGED <<clock, queue, available, unavailable, managerVars, isResume,
                 isTerminate, job, isNew, isStopping, callbacks, failures,
                 history>>

\* async( launch::async, finishedSendingCallback ), then back to the wait.
LaunchCallback(c) ==
  /\ thread[c] = "signalling"
  /\ callbacks' = [callbacks EXCEPT ![c] = @ + 1]
  /\ thread' = [thread EXCEPT ![c] = "waiting"]
  /\ UNCHANGED <<clock, queue, available, unavailable, managerVars, isResume,
                 isTerminate, job, status, isNew, isStopping, failures, history>>

\* An exception that is no std::exception leaves the gateway, or the launch
\* of the callback fails: the outer handler ends the thread.
ThreadFails(c) ==
  /\ thread[c] \in {"sending", "signalling"}
  /\ failures < MaxFailures
  /\ failures' = failures + 1
  /\ thread' = [thread EXCEPT ![c] = "ended"]
  /\ UNCHANGED <<clock, queue, available, unavailable, managerVars, isResume,
                 isTerminate, job, status, isNew, isStopping, callbacks, history>>

OnConnectionFinished(c) ==
  /\ callbacks[c] > 0
  /\ ManagerMutexFree
  /\ callbacks' = [callbacks EXCEPT ![c] = @ - 1]
  /\ Resume
  /\ UNCHANGED <<clock, queue, available, unavailable, managerVars, isTerminate,
                 connVars, failures, history>>

\* ~CConnectionThread has returned: the thread is joined and the futures of
\* its callbacks are ready.
Gone(c) == isStopping[c] /\ thread[c] = "ended" /\ callbacks[c] = 0

\* After the join of the manager thread its members are destroyed, the busy
\* connections first, one connection after the other.
DestroyConnection(c) ==
  /\ isTerminate /\ manager = "ended"
  /\ ~isStopping[c]
  /\ thread[c] \in {"waiting", "ended"}
  /\ \A d \in Connections : isStopping[d] => Gone(d)
  /\ c \in available => \A d \in unavailable : isStopping[d]
  /\ isStopping' = [isStopping EXCEPT ![c] = TRUE]
  /\ isNew' = [isNew EXCEPT ![c] = TRUE]
  /\ UNCHANGED <<clock, queue, available, unavailable, managerVars, isResume,
                 isTerminate, thread, job, status, callbacks, failures, history>>

-----------------------------------------------------------------------------

ManagerNext ==
  \/ GoToSleep
  \/ WakeUp
  \/ NothingDue
  \/ NoneAvailable
  \/ \E c \in Connections :
       SkipConnection(c) \/ RegainConnection(c) \/ SendNextDueMessage(c)

ThreadNext(c) ==
  \/ ThreadWakeUp(c)
  \/ \E result \in GatewayResult : GatewayReturns(c, result)
  \/ LaunchCallback(c)

Next ==
  \/ Tick
  \/ \E m \in Messages : AddMessage(m)
  \/ BeginDestruction
  \/ ManagerNext
  \/ \E c \in Connections :
       ThreadNext(c) \/ ThreadFails(c) \/ OnConnectionFinished(c)
         \/ DestroyConnection(c)

\* Every thread that can run does so in the end, a gateway call returns, and
\* time passes while an entry waits for it; nobody has to add a message, to
\* destroy the manager or to fail.
Fairness ==
  /\ WF_vars(Tick)
  /\ WF_vars(ManagerNext)
  /\ \A c \in Connections :
       /\ WF_vars(ThreadNext(c))
       /\ WF_vars(OnConnectionFinished(c))
       /\ WF_vars(DestroyConnection(c))

Spec == Init /\ [][Next]_vars
FairSpec == Spec /\ Fairness

-----------------------------------------------------------------------------
(* Properties.                                                             *)

InQueue(m) == \E e \in queue : e.msg = m
InConnection(m) == \E c \in unavailable : job[c].msg = m
Finished(m) == outcome[m] # "none"

\* A message that was added is in exactly one place: once in the queue, with
\* one busy connection, finally reported, or displaced by another entry.  It
\* is neither duplicated nor forgotten by the moves between the map, the two
\* deques and the threads.
EachMessageInOnePlace ==
  /\ \A m \in Messages :
       /\ m \in accepted <=>
            InQueue(m) \/ InConnection(m) \/ Finished(m) \/ m \in overwritten
       /\ InQueue(m) => ~InConnection(m) /\ ~Finished(m) /\ m \notin overwritten
       /\ InConnection(m) => ~Finished(m) /\ m \notin overwritten
       /\ Finished(m) => m \notin overwritten
  /\ \A e, f \in queue : e.msg = f.msg => e = f
  /\ \A c, d \in unavailable : job[c].msg = job[d].msg => c = d

\* The trial numbers kept in the queue and in the connections agree with the
\* reports the caller got; no message has more trials than the login allows,
\* and it is given up only when all of them have failed.
TrialsAreCounted ==
  /\ \A e \in queue :
       /\ e.trials = reported[e.msg]
       /\ e.trials > 0 => e.trials < MaxTrials
  /\ \A c \in unavailable :
       /\ job[c].trials = reported[job[c].msg] + 1
       /\ job[c].trials > 1 => job[c].trials <= MaxTrials
  /\ \A m \in Messages :
       /\ reported[m] > 1 => reported[m] <= MaxTrials
       /\ outcome[m] = "TIMEOUT_FAILURE" => reported[m] >= MaxTrials

\* A connection the manager may hand a message to is not at work on another
\* one: its last trial is over and no message is waiting in it.
AvailableIsIdle ==
  \A c \in available :
    /\ c \notin unavailable
    /\ status[c] # "IN_PROCESSING"
    /\ thread[c] # "sending"
    /\ isNew[c] => isStopping[c]

\* While no thread has failed, a manager that sleeps without having been
\* resumed misses nothing: each finished trial still has its callback to
\* come, and it will wake up for the first entry of the queue, unless every
\* connection is busy.
NoLostWakeUp ==
  failures = 0 /\ manager = "waiting" /\ ~isResume =>
    /\ \A c \in unavailable : status[c] # "IN_PROCESSING" =>
         thread[c] = "signalling" \/ callbacks[c] > 0
    /\ queue # {} =>
         IF deadline = NoDeadline
         THEN unavailable = Connections
         ELSE \E e \in queue : IsHead(e) /\ e.at = deadline

\* After the final report of a message the caller hears no more of it.
FinalReportIsFinal ==
  [][\A m \in Messages : Finished(m) =>
       outcome'[m] = outcome[m] /\ reported'[m] = reported[m]]_vars

\* Between the report of a failed trial and the next trial of the message
\* at least timeDistTrial passes, whatever wakes the manager up meanwhile.
RetryWaits ==
  [][\A c \in Connections : job'[c] # job[c] /\ job'[c].trials > 1 =>
       clock >= lastReport[job'[c].msg] + TimeDist]_vars

\* The remark of AddMessage: every message is finished, by success or by
\* being finally aborted, so none may be displaced from the queue.
NoMessageDisplaced == overwritten = {}

\* Every message that was added is finally reported, unless the manager is
\* destroyed before, another entry took its place in the queue or an
\* exception has ended a thread: all are finished again and again.
AddedIsFinished ==
  []<>(\/ isTerminate \/ failures > 0
       \/ \A m \in accepted : Finished(m) \/ m \in overwritten)

\* The destructor returns: the joins of the manager and of the connection
\* threads, and the futures of their callbacks, never wait for each other,
\* whichever thread has ended by an exception.
DestructionCompletes == []<>(isTerminate => \A c \in Connections : Gone(c))

-----------------------------------------------------------------------------
(* What makes the properties above inductive.                              *)

\* Every connection is in one of the two deques, and the ones still to be
\* looked at in this pass are busy ones that carry a message.
ConnectionsPartitioned ==
  /\ available \cup unavailable = Connections
  /\ available \cap unavailable = {}
  /\ toCheck \subseteq unavailable
  /\ \A c \in unavailable : job[c].msg \in Messages /\ status[c] # "NONE"

\* A connection whose trial is over has nothing left to send, and a thread
\* that sends has taken its message.
ThreadsFollowStatus ==
  \A c \in Connections :
    /\ status[c] # "IN_PROCESSING" =>
         thread[c] # "sending" /\ (isNew[c] => isStopping[c])
    /\ thread[c] = "sending" => (isNew[c] => isStopping[c])
    /\ c \in available => status[c] # "IN_PROCESSING"

\* A retry is due TimeDist after the report of the trial that failed.
RetriesScheduled ==
  /\ \A e \in queue :
       e.trials > 0 => e.at >= lastReport[e.msg] + TimeDist
  /\ \A m \in Messages : m \notin accepted => reported[m] = 0

\* Who will see to it that a finished trial is looked at, and what the
\* manager knows when it goes to sleep.
WakeUpsPending ==
  /\ manager = "regain" => ~isResume
  /\ failures = 0 =>
       \A c \in unavailable : status[c] # "IN_PROCESSING" =>
         \/ thread[c] = "signalling" \/ callbacks[c] > 0
         \/ isResume \/ manager = "ended"
         \/ manager = "regain" /\ c \in toCheck
  /\ manager \in {"top", "waiting"} /\ noConnections => unavailable = Connections
  /\ manager = "waiting" /\ ~isResume /\ queue # {} =>
       IF deadline = NoDeadline
       THEN unavailable = Connections
       ELSE \E e \in queue : IsHead(e) /\ e.at = deadline

IInv ==
  /\ TypeOK
  /\ ConnectionsPartitioned
  /\ ThreadsFollowStatus
  /\ EachMessageInOnePlace
  /\ TrialsAreCounted
  /\ RetriesScheduled
  /\ WakeUpsPending

-----------------------------------------------------------------------------
(* The manager implements the promise of module AlarmDelivery.             *)

phaseBar == [m \in Messages |->
  IF m \notin accepted THEN "new"
  ELSE IF outcome[m] = "none" THEN "pending" ELSE outcome[m]]

Delivery == INSTANCE AlarmDelivery
              WITH phase <- phaseBar, trials <- reported, closed <- isTerminate

\* What the caller sees of the queue, the threads and the clock is a
\* behaviour of AlarmDelivery, whatever keys collide and whatever thread
\* fails: a message is retried only after a failed trial that was not the
\* last one, and never after its end.
ImplementsDelivery == Delivery!Spec
=============================================================================
