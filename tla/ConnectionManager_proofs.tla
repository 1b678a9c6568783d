------------------------ MODULE ConnectionManager_proofs ------------------------
(***************************************************************************)
(* Proofs about ConnectionManager for any sets of messages and             *)
(* connections and any values of the other constants.                      *)
(***************************************************************************)
EXTENDS ConnectionManager, TLAPS

USE DEF Take, Resume, TrialOver, MayRetry, RetryAt, Busy

(* Clock readings are natural numbers that do not go back. *)
LEMMA ClockReading ==
  ASSUME NEW now, NEW delay, clock \in Nat, now \in clock .. (clock + Drift),
         ReadClock(now, delay)
  PROVE  now \in Nat /\ clock' = now /\ now >= clock
  BY ConnectionManagerAssumption DEF ReadClock

(* What Insert leaves in the queue, and what it displaces. *)
LEMMA InsertContents ==
  ASSUME NEW key, NEW m, NEW trials, NEW e
  PROVE  e \in Insert(key, m, trials) <=>
           (e \in queue /\ e.at # key) \/ e = Entry(key, m, trials)
  BY DEF Insert

LEMMA DisplacedContents ==
  ASSUME NEW key, NEW m
  PROVE  m \in Displaced(key) <=> \E e \in queue : e.at = key /\ e.msg = m
  BY DEF Displaced

(* Every step keeps the types of the variables. *)
LEMMA TypeStep == TypeOK /\ ConnectionsPartitioned /\ [Next]_vars => TypeOK'
<1> SUFFICES ASSUME TypeOK, ConnectionsPartitioned, [Next]_vars PROVE TypeOK'
  OBVIOUS
<1> USE DEF TypeOK, GatewayResult, Final, NoDeadline
<1>1. CASE Tick
  BY <1>1 DEF Tick, managerVars, connVars, history
<1>2. ASSUME NEW m \in Messages, AddMessage(m) PROVE TypeOK'
  <2> PICK now \in clock .. (clock + Drift) :
        /\ ReadClock(now, 0)
        /\ queue' = Insert(now, m, 0)
        /\ overwritten' = overwritten \cup Displaced(now)
    BY <1>2 DEF AddMessage
  <2>1. now \in Nat /\ clock' = now
    BY ClockReading
  <2>2. queue' \subseteq [at : Nat, msg : Messages, trials : Nat]
    BY <2>1, InsertContents DEF Entry
  <2>3. overwritten' \subseteq Messages
    BY <2>1 DEF Displaced
  <2>4. QED
    BY <1>2, <2>1, <2>2, <2>3 DEF AddMessage, managerVars, connVars
<1>3. CASE BeginDestruction
  BY <1>3 DEF BeginDestruction, managerVars, connVars, history
<1>4. CASE GoToSleep
  BY <1>4 DEF GoToSleep, connVars, history
<1>5. CASE WakeUp
  BY <1>5 DEF WakeUp, connVars, history
<1>6. CASE NothingDue
  BY <1>6 DEF NothingDue, connVars, history
<1>7. CASE NoneAvailable
  BY <1>7 DEF NoneAvailable, connVars, history
<1>8. ASSUME NEW c \in Connections, SkipConnection(c) PROVE TypeOK'
  BY <1>8 DEF SkipConnection, connVars, history
<1>9. ASSUME NEW c \in Connections, RegainConnection(c) PROVE TypeOK'
  <2> DEFINE m == job[c].msg
  <2>1. m \in Messages /\ job[c].trials \in Nat
    BY <1>9 DEF RegainConnection, ConnectionsPartitioned
  <2>2. /\ clock' \in Nat
        /\ queue' \subseteq [at : Nat, msg : Messages, trials : Nat]
        /\ overwritten' \subseteq Messages
        /\ lastReport' \in [Messages -> Nat]
    <3>1. CASE Requeue(m, job[c].trials)
      <4> PICK now \in clock .. (clock + Drift) :
            /\ ReadClock(now, TimeDist)
            /\ queue' = Insert(now + TimeDist, m, job[c].trials)
            /\ overwritten' = overwritten \cup Displaced(now + TimeDist)
            /\ lastReport' = [lastReport EXCEPT ![m] = now]
        BY <3>1 DEF Requeue
      <4>1. now \in Nat /\ clock' = now /\ now + TimeDist \in Nat
        BY ClockReading, ConnectionManagerAssumption
      <4>2. queue' \subseteq [at : Nat, msg : Messages, trials : Nat]
        BY <2>1, <4>1, InsertContents DEF Entry
      <4>3. QED
        BY <2>1, <4>1, <4>2 DEF Displaced
    <3>2. CASE NoRequeue(m)
      BY <2>1, <3>2 DEF NoRequeue
    <3>3. QED
      BY <1>9, <3>1, <3>2 DEF RegainConnection
  <2>3. outcome' \in [Messages -> Final \cup {"none"}]
    BY <1>9, <2>1 DEF RegainConnection, ConnectionsPartitioned
  <2>4. /\ reported' \in [Messages -> Nat]
        /\ manager' \in {"top", "waiting", "regain", "ended"}
        /\ failures' \in Nat
    BY <1>9, <2>1 DEF RegainConnection
  <2>5. QED
    BY <1>9, <2>2, <2>3, <2>4 DEF RegainConnection, connVars
<1>10. ASSUME NEW c \in Connections, SendNextDueMessage(c) PROVE TypeOK'
  <2> PICK e \in queue : queue' = queue \ {e} /\ SendMessage(c, e.msg, e.trials)
    BY <1>10 DEF SendNextDueMessage
  <2>1. e.msg \in Messages /\ e.trials + 1 \in Nat
    OBVIOUS
  <2>2. /\ job' \in [Connections -> [msg : Messages \cup {NoMessage}, trials : Nat]]
        /\ status' \in [Connections -> GatewayResult \cup {"NONE", "IN_PROCESSING"}]
        /\ isNew' \in [Connections -> BOOLEAN]
        /\ thread' = thread /\ isStopping' = isStopping
    BY <2>1 DEF SendMessage
  <2>3. queue' \subseteq [at : Nat, msg : Messages, trials : Nat]
    OBVIOUS
  <2>4. QED
    BY <1>10, <2>2, <2>3 DEF SendNextDueMessage, history
<1>11. ASSUME NEW c \in Connections, ThreadWakeUp(c) PROVE TypeOK'
  BY <1>11 DEF ThreadWakeUp, managerVars, history
<1>12. ASSUME NEW c \in Connections, NEW r \in GatewayResult, GatewayReturns(c, r)
       PROVE TypeOK'
  BY <1>12 DEF GatewayReturns, managerVars, history
<1>13. ASSUME NEW c \in Connections, LaunchCallback(c) PROVE TypeOK'
  BY <1>13 DEF LaunchCallback, managerVars, history
<1>14. ASSUME NEW c \in Connections, ThreadFails(c) PROVE TypeOK'
  BY <1>14 DEF ThreadFails, managerVars, history
<1>15. ASSUME NEW c \in Connections, OnConnectionFinished(c) PROVE TypeOK'
  BY <1>15 DEF OnConnectionFinished, managerVars, connVars, history
<1>16. ASSUME NEW c \in Connections, DestroyConnection(c) PROVE TypeOK'
  BY <1>16 DEF DestroyConnection, managerVars, history
<1>17. CASE UNCHANGED vars
  BY <1>17 DEF vars, managerVars, connVars, history
<1>18. QED
  BY <1>1, <1>2, <1>3, <1>4, <1>5, <1>6, <1>7, <1>8, <1>9, <1>10, <1>11, <1>12,
     <1>13, <1>14, <1>15, <1>16, <1>17 DEF Next, ManagerNext, ThreadNext

(* A connection keeps to one deque, its thread to its status: what a trial  *)
(* that is over leaves behind, until the connection is used again.          *)
LEMMA ConnectionStep ==
  TypeOK /\ ConnectionsPartitioned /\ ThreadsFollowStatus /\ [Next]_vars
    => ConnectionsPartitioned' /\ ThreadsFollowStatus'
<1> SUFFICES ASSUME TypeOK, ConnectionsPartitioned, ThreadsFollowStatus,
                    [Next]_vars
             PROVE  ConnectionsPartitioned' /\ ThreadsFollowStatus'
  OBVIOUS
<1> USE DEF TypeOK, ConnectionsPartitioned, ThreadsFollowStatus
<1>1. ASSUME UNCHANGED <<available, unavailable, toCheck, connVars>>
      PROVE  ConnectionsPartitioned' /\ ThreadsFollowStatus'
  BY <1>1 DEF connVars
<1>2. CASE Tick \/ BeginDestruction \/ GoToSleep \/ NothingDue \/ NoneAvailable
  BY <1>1, <1>2 DEF Tick, BeginDestruction, GoToSleep, NothingDue, NoneAvailable,
     managerVars
<1>3. ASSUME NEW m \in Messages, AddMessage(m)
      PROVE  ConnectionsPartitioned' /\ ThreadsFollowStatus'
  BY <1>1, <1>3 DEF AddMessage, managerVars
<1>4. CASE WakeUp
  BY <1>4 DEF WakeUp, connVars
<1>5. ASSUME NEW c \in Connections, SkipConnection(c)
      PROVE  ConnectionsPartitioned' /\ ThreadsFollowStatus'
  BY <1>5 DEF SkipConnection, connVars
<1>6. ASSUME NEW c \in Connections, RegainConnection(c)
      PROVE  ConnectionsPartitioned' /\ ThreadsFollowStatus'
  <2>1. /\ c \in toCheck /\ status[c] # "IN_PROCESSING"
        /\ toCheck' = toCheck \ {c}
        /\ unavailable' = unavailable \ {c}
        /\ available' = available \cup {c}
        /\ UNCHANGED connVars
    BY <1>6 DEF RegainConnection
  <2>2. QED
    BY <2>1 DEF connVars
<1>7. ASSUME NEW c \in Connections, SendNextDueMessage(c)
      PROVE  ConnectionsPartitioned' /\ ThreadsFollowStatus'
  <2> PICK e \in queue : SendMessage(c, e.msg, e.trials)
    BY <1>7 DEF SendNextDueMessage
  <2>1. /\ c \in available /\ toCheck = {} /\ toCheck' = {}
        /\ available' = available \ {c}
        /\ unavailable' = unavailable \cup {c}
    BY <1>7 DEF SendNextDueMessage
  <2>2. /\ thread[c] \in {"waiting", "ended"}
        /\ job' = [job EXCEPT ![c] = [msg |-> e.msg, trials |-> e.trials + 1]]
        /\ status' = [status EXCEPT ![c] = "IN_PROCESSING"]
        /\ isNew' = [isNew EXCEPT ![c] = TRUE]
        /\ UNCHANGED <<thread, isStopping>>
    BY DEF SendMessage
  <2>3. e.msg \in Messages
    OBVIOUS
  <2>4. ConnectionsPartitioned'
    BY <2>1, <2>2, <2>3
  <2>5. ThreadsFollowStatus'
    BY <2>1, <2>2
  <2>6. QED
    BY <2>4, <2>5
<1>8. ASSUME NEW c \in Connections, ThreadWakeUp(c)
      PROVE  ConnectionsPartitioned' /\ ThreadsFollowStatus'
  BY <1>8 DEF ThreadWakeUp, managerVars
<1>9. ASSUME NEW c \in Connections, NEW r \in GatewayResult, GatewayReturns(c, r)
      PROVE  ConnectionsPartitioned' /\ ThreadsFollowStatus'
  BY <1>9 DEF GatewayReturns, managerVars, GatewayResult
<1>10. ASSUME NEW c \in Connections, LaunchCallback(c) \/ ThreadFails(c)
       PROVE  ConnectionsPartitioned' /\ ThreadsFollowStatus'
  BY <1>10 DEF LaunchCallback, ThreadFails, managerVars
<1>11. ASSUME NEW c \in Connections, OnConnectionFinished(c)
       PROVE  ConnectionsPartitioned' /\ ThreadsFollowStatus'
  BY <1>1, <1>11 DEF OnConnectionFinished, managerVars
<1>12. ASSUME NEW c \in Connections, DestroyConnection(c)
       PROVE  ConnectionsPartitioned' /\ ThreadsFollowStatus'
  BY <1>12 DEF DestroyConnection, managerVars
<1>13. CASE UNCHANGED vars
  BY <1>1, <1>13 DEF vars, managerVars
<1>14. QED
  BY <1>2, <1>3, <1>4, <1>5, <1>6, <1>7, <1>8, <1>9, <1>10, <1>11, <1>12, <1>13
     DEF Next, ManagerNext, ThreadNext

(* Only three actions move a message; every other step leaves alone the      *)
(* places a message can be in and what was reported of it.                   *)
LEMMA MovingSteps ==
  ASSUME [Next]_vars
  PROVE  \/ \E m \in Messages : AddMessage(m)
         \/ \E c \in Connections : RegainConnection(c)
         \/ \E c \in Connections : SendNextDueMessage(c)
         \/ UNCHANGED <<queue, unavailable, job, history>>
<1>1. CASE Tick \/ BeginDestruction \/ GoToSleep \/ WakeUp \/ NothingDue
             \/ NoneAvailable
  BY <1>1 DEF Tick, BeginDestruction, GoToSleep, WakeUp, NothingDue,
     NoneAvailable, connVars
<1>2. ASSUME NEW c \in Connections, SkipConnection(c) \/ ThreadFails(c)
               \/ OnConnectionFinished(c) \/ DestroyConnection(c) \/ ThreadNext(c)
      PROVE  UNCHANGED <<queue, unavailable, job, history>>
  BY <1>2 DEF SkipConnection, ThreadFails, OnConnectionFinished,
     DestroyConnection, ThreadNext, ThreadWakeUp, GatewayReturns,
     LaunchCallback, connVars
<1>3. CASE UNCHANGED vars
  BY <1>3 DEF vars, connVars
<1>4. QED
  BY <1>1, <1>2, <1>3 DEF Next, ManagerNext

(* What a message that is added, regained or sent meets in the next state.   *)
LEMMA AddEffect ==
  ASSUME TypeOK, NEW m \in Messages, AddMessage(m)
  PROVE  \E key \in Nat :
           /\ \A e : e \in queue' <=>
                 (e \in queue /\ e.at # key) \/ e = Entry(key, m, 0)
           /\ \A n : n \in overwritten' <=>
                 n \in overwritten \/ \E e \in queue : e.at = key /\ e.msg = n
           /\ m \notin accepted /\ accepted' = accepted \cup {m}
           /\ UNCHANGED <<unavailable, job, reported, outcome, lastReport>>
<1> PICK now \in clock .. (clock + Drift) :
      /\ ReadClock(now, 0)
      /\ queue' = Insert(now, m, 0)
      /\ overwritten' = overwritten \cup Displaced(now)
  BY DEF AddMessage
<1>1. now \in Nat
  BY ClockReading DEF TypeOK
<1>2. QED
  BY <1>1, InsertContents, DisplacedContents DEF AddMessage, connVars

LEMMA RegainEffect ==
  ASSUME TypeOK, ConnectionsPartitioned, NEW c \in Connections,
         RegainConnection(c)
  PROVE  LET m == job[c].msg
             again == status[c] = "NONFATAL_FAILURE" /\ job[c].trials < MaxTrials
         IN
         /\ c \in unavailable /\ m \in Messages /\ status[c] \in GatewayResult
         /\ unavailable' = unavailable \ {c}
         /\ reported' = [reported EXCEPT ![m] = @ + 1]
         /\ UNCHANGED <<job, accepted>>
         /\ \A n \in Messages \ {m} : outcome'[n] = outcome[n]
                                      /\ lastReport'[n] = lastReport[n]
         /\ again => /\ outcome' = outcome
                     /\ \E key \in Nat :
                          /\ key = lastReport'[m] + TimeDist
                          /\ \A e : e \in queue' <=>
                                \/ e \in queue /\ e.at # key
                                \/ e = Entry(key, m, job[c].trials)
                          /\ \A n : n \in overwritten' <=>
                                \/ n \in overwritten
                                \/ \E e \in queue : e.at = key /\ e.msg = n
         /\ ~again => /\ outcome'[m] = IF status[c] = "NONFATAL_FAILURE"
                                       THEN "TIMEOUT_FAILURE" ELSE status[c]
                      /\ outcome'[m] \in Final
                      /\ queue' = queue
                      /\ overwritten' = overwritten
<1> DEFINE m == job[c].msg
           again == status[c] = "NONFATAL_FAILURE" /\ job[c].trials < MaxTrials
<1>1. /\ c \in unavailable /\ m \in Messages /\ status[c] \in GatewayResult
      /\ unavailable' = unavailable \ {c}
      /\ reported' = [reported EXCEPT ![m] = @ + 1]
      /\ UNCHANGED <<job, accepted>>
  BY DEF RegainConnection, ConnectionsPartitioned, TypeOK, connVars
<1>2. /\ again => outcome' = outcome
      /\ \A n \in Messages \ {m} : outcome'[n] = outcome[n]
      /\ ~again => outcome'[m] = IF status[c] = "NONFATAL_FAILURE"
                                THEN "TIMEOUT_FAILURE" ELSE status[c]
  BY <1>1 DEF RegainConnection, TypeOK
<1>3. ~again => outcome'[m] \in Final
  BY <1>1, <1>2 DEF GatewayResult, Final
<1>4. CASE again
  <2> PICK now \in clock .. (clock + Drift) :
        /\ ReadClock(now, TimeDist)
        /\ queue' = Insert(now + TimeDist, m, job[c].trials)
        /\ overwritten' = overwritten \cup Displaced(now + TimeDist)
        /\ lastReport' = [lastReport EXCEPT ![m] = now]
    BY <1>4 DEF RegainConnection, Requeue
  <2>1. now \in Nat /\ now + TimeDist \in Nat
    BY ClockReading, ConnectionManagerAssumption DEF TypeOK
  <2>2. lastReport'[m] = now /\ \A n \in Messages \ {m} : lastReport'[n] = lastReport[n]
    BY <1>1 DEF TypeOK
  <2>3. QED
    BY <1>1, <1>2, <1>4, <2>1, <2>2, InsertContents, DisplacedContents
<1>5. CASE ~again
  <2>1. NoRequeue(m)
    BY <1>5 DEF RegainConnection
  <2>2. QED
    BY <1>1, <1>2, <1>3, <1>5, <2>1 DEF NoRequeue, TypeOK
<1>6. QED
  BY <1>4, <1>5

LEMMA SendEffect ==
  ASSUME TypeOK, ConnectionsPartitioned, NEW c \in Connections,
         SendNextDueMessage(c)
  PROVE  \E e \in queue :
           /\ e.at <= clock /\ clock' = clock
           /\ queue' = queue \ {e}
           /\ c \notin unavailable
           /\ unavailable' = unavailable \cup {c}
           /\ job' = [job EXCEPT ![c] = [msg |-> e.msg, trials |-> e.trials + 1]]
           /\ UNCHANGED history
  BY DEF SendNextDueMessage, SendMessage, ConnectionsPartitioned

(* A step moves a message from one place to the next, and never copies it.   *)
LEMMA PlacesStep ==
  ASSUME TypeOK, ConnectionsPartitioned, EachMessageInOnePlace, [Next]_vars
  PROVE  EachMessageInOnePlace'
<1> USE DEF EachMessageInOnePlace, InQueue, InConnection, Finished
<1>1. ASSUME NEW m \in Messages, AddMessage(m) PROVE EachMessageInOnePlace'
  <2> PICK key \in Nat :
        /\ \A e : e \in queue' <=>
              (e \in queue /\ e.at # key) \/ e = Entry(key, m, 0)
        /\ \A n : n \in overwritten' <=>
              n \in overwritten \/ \E e \in queue : e.at = key /\ e.msg = n
        /\ m \notin accepted /\ accepted' = accepted \cup {m}
        /\ UNCHANGED <<unavailable, job, reported, outcome, lastReport>>
    BY <1>1, AddEffect
  <2>1. Entry(key, m, 0).msg = m /\ Entry(key, m, 0).at = key
    BY DEF Entry
  <2>2. \A e, f \in queue' : e.msg = f.msg => e = f
    BY <2>1
  <2>3. ASSUME NEW n \in Messages
        PROVE  /\ n \in accepted' <=> InQueue(n)' \/ InConnection(n)' \/ Finished(n)'
                                       \/ n \in overwritten'
               /\ InQueue(n)' => ~InConnection(n)' /\ ~Finished(n)' /\ n \notin overwritten'
               /\ InConnection(n)' => ~Finished(n)' /\ n \notin overwritten'
               /\ Finished(n)' => n \notin overwritten'
    BY <2>1
  <2>4. QED
    BY <2>2, <2>3
<1>2. ASSUME NEW c \in Connections, RegainConnection(c)
      PROVE  EachMessageInOnePlace'
  <2> DEFINE m == job[c].msg
             again == status[c] = "NONFATAL_FAILURE" /\ job[c].trials < MaxTrials
  <2>1. /\ c \in unavailable /\ m \in Messages
        /\ unavailable' = unavailable \ {c}
        /\ UNCHANGED <<job, accepted>>
        /\ \A n \in Messages \ {m} : outcome'[n] = outcome[n]
    BY <1>2, RegainEffect
  <2>2. /\ InConnection(m) /\ ~InConnection(m)'
        /\ \A n \in Messages \ {m} : InConnection(n)' <=> InConnection(n)
    BY <2>1
  <2>3. \A d, f \in unavailable' : job'[d].msg = job'[f].msg => d = f
    BY <2>1
  <2>4. CASE again
    <3> PICK key \in Nat :
          /\ \A e : e \in queue' <=>
                (e \in queue /\ e.at # key) \/ e = Entry(key, m, job[c].trials)
          /\ \A n : n \in overwritten' <=>
                n \in overwritten \/ \E e \in queue : e.at = key /\ e.msg = n
      BY <1>2, <2>4, RegainEffect
    <3>1. outcome' = outcome
      BY <1>2, <2>4, RegainEffect
    <3>2. Entry(key, m, job[c].trials).msg = m /\ Entry(key, m, job[c].trials).at = key
      BY DEF Entry
    <3>3. \A e, f \in queue' : e.msg = f.msg => e = f
      <4>1. \A e \in queue : e.msg # m
        BY <2>1, <2>2
      <4>2. QED
        BY <3>2, <4>1
    <3>4. QED
      BY <2>1, <2>2, <2>3, <3>1, <3>2, <3>3
  <2>5. CASE ~again
    <3>1. outcome'[m] # "none" /\ queue' = queue /\ overwritten' = overwritten
      BY <1>2, <2>5, RegainEffect DEF Final
    <3>2. QED
      BY <2>1, <2>2, <2>3, <3>1
  <2>6. QED
    BY <2>4, <2>5
<1>3. ASSUME NEW c \in Connections, SendNextDueMessage(c)
      PROVE  EachMessageInOnePlace'
  <2> PICK e \in queue :
        /\ queue' = queue \ {e}
        /\ c \notin unavailable
        /\ unavailable' = unavailable \cup {c}
        /\ job' = [job EXCEPT ![c] = [msg |-> e.msg, trials |-> e.trials + 1]]
        /\ UNCHANGED history
    BY <1>3, SendEffect
  <2>1. e.msg \in Messages
    BY DEF TypeOK
  <2>2. /\ job'[c].msg = e.msg
        /\ \A d \in unavailable : job'[d] = job[d]
    BY DEF TypeOK
  <2>3. \A n \in Messages : InQueue(n)' <=> InQueue(n) /\ n # e.msg
    OBVIOUS
  <2>4. \A n \in Messages : InConnection(n)' <=> InConnection(n) \/ n = e.msg
    BY <2>2
  <2>5. \A d, f \in unavailable' : job'[d].msg = job'[f].msg => d = f
    BY <2>1, <2>2
  <2>6. QED
    BY <2>1, <2>3, <2>4, <2>5 DEF history
<1>4. CASE UNCHANGED <<queue, unavailable, job, history>>
  BY <1>4 DEF history
<1>5. QED
  BY <1>1, <1>2, <1>3, <1>4, MovingSteps

(* The trial numbers move with the messages and are counted once per report. *)
LEMMA TrialsStep ==
  ASSUME TypeOK, ConnectionsPartitioned, EachMessageInOnePlace, TrialsAreCounted,
         RetriesScheduled, [Next]_vars
  PROVE  TrialsAreCounted' /\ RetriesScheduled'
<1> USE DEF TrialsAreCounted, RetriesScheduled
<1>1. ASSUME NEW m \in Messages, AddMessage(m)
      PROVE  TrialsAreCounted' /\ RetriesScheduled'
  <2> PICK key \in Nat :
        /\ \A e : e \in queue' <=>
              (e \in queue /\ e.at # key) \/ e = Entry(key, m, 0)
        /\ m \notin accepted /\ accepted' = accepted \cup {m}
        /\ UNCHANGED <<unavailable, job, reported, outcome, lastReport>>
    BY <1>1, AddEffect
  <2>1. Entry(key, m, 0).msg = m /\ Entry(key, m, 0).trials = 0
    BY DEF Entry
  <2>2. QED
    BY <2>1
<1>2. ASSUME NEW c \in Connections, RegainConnection(c)
      PROVE  TrialsAreCounted' /\ RetriesScheduled'
  <2> DEFINE m == job[c].msg
             again == status[c] = "NONFATAL_FAILURE" /\ job[c].trials < MaxTrials
  <2>1. /\ c \in unavailable /\ m \in Messages /\ status[c] \in GatewayResult
        /\ unavailable' = unavailable \ {c}
        /\ reported' = [reported EXCEPT ![m] = @ + 1]
        /\ UNCHANGED <<job, accepted>>
        /\ \A n \in Messages \ {m} : outcome'[n] = outcome[n]
                                     /\ lastReport'[n] = lastReport[n]
    BY <1>2, RegainEffect
  <2>2. /\ reported'[m] = job[c].trials /\ job[c].trials \in Nat
        /\ \A n \in Messages \ {m} : reported'[n] = reported[n]
    BY <2>1 DEF TypeOK
  <2>3. /\ \A e \in queue : e.msg \in Messages \ {m}
        /\ \A d \in unavailable' : job[d].msg \in Messages \ {m}
        /\ m \in accepted
    BY <2>1 DEF EachMessageInOnePlace, InQueue, InConnection, TypeOK,
       ConnectionsPartitioned
  <2>4. \A d \in unavailable' :
          /\ job'[d].trials = reported'[job'[d].msg] + 1
          /\ job'[d].trials > 1 => job'[d].trials <= MaxTrials
    BY <2>1, <2>2, <2>3
  <2>5. \A n \in Messages :
          /\ reported'[n] > 1 => reported'[n] <= MaxTrials
          /\ n \notin accepted' => reported'[n] = 0
    BY <2>1, <2>2, <2>3
  <2>6. CASE again
    <3> PICK key \in Nat :
          /\ key = lastReport'[m] + TimeDist
          /\ \A e : e \in queue' <=>
                (e \in queue /\ e.at # key) \/ e = Entry(key, m, job[c].trials)
      BY <1>2, <2>6, RegainEffect
    <3>1. outcome' = outcome /\ outcome[m] = "none"
      BY <1>2, <2>1, <2>6, RegainEffect DEF EachMessageInOnePlace, InConnection, Finished
    <3>2. /\ Entry(key, m, job[c].trials).msg = m
          /\ Entry(key, m, job[c].trials).at = key
          /\ Entry(key, m, job[c].trials).trials = job[c].trials
      BY DEF Entry
    <3>3. \A e \in queue' :
            /\ e.trials = reported'[e.msg]
            /\ e.trials > 0 => e.trials < MaxTrials
            /\ e.trials > 0 => e.at >= lastReport'[e.msg] + TimeDist
      BY <2>1, <2>2, <2>3, <2>6, <3>2 DEF TypeOK
    <3>4. \A n \in Messages : outcome'[n] = "TIMEOUT_FAILURE" => reported'[n] >= MaxTrials
      BY <2>2, <3>1
    <3>5. QED
      BY <2>4, <2>5, <3>3, <3>4
  <2>7. CASE ~again
    <3>1. /\ queue' = queue
          /\ outcome'[m] = IF status[c] = "NONFATAL_FAILURE"
                           THEN "TIMEOUT_FAILURE" ELSE status[c]
      BY <1>2, <2>7, RegainEffect
    <3>2. \A e \in queue' :
            /\ e.trials = reported'[e.msg]
            /\ e.trials > 0 => e.trials < MaxTrials
            /\ e.trials > 0 => e.at >= lastReport'[e.msg] + TimeDist
      BY <2>1, <2>2, <2>3, <3>1
    <3>3. outcome'[m] = "TIMEOUT_FAILURE" => reported'[m] >= MaxTrials
      BY <2>1, <2>2, <2>7, <3>1, ConnectionManagerAssumption DEF GatewayResult
    <3>4. \A n \in Messages : outcome'[n] = "TIMEOUT_FAILURE" => reported'[n] >= MaxTrials
      BY <2>1, <2>2, <3>3
    <3>5. QED
      BY <2>4, <2>5, <3>2, <3>4
  <2>8. QED
    BY <2>6, <2>7
<1>3. ASSUME NEW c \in Connections, SendNextDueMessage(c)
      PROVE  TrialsAreCounted' /\ RetriesScheduled'
  <2> PICK e \in queue :
        /\ queue' = queue \ {e}
        /\ unavailable' = unavailable \cup {c}
        /\ job' = [job EXCEPT ![c] = [msg |-> e.msg, trials |-> e.trials + 1]]
        /\ UNCHANGED history
    BY <1>3, SendEffect
  <2>1. e.msg \in Messages /\ e.trials \in Nat
    BY DEF TypeOK
  <2>2. /\ job'[c].msg = e.msg /\ job'[c].trials = e.trials + 1
        /\ \A d \in unavailable \ {c} : job'[d] = job[d]
    BY DEF TypeOK
  <2>3. \A d \in unavailable' :
          /\ job'[d].trials = reported[job'[d].msg] + 1
          /\ job'[d].trials > 1 => job'[d].trials <= MaxTrials
    BY <2>1, <2>2, ConnectionManagerAssumption
  <2>4. QED
    BY <2>3 DEF history
<1>4. CASE UNCHANGED <<queue, unavailable, job, history>>
  BY <1>4 DEF history
<1>5. QED
  BY <1>1, <1>2, <1>3, <1>4, MovingSteps

(* What wakes the manager up is never used up before it has been served.     *)
LEMMA WakeUpsStep ==
  ASSUME TypeOK, ConnectionsPartitioned, ThreadsFollowStatus, WakeUpsPending,
         [Next]_vars
  PROVE  WakeUpsPending'
<1> USE DEF WakeUpsPending, TypeOK, IsHead
<1>1. CASE Tick
  BY <1>1 DEF Tick, managerVars, connVars
<1>2. ASSUME NEW m \in Messages, AddMessage(m) PROVE WakeUpsPending'
  BY <1>2 DEF AddMessage, ManagerMutexFree, managerVars, connVars
<1>3. CASE BeginDestruction
  BY <1>3 DEF BeginDestruction, ManagerMutexFree, managerVars, connVars
<1>4. CASE GoToSleep
  <2>1. /\ manager = "top" /\ manager' = "waiting"
        /\ UNCHANGED <<queue, unavailable, toCheck, noConnections, isResume,
                       thread, status, callbacks, failures>>
    BY <1>4 DEF GoToSleep, connVars
  <2>2. queue # {} => IF noConnections THEN deadline' = NoDeadline
                      ELSE \E e \in queue : IsHead(e) /\ deadline' = e.at
    BY <1>4 DEF GoToSleep
  <2>3. \A e \in queue : e.at # NoDeadline
    BY DEF NoDeadline
  <2>4. QED
    BY <2>1, <2>2, <2>3
<1>5. CASE WakeUp
  BY <1>5 DEF WakeUp, connVars
<1>6. CASE NothingDue
  BY <1>6 DEF NothingDue, connVars
<1>7. CASE NoneAvailable
  BY <1>7 DEF NoneAvailable, connVars, ConnectionsPartitioned
<1>8. ASSUME NEW c \in Connections, SkipConnection(c) PROVE WakeUpsPending'
  BY <1>8 DEF SkipConnection, connVars
<1>9. ASSUME NEW c \in Connections, RegainConnection(c) PROVE WakeUpsPending'
  <2>1. /\ manager = "regain" /\ c \in toCheck
        /\ toCheck' = toCheck \ {c} /\ unavailable' = unavailable \ {c}
        /\ UNCHANGED <<isResume, connVars, callbacks>>
        /\ \/ manager' = manager /\ failures' = failures
           \/ manager' = "ended" /\ failures' = failures + 1
    BY <1>9 DEF RegainConnection
  <2>2. QED
    BY <2>1 DEF connVars
<1>10. ASSUME NEW c \in Connections, SendNextDueMessage(c) PROVE WakeUpsPending'
  <2>1. /\ manager' = "top" /\ noConnections' = FALSE
        /\ unavailable' = unavailable \cup {c}
        /\ toCheck = {}
        /\ manager = "regain"
        /\ status' = [status EXCEPT ![c] = "IN_PROCESSING"]
        /\ UNCHANGED <<thread, callbacks, failures, isResume>>
    BY <1>10 DEF SendNextDueMessage, SendMessage
  <2>2. QED
    BY <2>1
<1>11. ASSUME NEW c \in Connections, ThreadWakeUp(c) PROVE WakeUpsPending'
  BY <1>11 DEF ThreadWakeUp, managerVars
<1>12. ASSUME NEW c \in Connections, NEW r \in GatewayResult, GatewayReturns(c, r)
       PROVE WakeUpsPending'
  BY <1>12 DEF GatewayReturns, managerVars
<1>13. ASSUME NEW c \in Connections, LaunchCallback(c) PROVE WakeUpsPending'
  BY <1>13 DEF LaunchCallback, managerVars
<1>14. ASSUME NEW c \in Connections, ThreadFails(c) PROVE WakeUpsPending'
  BY <1>14 DEF ThreadFails, managerVars
<1>15. ASSUME NEW c \in Connections, OnConnectionFinished(c) PROVE WakeUpsPending'
  BY <1>15 DEF OnConnectionFinished, ManagerMutexFree, managerVars, connVars
<1>16. ASSUME NEW c \in Connections, DestroyConnection(c) PROVE WakeUpsPending'
  BY <1>16 DEF DestroyConnection, managerVars
<1>17. CASE UNCHANGED vars
  BY <1>17 DEF vars, managerVars, connVars
<1>18. QED
  BY <1>1, <1>2, <1>3, <1>4, <1>5, <1>6, <1>7, <1>8, <1>9, <1>10, <1>11, <1>12,
     <1>13, <1>14, <1>15, <1>16, <1>17 DEF Next, ManagerNext, ThreadNext

-----------------------------------------------------------------------------

LEMMA InvInit == Init => IInv
<1> SUFFICES ASSUME Init PROVE IInv
  OBVIOUS
<1> USE DEF Init
<1>1. TypeOK
  BY DEF TypeOK, Final, GatewayResult, NoDeadline
<1>2. ConnectionsPartitioned /\ ThreadsFollowStatus
  BY DEF ConnectionsPartitioned, ThreadsFollowStatus
<1>3. EachMessageInOnePlace
  BY DEF EachMessageInOnePlace, InQueue, InConnection, Finished
<1>4. TrialsAreCounted /\ RetriesScheduled
  BY DEF TrialsAreCounted, RetriesScheduled
<1>5. WakeUpsPending
  BY DEF WakeUpsPending
<1>6. QED
  BY <1>1, <1>2, <1>3, <1>4, <1>5 DEF IInv

(* The inductive invariant holds in every reachable state.                   *)
THEOREM Invariant == Spec => []IInv
<1>1. IInv /\ [Next]_vars => IInv'
  BY TypeStep, ConnectionStep, PlacesStep, TrialsStep, WakeUpsStep DEF IInv
<1>2. QED
  BY InvInit, <1>1, PTL DEF Spec

(* The types of the variables, for every number of messages, connections     *)
(* and trials.                                                               *)
THEOREM TypeCorrect == Spec => []TypeOK
  BY Invariant, PTL DEF IInv

(* No added message is lost, except by an equal key, and none is sent twice  *)
(* at the same time.                                                         *)
THEOREM MessagesConserved == Spec => []EachMessageInOnePlace
  BY Invariant, PTL DEF IInv

(* The number of trials of numTrials is kept for every message.              *)
THEOREM TrialsCounted == Spec => []TrialsAreCounted
  BY Invariant, PTL DEF IInv

(* A message is only handed to a connection that is not at work.             *)
THEOREM AvailableConnectionsIdle == Spec => []AvailableIsIdle
<1>1. IInv => AvailableIsIdle
  BY DEF IInv, AvailableIsIdle, ConnectionsPartitioned, ThreadsFollowStatus
<1>2. QED
  BY <1>1, Invariant, PTL

(* The manager never sleeps through a finished trial or a due message.       *)
THEOREM NoWakeUpLost == Spec => []NoLostWakeUp
<1>1. IInv => NoLostWakeUp
  BY DEF IInv, NoLostWakeUp, WakeUpsPending
<1>2. QED
  BY <1>1, Invariant, PTL

(* The final report of a message is its last report.                         *)
THEOREM FinalReports == Spec => FinalReportIsFinal
<1>1. ASSUME IInv, [Next]_vars
      PROVE  \A m \in Messages : Finished(m) =>
               outcome'[m] = outcome[m] /\ reported'[m] = reported[m]
  <2> USE <1>1 DEF IInv
  <2>1. ASSUME NEW c \in Connections, RegainConnection(c),
               NEW m \in Messages, Finished(m)
        PROVE  outcome'[m] = outcome[m] /\ reported'[m] = reported[m]
    <3>1. c \in unavailable
      BY <2>1, RegainEffect
    <3>2. m # job[c].msg
      BY <2>1, <3>1 DEF EachMessageInOnePlace, InConnection
    <3>3. QED
      BY <2>1, <3>2, RegainEffect DEF TypeOK
  <2>2. ASSUME NEW n \in Messages, AddMessage(n)
        PROVE  outcome' = outcome /\ reported' = reported
    BY <2>2 DEF AddMessage
  <2>3. ASSUME NEW c \in Connections, SendNextDueMessage(c)
        PROVE  outcome' = outcome /\ reported' = reported
    BY <2>3 DEF SendNextDueMessage, history
  <2>4. QED
    BY <2>1, <2>2, <2>3, MovingSteps DEF history
<1>2. QED
  BY <1>1, Invariant, PTL DEF Spec, FinalReportIsFinal, vars

(* Two trials of a message are at least timeDistTrial apart.                 *)
THEOREM RetriesWait == Spec => RetryWaits
<1>1. ASSUME IInv, [Next]_vars
      PROVE  \A c \in Connections : job'[c] # job[c] /\ job'[c].trials > 1 =>
               clock >= lastReport[job'[c].msg] + TimeDist
  <2> USE <1>1 DEF IInv
  <2>1. ASSUME NEW c \in Connections, SendNextDueMessage(c),
               NEW d \in Connections, job'[d] # job[d], job'[d].trials > 1
        PROVE  clock >= lastReport[job'[d].msg] + TimeDist
    <3> PICK e \in queue :
          /\ e.at <= clock
          /\ job' = [job EXCEPT ![c] = [msg |-> e.msg, trials |-> e.trials + 1]]
      BY <2>1, SendEffect
    <3>1. d = c /\ job'[d].msg = e.msg /\ job'[d].trials = e.trials + 1
      BY <2>1 DEF TypeOK
    <3>2. e.at >= lastReport[e.msg] + TimeDist
      BY <2>1, <3>1 DEF RetriesScheduled, TypeOK
    <3>3. QED
      BY <3>1, <3>2, ConnectionManagerAssumption DEF TypeOK
  <2>2. ASSUME NEW n \in Messages, AddMessage(n) PROVE job' = job
    BY <2>2 DEF AddMessage, connVars
  <2>3. ASSUME NEW c \in Connections, RegainConnection(c) PROVE job' = job
    BY <2>3 DEF RegainConnection, connVars
  <2>4. QED
    BY <2>1, <2>2, <2>3, MovingSteps
<1>2. QED
  BY <1>1, Invariant, PTL DEF Spec, RetryWaits

-----------------------------------------------------------------------------

(* A step that keeps what was accepted and reported is no step for the       *)
(* caller, unless it closes the manager.                                     *)
LEMMA HiddenStep ==
  ASSUME UNCHANGED history
  PROVE  phaseBar' = phaseBar /\ reported' = reported
  BY DEF history, phaseBar

(* The manager, its threads, its map of due times and its two deques         *)
(* implement the abstract delivery of messages.                              *)
THEOREM DeliveryImplemented == Spec => ImplementsDelivery
<1>1. Init => Delivery!DeliveryInit
  BY DEF Init, Delivery!DeliveryInit, phaseBar
<1>2. ASSUME IInv, [Next]_vars
      PROVE  [Delivery!DeliveryNext]_(Delivery!deliveryVars)
  <2> USE <1>2 DEF IInv
  <2> USE DEF Delivery!deliveryVars
  <2>1. ASSUME NEW m \in Messages, AddMessage(m) PROVE Delivery!Accept(m)
    <3>1. /\ ~isTerminate /\ isTerminate' = isTerminate
          /\ m \notin accepted /\ accepted' = accepted \cup {m}
          /\ outcome' = outcome /\ reported' = reported
      BY <2>1 DEF AddMessage
    <3>2. outcome[m] = "none"
      BY <3>1 DEF EachMessageInOnePlace, Finished
    <3>3. phaseBar' = [phaseBar EXCEPT ![m] = "pending"]
      BY <3>1, <3>2 DEF phaseBar
    <3>4. phaseBar[m] = "new"
      BY <3>1 DEF phaseBar
    <3>5. QED
      BY <3>1, <3>3, <3>4 DEF Delivery!Accept
  <2>2. ASSUME NEW c \in Connections, RegainConnection(c)
        PROVE  Delivery!Trial(job[c].msg) /\ job[c].msg \in Messages
    <3> DEFINE m == job[c].msg
               again == status[c] = "NONFATAL_FAILURE" /\ job[c].trials < MaxTrials
    <3>1. /\ c \in unavailable /\ m \in Messages /\ status[c] \in GatewayResult
          /\ reported' = [reported EXCEPT ![m] = @ + 1]
          /\ accepted' = accepted
          /\ \A n \in Messages \ {m} : outcome'[n] = outcome[n]
      BY <2>2, RegainEffect
    <3>2. isTerminate' = isTerminate
      BY <2>2 DEF RegainConnection
    <3>3. m \in accepted /\ outcome[m] = "none" /\ phaseBar[m] = "pending"
      BY <3>1 DEF EachMessageInOnePlace, InConnection, Finished, phaseBar
    <3>4. reported[m] + 1 = job[c].trials
      BY <3>1 DEF TrialsAreCounted
    <3>5. \A to : (to = IF outcome'[m] = "none" THEN "pending" ELSE outcome'[m])
                   => phaseBar' = [phaseBar EXCEPT ![m] = to]
      BY <3>1, <3>3 DEF phaseBar
    <3>6. CASE again
      <4>1. outcome'[m] = "none"
        BY <2>2, <3>3, <3>6, RegainEffect
      <4>2. Delivery!Retry(m)
        BY <3>1, <3>2, <3>3, <3>4, <3>5, <3>6, <4>1
           DEF Delivery!Retry, Delivery!Report
      <4>3. QED
        BY <3>1, <4>2 DEF Delivery!Trial
    <3>7. CASE ~again /\ status[c] = "NONFATAL_FAILURE"
      <4>1. outcome'[m] = "TIMEOUT_FAILURE"
        BY <2>2, <3>7, RegainEffect
      <4>2. job[c].trials >= MaxTrials
        BY <3>7, ConnectionManagerAssumption DEF TypeOK
      <4>3. Delivery!GiveUp(m)
        BY <3>1, <3>2, <3>3, <3>4, <3>5, <4>1, <4>2
           DEF Delivery!GiveUp, Delivery!Report
      <4>4. QED
        BY <3>1, <4>3 DEF Delivery!Trial
    <3>8. CASE status[c] # "NONFATAL_FAILURE"
      <4>1. outcome'[m] = status[c] /\ status[c] \in {"SUCCESS", "FATAL_FAILURE"}
        BY <2>2, <3>1, <3>8, RegainEffect DEF GatewayResult
      <4>2. Delivery!Report(m, status[c])
        BY <3>1, <3>2, <3>3, <3>5, <4>1 DEF Delivery!Report
      <4>3. QED
        BY <3>1, <4>1, <4>2 DEF Delivery!Trial, Delivery!End
    <3>9. QED
      BY <3>6, <3>7, <3>8
  <2>3. CASE BeginDestruction
    BY <2>3, HiddenStep DEF BeginDestruction, Delivery!Close, Delivery!DeliveryNext
  <2>4. ASSUME NEW c \in Connections,
               \/ SkipConnection(c) \/ SendNextDueMessage(c) \/ ThreadFails(c)
               \/ OnConnectionFinished(c) \/ DestroyConnection(c) \/ ThreadNext(c)
        PROVE  UNCHANGED Delivery!deliveryVars
    BY <2>4, HiddenStep DEF SkipConnection, SendNextDueMessage, ThreadFails,
       OnConnectionFinished, DestroyConnection, ThreadNext, ThreadWakeUp,
       GatewayReturns, LaunchCallback
  <2>5. CASE Tick \/ GoToSleep \/ WakeUp \/ NothingDue \/ NoneAvailable
             \/ UNCHANGED vars
    BY <2>5, HiddenStep DEF Tick, GoToSleep, WakeUp, NothingDue, NoneAvailable,
       vars
  <2>6. QED
    BY <2>1, <2>2, <2>3, <2>4, <2>5
       DEF Next, ManagerNext, Delivery!DeliveryNext
<1>3. QED
  BY <1>1, <1>2, Invariant, PTL DEF Spec, ImplementsDelivery, Delivery!Spec
=============================================================================
