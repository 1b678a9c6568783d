--------------------------- MODULE SequenceTransfer ---------------------------
(***************************************************************************)
(* Clients send sequences to a server over TCP (src/Networking/FMEClient,  *)
(* FMEServer, FMESession, FMESessionManager).  A client is one thread that *)
(* calls Send and Run in turn and repeats what Run says has failed; the    *)
(* server is the thread in Run, beside callers of Init and Stop.  Both run *)
(* the handlers of their io_service one after the other.  Connections may  *)
(* break, and others than the clients may connect.                         *)
(*                                                                         *)
(* A message is a header and Parts pieces of data, written one by one and  *)
(* read in any portions.  Strangers send what is bad: its header is, or its*)
(* data has another length or cannot be decoded.                           *)
(***************************************************************************)
EXTENDS Naturals, FiniteSets

CONSTANTS
  Clients,
  Endpoints,       \* how many endpoints the resolver has for the server
  Listening,       \* the one among them the server listens at
  Parts,
  Stranger,        \* all others that connect
  MaxConnections,
  MaxItems,        \* sequences of each client
  MaxFailures,     \* connections that break and accepts that fail
  MaxRuns          \* of the server, not counting those without an Init before

ASSUME TransferAssumption ==
  /\ Endpoints \in Nat \ {0} /\ Listening \in 1 .. Endpoints
  /\ Parts \in Nat \ {0}
  /\ MaxConnections \in Nat /\ MaxItems \in Nat
  /\ MaxFailures \in Nat /\ MaxRuns \in Nat
  /\ Stranger \notin Clients

VARIABLES
  phase,      \* of each client: "idle", "connecting", "writing", "written"
  item,       \* the sequence it sends, a number
  again,      \* the last Run returned false
  iterator,   \* hostEndpointIt
  endpoint,   \* hostEndpoint, the one it connects to or knows to be good
  isValid,    \* isValidEndpoint
  tried,      \* history: the endpoints that refused since Send
  conn,       \* the connections made so far, a function on 1 .. n
  server,     \* "new", "ready" (isInit), "running", "ending"
  stopped,    \* the io_service is stopped, by a call or because it ran out of work
  accepting,  \* an async_accept is pending, on an open acceptor
  open,       \* the acceptor listens
  runs, failures,
  requested,  \* history: Stop was called since Run returned last
  unprepared, \* history: the Run that returned last had no Init before it
  interrupted, \* history: a Run was ended by Stop or by an exception
  undefined   \* a handler was called for a session that is destroyed

clientVars == <<phase, item, again, iterator, endpoint, isValid, tried>>
serverHistory == <<requested, unprepared, interrupted>>
serverVars == <<server, stopped, accepting, open, runs, serverHistory>>
vars == <<clientVars, serverVars, conn, failures, undefined>>

\* Each connection knows its client's side: "open", "closed" (shut down after
\* writing) or "reset"; what of it has arrived at the server and what was
\* read; and its session: "none" before it is accepted, "header" and "data"
\* while reading, "queued" when it is destroyed with a handler in the
\* io_service, "gone"; and whether its sequence was decoded and signalled.
Connections == DOMAIN conn

\* Another connection, beside those of the clients that connect already.
Room ==
  Cardinality(Connections) + Cardinality({k \in Clients : phase[k] = "connecting"})
    < MaxConnections

Connect(owner, number, kind) ==
  conn' = [c \in Connections \cup {Cardinality(Connections) + 1} |->
               IF c \in Connections THEN conn[c]
               ELSE [owner |-> owner, item |-> number, kind |-> kind,
                     side |-> "open", sent |-> 0, read |-> 0,
                     session |-> "none", found |-> FALSE]]

Init ==
  /\ phase = [k \in Clients |-> "idle"]
  /\ item = [k \in Clients |-> 0]
  /\ again = [k \in Clients |-> FALSE]
  /\ iterator = [k \in Clients |-> 1]
  /\ endpoint = [k \in Clients |-> 1]
  /\ isValid = [k \in Clients |-> FALSE]
  /\ tried = [k \in Clients |-> {}]
  /\ conn = <<>>
  /\ server = "new"
  /\ stopped = FALSE
  /\ accepting = FALSE
  /\ open = FALSE
  /\ runs = 0
  /\ failures = 0
  /\ requested = FALSE
  /\ unprepared = FALSE
  /\ interrupted = FALSE
  /\ undefined = FALSE

-----------------------------------------------------------------------------
(* The client.                                                             *)

\* Send and PerformSending, of the next sequence or of one that failed.
Send(k) ==
  /\ phase[k] = "idle"
  /\ Room
  /\ again[k] \/ item[k] < MaxItems
  /\ item' = [item EXCEPT ![k] = IF again[k] THEN @ ELSE @ + 1]
  /\ phase' = [phase EXCEPT ![k] = "connecting"]
  /\ tried' = [tried EXCEPT ![k] = {}]
  /\ IF isValid[k] THEN UNCHANGED <<endpoint, iterator>>
     ELSE /\ endpoint' = [endpoint EXCEPT ![k] = iterator[k]]
          /\ iterator' = [iterator EXCEPT ![k] = @ + 1]
  /\ UNCHANGED <<again, isValid, conn, serverVars, failures, undefined>>

\* HandleDirectConnect without an error: the session starts to write.  The
\* system connects as soon as the server listens.
Connected(k) ==
  /\ phase[k] = "connecting"
  /\ open /\ endpoint[k] = Listening
  /\ Connect(k, item[k], "good")
  /\ phase' = [phase EXCEPT ![k] = "writing"]
  /\ isValid' = [isValid EXCEPT ![k] = TRUE]
  /\ UNCHANGED <<item, again, iterator, endpoint, tried, serverVars, failures,
                 undefined>>

\* Run returns; after an exception everything is reset for another trial.
Return(k, success) ==
  /\ phase' = [phase EXCEPT ![k] = "idle"]
  /\ again' = [again EXCEPT ![k] = ~success]

IteratorStays(k) == UNCHANGED iterator
IteratorResets(k) == iterator' = [iterator EXCEPT ![k] = 1]

Fail(k) ==
  /\ Return(k, FALSE)
  /\ IteratorResets(k)
  /\ isValid' = [isValid EXCEPT ![k] = FALSE]

Unreachable(k) == ~open \/ endpoint[k] # Listening

\* The endpoint it was given by HandleConnect is one after the other.
Refused(k) ==
  /\ phase[k] = "connecting" /\ Unreachable(k)
  /\ tried' = [tried EXCEPT ![k] = @ \cup {endpoint[k]}]
  /\ UNCHANGED <<item, conn, serverVars, failures, undefined>>

EndpointStays(k) == UNCHANGED endpoint
EndpointAdvances(k) == endpoint' = [endpoint EXCEPT ![k] = @ + 1]

NextEndpoint(k) ==
  /\ Refused(k)
  /\ ~isValid[k] /\ endpoint[k] < Endpoints
  /\ EndpointAdvances(k)
  /\ UNCHANGED <<phase, again, iterator, isValid>>

NoEndpoint(k) ==
  /\ Refused(k)
  /\ isValid[k] \/ endpoint[k] = Endpoints
  /\ Fail(k)
  /\ UNCHANGED endpoint

\* The connection of a client that writes is its last one.
Own(k) ==
  CHOOSE c \in Connections :
    conn[c].owner = k /\ \A d \in Connections : conn[d].owner = k => d <= c

\* The server has closed the socket.
Closed(c) == conn[c].session \in {"queued", "gone"}

\* async_write: the last piece is accepted by the system and the handler is
\* called without an error, whatever then becomes of the connection.
Write(k) ==
  /\ phase[k] = "writing" /\ conn[Own(k)].side = "open"
  /\ conn' = [conn EXCEPT ![Own(k)].sent = @ + 1]
  /\ phase' = IF conn[Own(k)].sent = Parts THEN [phase EXCEPT ![k] = "written"]
              ELSE phase
  /\ UNCHANGED <<item, again, iterator, endpoint, isValid, tried, serverVars,
                 failures, undefined>>

\* HandleWrite, without and with an error.
Written(k) ==
  /\ phase[k] = "written"
  /\ conn' = [conn EXCEPT ![Own(k)].side = IF @ = "open" THEN "closed" ELSE @]
  /\ Return(k, TRUE)
  /\ UNCHANGED <<item, iterator, endpoint, isValid, tried, serverVars,
                 failures, undefined>>

WriteFails(k) ==
  /\ phase[k] = "writing"
  /\ conn[Own(k)].side = "reset" \/ Closed(Own(k))
  /\ conn' = [conn EXCEPT ![Own(k)].side = "reset"]
  /\ Fail(k)
  /\ UNCHANGED <<item, endpoint, tried, serverVars, failures, undefined>>

ClientNext(k) ==
  \/ Connected(k) \/ NextEndpoint(k) \/ NoEndpoint(k)
  \/ Write(k) \/ Written(k) \/ WriteFails(k)

-----------------------------------------------------------------------------
(* The network, and others that connect.                                   *)

\* The connection breaks; what has not been read may be lost.
Lose(c) ==
  /\ failures < MaxFailures
  /\ failures' = failures + 1
  /\ conn[c].side # "reset" /\ ~Closed(c)
  /\ \E n \in conn[c].read .. conn[c].sent :
       conn' = [conn EXCEPT ![c].side = "reset", ![c].sent = n]
  /\ UNCHANGED <<clientVars, serverVars, undefined>>

ForeignConnect ==
  /\ open /\ Room
  /\ Connect(Stranger, 0, "bad")
  /\ UNCHANGED <<clientVars, serverVars, failures, undefined>>

ForeignWrite(c) ==
  /\ conn[c].owner = Stranger /\ conn[c].side = "open"
  /\ \/ conn[c].sent <= Parts /\ conn' = [conn EXCEPT ![c].sent = @ + 1]
     \/ conn' = [conn EXCEPT ![c].side = "closed"]
  /\ UNCHANGED <<clientVars, serverVars, failures, undefined>>

-----------------------------------------------------------------------------
(* The server.                                                             *)

\* Connections that were never accepted break when the acceptor is closed.
Unaccepted(c) ==
  IF conn[c].session = "none" THEN [conn[c] EXCEPT !.side = "reset", !.session = "gone"]
  ELSE conn[c]

InitServer ==
  /\ server \in {"new", "ready"}
  /\ server' = "ready"
  /\ open' = TRUE
  /\ accepting' = TRUE
  /\ conn' = [c \in Connections |-> Unaccepted(c)]
  /\ UNCHANGED <<clientVars, stopped, runs, serverHistory, failures, undefined>>

\* Run only asks whether Init was ever called, so it may find the acceptor
\* closed by an earlier Run and the io_service stopped.
RunServer ==
  /\ server = "ready"
  /\ open => runs < MaxRuns
  /\ server' = "running"
  /\ runs' = IF open THEN runs + 1 ELSE runs
  /\ UNCHANGED <<clientVars, stopped, accepting, open, serverHistory, conn, failures,
                 undefined>>

\* It also finishes a server that does not run yet.
Stop ==
  /\ ~requested
  /\ requested' = TRUE
  /\ stopped' = TRUE
  /\ UNCHANGED <<clientVars, server, accepting, open, runs, unprepared, interrupted, conn,
                 failures, undefined>>

\* io_service::run calls the handlers until it is stopped.
Dispatching == server = "running" /\ ~stopped

\* HandleAccept and StartRead, of the connection that waits longest.
IsAccepted(c) ==
  /\ Dispatching /\ accepting
  /\ conn[c].session = "none"
  /\ \A d \in Connections : conn[d].session = "none" => c <= d

Accept(c) ==
  /\ IsAccepted(c)
  /\ conn' = [conn EXCEPT ![c].session = "header"]
  /\ UNCHANGED <<clientVars, serverVars, failures, undefined>>

\* set_option throws for a connection that is broken already: the exception
\* leaves StartRead, HandleAccept and io_service::run, which is not stopped
\* by it.
AcceptThrows(c) ==
  /\ IsAccepted(c) /\ conn[c].side = "reset"
  /\ conn' = [conn EXCEPT ![c].session = "gone"]
  /\ accepting' = FALSE
  /\ server' = "ending"
  /\ interrupted' = TRUE
  /\ UNCHANGED <<clientVars, stopped, open, runs, requested, unprepared, failures,
                 undefined>>

\* HandleAccept with an error waits for no further client.
AcceptFails ==
  /\ Dispatching /\ accepting
  /\ failures < MaxFailures
  /\ failures' = failures + 1
  /\ accepting' = FALSE
  /\ UNCHANGED <<clientVars, server, stopped, open, runs, serverHistory, conn, undefined>>

Session(c, record) ==
  /\ conn' = [conn EXCEPT ![c] = record]
  /\ UNCHANGED <<clientVars, serverVars, failures, undefined>>

\* With a bad header, one way of sending what is bad, the handler returns
\* before it reads on.
ReadsOn(c) == IF conn[c].kind = "good" THEN {"data"} ELSE {"data", "queued"}
AfterHeader(c) == IF conn[c].kind = "good" THEN {"data"} ELSE {"data", "gone"}

\* HandleReadHeader: some of the data may have been read with the header.
ReadHeader(c) ==
  /\ Dispatching /\ conn[c].session = "header"
  /\ conn[c].sent > 0
  /\ \E n \in 1 .. conn[c].sent, session \in AfterHeader(c) :
       Session(c, [conn[c] EXCEPT !.read = n, !.session = session])

HeaderFails(c) ==
  /\ Dispatching /\ conn[c].session = "header"
  /\ conn[c].sent = 0 /\ conn[c].side # "open"
  /\ Session(c, [conn[c] EXCEPT !.session = "gone"])

\* HandleReadData, with bytes.
ReadData(c) ==
  /\ Dispatching /\ conn[c].session = "data"
  /\ \E n \in conn[c].read + 1 .. conn[c].sent :
       Session(c, [conn[c] EXCEPT !.read = n])

\* The size of the data is the announced one.
AnyLength(c) == TRUE
HeaderCounts(c) == conn[c].read = Parts
Complete(c) == conn[c].read = Parts + 1

\* HandleReadData without bytes: an end or any error.  DecodeSequenceData
\* signals the sequence.
EndOfData(c) ==
  /\ Dispatching /\ conn[c].session = "data"
  /\ conn[c].read = conn[c].sent /\ conn[c].side # "open"
  /\ Session(c, [conn[c] EXCEPT !.session = "gone",
                 !.found = Complete(c) /\ conn[c].kind = "good"])

\* The handler that StopAll left in the io_service: its session is destroyed.
RunQueued(c) ==
  /\ Dispatching /\ conn[c].session = "queued"
  /\ undefined' = TRUE
  /\ UNCHANGED <<clientVars, serverVars, conn, failures>>

Handler(c) ==
  \/ Accept(c) \/ AcceptThrows(c) \/ ReadHeader(c) \/ HeaderFails(c)
  \/ ReadData(c) \/ EndOfData(c) \/ RunQueued(c)

\* io_service::run returns when it is stopped or out of work; it is stopped
\* then.
RunReturns ==
  /\ server = "running"
  /\ \/ stopped
     \/ ~accepting
        /\ \A c \in Connections : conn[c].session \notin {"header", "data", "queued"}
  /\ server' = "ending"
  /\ stopped' = TRUE
  /\ interrupted' = (interrupted \/ requested)
  /\ UNCHANGED <<clientVars, accepting, open, runs, requested, unprepared, conn, failures,
                 undefined>>

StopAll(c) ==
  IF conn[c].session \in {"header", "data"} THEN [conn[c] EXCEPT !.session = "queued"]
  ELSE Unaccepted(c)

ServiceStays == UNCHANGED stopped
ServiceReset == stopped' = FALSE

\* The rest of Run, which returns or throws what io_service::run has thrown.
Returned ==
  /\ server = "ending"
  /\ server' = "ready"
  /\ requested' = FALSE
  /\ unprepared' = ~open
  /\ UNCHANGED <<clientVars, runs, interrupted, failures, undefined>>

Cleanup ==
  /\ Returned
  /\ open
  /\ open' = FALSE
  /\ accepting' = FALSE
  /\ conn' = [c \in Connections |-> StopAll(c)]
  /\ ServiceReset

\* cancel throws when the acceptor is closed: the statements after it are not
\* executed.
CleanupThrows ==
  /\ Returned
  /\ ~open
  /\ UNCHANGED <<stopped, accepting, open, conn>>

ServerNext ==
  (\E c \in Connections : Handler(c)) \/ RunReturns \/ Cleanup \/ CleanupThrows

Next ==
  /\ ~undefined
  /\ \/ \E k \in Clients : Send(k) \/ ClientNext(k)
     \/ \E c \in Connections : Lose(c) \/ ForeignWrite(c)
     \/ ForeignConnect
     \/ InitServer \/ RunServer \/ Stop \/ AcceptFails
     \/ ServerNext

Spec == Init /\ [][Next]_vars

\* The system calls the handlers of each thread as long as there are any.
Fairness ==
  /\ \A k \in Clients : WF_vars(~undefined /\ ClientNext(k))
  /\ \A c \in 1 .. MaxConnections :
       WF_vars(~undefined /\ c \in Connections /\ Handler(c))
  /\ WF_vars(~undefined /\ (RunReturns \/ Cleanup \/ CleanupThrows))

FairSpec == Spec /\ Fairness

-----------------------------------------------------------------------------
TypeOK ==
  /\ phase \in [Clients -> {"idle", "connecting", "writing", "written"}]
  /\ item \in [Clients -> 0 .. MaxItems]
  /\ again \in [Clients -> BOOLEAN]
  /\ iterator \in [Clients -> 1 .. Endpoints + 1]
  /\ endpoint \in [Clients -> 1 .. Endpoints]
  /\ isValid \in [Clients -> BOOLEAN]
  /\ tried \in [Clients -> SUBSET (1 .. Endpoints)]
  /\ \E n \in 0 .. MaxConnections :
       conn \in [1 .. n ->
         [owner : Clients \cup {Stranger}, item : 0 .. MaxItems,
          kind : {"good", "bad"},
          side : {"open", "closed", "reset"},
          sent : 0 .. Parts + 1, read : 0 .. Parts + 1,
          session : {"none", "header", "data", "queued", "gone"},
          found : BOOLEAN]]
  /\ server \in {"new", "ready", "running", "ending"}
  /\ {stopped, accepting, open, requested, unprepared, interrupted, undefined}
       \subseteq BOOLEAN
  /\ runs \in 0 .. MaxRuns /\ failures \in 0 .. MaxFailures

\* A sequence is signalled at most once however often its client repeats it
\* after a false of Run, over any number of connections and runs of the
\* server (FMEClient::Run, HandleWrite, HandleReadData).
FoundOnce ==
  \A c, d \in Connections :
    conn[c].found /\ conn[d].found
      => c = d \/ <<conn[c].owner, conn[c].item>> # <<conn[d].owner, conn[d].item>>

\* A session that ends by itself has no handler left, so a handler is called
\* for a session that is destroyed only after Stop or an exception has ended a
\* Run while it was reading (HandleReadHeader, HandleReadData, StopAll).
StaleNeedsInterruption == undefined => interrupted

\* Run serves, on whatever way the Run before it ended: it returns at once
\* only when Stop was called, or when the Run before had no Init and so left
\* the io_service stopped (FMEServer.cpp:186, :190).
RunServes == server = "running" /\ stopped => requested \/ unprepared

\* A client that gives up without knowing a good endpoint has asked all of
\* them, after any number of failures before (hostEndpointIt).
FailureTriedAll ==
  [][\A k \in Clients :
       phase[k] = "connecting" /\ phase'[k] = "idle" /\ ~isValid[k]
         => tried'[k] = 1 .. Endpoints]_vars

\* Each Run of a client returns, whatever the server and the network do.
ClientReturns ==
  \A k \in Clients : phase[k] # "idle" ~> phase[k] = "idle" \/ undefined

\* What a client sent is signalled, whatever the other connections send or
\* withhold, unless its connection breaks or the server is stopped or accepts
\* no more.
Serving == server = "running" /\ ~stopped /\ accepting
TransmittedIsFound ==
  \A c \in 1 .. MaxConnections :
    (c \in Connections /\ conn[c].kind = "good" /\ conn[c].side = "closed")
      ~> \/ c \in Connections /\ (conn[c].found \/ conn[c].side = "reset")
         \/ ~Serving \/ undefined
=============================================================================
