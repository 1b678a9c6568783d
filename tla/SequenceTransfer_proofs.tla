------------------------ MODULE SequenceTransfer_proofs ------------------------
(***************************************************************************)
(* Proofs about SequenceTransfer, for any number of clients, endpoints,    *)
(* parts, connections, sequences, failures and runs of the server.         *)
(***************************************************************************)
EXTENDS SequenceTransfer, FiniteSetTheorems, TLAPS

\* A client knows no good endpoint before its first connection and after an
\* exception; it then asks the endpoints one after the other.
EndpointsInOrder ==
  \A k \in Clients :
    /\ phase[k] \in {"writing", "written"} => isValid[k]
    /\ ~isValid[k] /\ phase[k] = "idle" => iterator[k] = 1
    /\ ~isValid[k] /\ phase[k] = "connecting" => tried[k] = 1 .. endpoint[k] - 1

\* There is a connection left for every client that connects.
Connecting == {k \in Clients : phase[k] = "connecting"}
RoomIsKept ==
  /\ IsFiniteSet(Connecting)
  /\ Cardinality(Connections) + Cardinality(Connecting) <= MaxConnections

\* Only what was read as a whole, from a client, is signalled.
FoundIsComplete ==
  \A c \in Connections :
    /\ conn[c].read <= conn[c].sent
    /\ conn[c].kind = "good" => conn[c].owner \in Clients
    /\ conn[c].found =>
         conn[c].kind = "good" /\ conn[c].read = Parts + 1 /\ conn[c].session = "gone"

\* The connection on which a client writes, and one that will never bring a
\* whole sequence.
IsLast(k, c) ==
  /\ c \in Connections /\ conn[c].owner = k
  /\ \A d \in Connections : conn[d].owner = k => d <= c
IsDead(c) == conn[c].side = "reset" /\ conn[c].sent <= Parts

\* A sequence is sent on another connection only when the ones before are dead.
ItemsCount ==
  \A k \in Clients, c \in Connections :
    conn[c].owner = k => conn[c].item <= item[k]
EarlierAreDead ==
  \A c, d \in Connections :
    /\ c < d /\ conn[c].owner \in Clients
    /\ conn[d].owner = conn[c].owner /\ conn[d].item = conn[c].item
    => IsDead(c)
DeadWhenRepeated ==
  \A k \in Clients :
    phase[k] = "connecting" \/ (phase[k] = "idle" /\ again[k])
      => \A c \in Connections :
           conn[c].owner = k /\ conn[c].item = item[k] => IsDead(c)
WritesOnLast ==
  \A k \in Clients :
    phase[k] \in {"writing", "written"}
      => \E c \in Connections :
           /\ IsLast(k, c) /\ conn[c].item = item[k]
           /\ phase[k] = "writing" => conn[c].sent <= Parts
RepeatedWhenDead == ItemsCount /\ EarlierAreDead /\ DeadWhenRepeated /\ WritesOnLast

\* Sessions read only while Run has the acceptor open; when Run then ends, or
\* will not dispatch any more, that was asked for or an exception.
Reads(c) == conn[c].session \in {"header", "data"}
ReadsInRun(c) ==
  /\ open /\ server \in {"running", "ending"}
  /\ server = "running" /\ stopped => requested
  /\ server = "ending" => interrupted

\* What concerns the server: why its io_service is stopped, and why a handler
\* is left for a session that is destroyed.
ServerInv ==
  /\ accepting => open
  /\ server # "ending" /\ stopped => requested \/ unprepared
  /\ undefined => interrupted
  /\ \A c \in Connections :
       /\ Reads(c) => ReadsInRun(c)
       /\ conn[c].session = "queued" => interrupted

\* What concerns the clients and their connections.
ClientInv ==
  /\ TypeOK
  /\ EndpointsInOrder
  /\ RoomIsKept
  /\ FoundIsComplete
  /\ RepeatedWhenDead

IInv == ClientInv /\ ServerInv

ConnType ==
  [owner : Clients \cup {Stranger}, item : 0 .. MaxItems,
   kind : {"good", "bad"},
   side : {"open", "closed", "reset"},
   sent : 0 .. Parts + 1, read : 0 .. Parts + 1,
   session : {"none", "header", "data", "queued", "gone"},
   found : BOOLEAN]

\* The types, without those of the connections.
PlainTypes ==
  /\ phase \in [Clients -> {"idle", "connecting", "writing", "written"}]
  /\ item \in [Clients -> 0 .. MaxItems]
  /\ again \in [Clients -> BOOLEAN]
  /\ iterator \in [Clients -> 1 .. Endpoints + 1]
  /\ endpoint \in [Clients -> 1 .. Endpoints]
  /\ isValid \in [Clients -> BOOLEAN]
  /\ tried \in [Clients -> SUBSET (1 .. Endpoints)]
  /\ server \in {"new", "ready", "running", "ending"}
  /\ {stopped, accepting, open, requested, unprepared, interrupted, undefined}
       \subseteq BOOLEAN
  /\ runs \in 0 .. MaxRuns /\ failures \in 0 .. MaxFailures

\* The connections are numbered.
LEMMA ConnectionsNumbered ==
  ASSUME TypeOK
  PROVE  /\ PlainTypes
         /\ Cardinality(Connections) \in 0 .. MaxConnections
         /\ Connections = 1 .. Cardinality(Connections)
         /\ conn \in [1 .. Cardinality(Connections) -> ConnType]
<1>1. PICK n \in 0 .. MaxConnections : conn \in [1 .. n -> ConnType]
  BY DEF TypeOK, ConnType
<1>2. n \in Nat BY TransferAssumption
<1>3. Connections = 1 .. n BY <1>1 DEF Connections
<1>4. Cardinality(Connections) = n
  BY <1>2, <1>3, FS_Interval
<1>5. PlainTypes BY DEF TypeOK, PlainTypes
<1> QED BY <1>1, <1>2, <1>3, <1>4, <1>5

LEMMA TypesFrom ==
  ASSUME PlainTypes, NEW n \in 0 .. MaxConnections, conn \in [1 .. n -> ConnType]
  PROVE  TypeOK
BY DEF TypeOK, PlainTypes, ConnType

\* A step that keeps the connections or changes some of them keeps their number.
LEMMA SameConnections ==
  ASSUME TypeOK, PlainTypes', Connections' = Connections,
         \A c \in Connections : conn'[c] \in ConnType,
         conn' = [c \in Connections |-> conn'[c]]
  PROVE  TypeOK'
<1> DEFINE n == Cardinality(Connections)
<1>1. n \in 0 .. MaxConnections /\ Connections = 1 .. n BY ConnectionsNumbered
<1> HIDE DEF n
<1>2. conn' \in [1 .. n -> ConnType] BY <1>1
<1> QED BY <1>1, <1>2, PlainTypes' DEF TypeOK, PlainTypes, ConnType

-----------------------------------------------------------------------------
(* Steps of the server, of the network and of others.                      *)

\* What they may do to a connection.
QuietChange(r, s) ==
  /\ s.owner = r.owner /\ s.item = r.item /\ s.kind = r.kind
  /\ r.side = "reset" => s.side = "reset"
  /\ s.sent <= r.sent \/ r.owner = Stranger
  /\ s.read <= s.sent
  /\ s.found => s.kind = "good" /\ s.read = Parts + 1 /\ s.session = "gone"

LEMMA QuietStep ==
  ASSUME ClientInv, PlainTypes', UNCHANGED clientVars, Connections' = Connections,
         conn' = [c \in Connections |-> conn'[c]],
         \A c \in Connections : conn'[c] \in ConnType /\ QuietChange(conn[c], conn'[c])
  PROVE  TypeOK' /\ EndpointsInOrder' /\ RoomIsKept' /\ FoundIsComplete' /\ RepeatedWhenDead'
<1>1. TypeOK' BY SameConnections DEF ClientInv
<1>2. EndpointsInOrder' BY DEF ClientInv, EndpointsInOrder, clientVars
<1>3. RoomIsKept' BY DEF ClientInv, RoomIsKept, Connecting, clientVars
<1>4. FoundIsComplete' BY DEF ClientInv, FoundIsComplete, QuietChange
<1>5. RepeatedWhenDead'
  <2>1. \A c \in Connections : conn[c] \in ConnType /\ conn'[c] \in ConnType
    BY ConnectionsNumbered DEF ClientInv
  <2>2. \A c \in Connections : IsDead(c) /\ conn[c].owner # Stranger => IsDead(c)'
    BY <2>1, TransferAssumption DEF IsDead, QuietChange, ConnType
  <2>3. \A c \in Connections : conn'[c].owner = conn[c].owner /\ conn'[c].item = conn[c].item
    BY DEF QuietChange
  <2>4. \A c \in Connections : conn'[c].sent <= conn[c].sent \/ conn[c].owner = Stranger
    BY DEF QuietChange
  <2>5. \A k, c : IsLast(k, c)' <=> IsLast(k, c) BY <2>3 DEF IsLast
  <2>6. phase' = phase /\ item' = item /\ again' = again BY DEF clientVars
  <2>7. \A k \in Clients : k # Stranger BY TransferAssumption
  <2>8. ItemsCount /\ EarlierAreDead /\ DeadWhenRepeated /\ WritesOnLast
    BY DEF ClientInv, RepeatedWhenDead
  <2>9. ItemsCount' BY <2>3, <2>6, <2>8 DEF ItemsCount
  <2>10. EarlierAreDead' BY <2>2, <2>3, <2>7, <2>8 DEF EarlierAreDead
  <2>11. DeadWhenRepeated' BY <2>2, <2>3, <2>6, <2>7, <2>8 DEF DeadWhenRepeated
  <2>12. WritesOnLast'
    <3> SUFFICES ASSUME NEW k \in Clients, phase[k] \in {"writing", "written"}
                 PROVE  \E c \in Connections :
                          /\ IsLast(k, c)' /\ conn'[c].item = item[k]
                          /\ phase[k] = "writing" => conn'[c].sent <= Parts
      BY <2>6 DEF WritesOnLast
    <3>1. PICK c \in Connections :
            /\ IsLast(k, c) /\ conn[c].item = item[k]
            /\ phase[k] = "writing" => conn[c].sent <= Parts
      BY <2>8 DEF WritesOnLast
    <3>2. conn[c].owner # Stranger BY <2>7, <3>1 DEF IsLast
    <3>3. conn'[c].sent <= conn[c].sent BY <2>4, <3>2
    <3>4. phase[k] = "writing" => conn'[c].sent <= Parts
      BY <2>1, <3>1, <3>3, TransferAssumption DEF ConnType
    <3> QED BY <2>3, <2>5, <3>1, <3>4
  <2> QED BY <2>9, <2>10, <2>11, <2>12 DEF RepeatedWhenDead
<1> QED BY <1>1, <1>2, <1>3, <1>4, <1>5

\* A step that changes only one connection.
LEMMA OneConnection ==
  ASSUME ClientInv, NEW c \in Connections, NEW r \in ConnType,
         conn' = [conn EXCEPT ![c] = r]
  PROVE  /\ Connections' = Connections
         /\ conn' = [d \in Connections |-> conn'[d]]
         /\ \A d \in Connections : conn[d] \in ConnType /\ conn'[d] \in ConnType
         /\ conn'[c] = r
         /\ \A d \in Connections \ {c} : conn'[d] = conn[d]
<1>1. conn \in [Connections -> ConnType] BY ConnectionsNumbered DEF ClientInv
<1> QED BY <1>1 DEF Connections

LEMMA OneQuietChange ==
  ASSUME ClientInv, PlainTypes', UNCHANGED clientVars,
         NEW c \in Connections, NEW r \in ConnType,
         conn' = [conn EXCEPT ![c] = r], QuietChange(conn[c], r)
  PROVE  ClientInv'
<1>1. /\ Connections' = Connections
      /\ conn' = [d \in Connections |-> conn'[d]]
      /\ \A d \in Connections : conn[d] \in ConnType /\ conn'[d] \in ConnType
      /\ conn'[c] = r
      /\ \A d \in Connections \ {c} : conn'[d] = conn[d]
  BY OneConnection
<1>2. \A d \in Connections : QuietChange(conn[d], conn'[d])
  <2> TAKE d \in Connections
  <2>1. CASE d = c BY <1>1, <2>1
  <2>2. CASE d # c
    <3>1. conn'[d] = conn[d] BY <1>1, <2>2
    <3>2. conn[d].sent <= conn[d].sent BY <1>1, TransferAssumption DEF ConnType
    <3> QED BY <3>1, <3>2 DEF ClientInv, FoundIsComplete, QuietChange
  <2> QED BY <2>1, <2>2
<1> QED BY <1>1, <1>2, QuietStep DEF ClientInv

\* A step that changes no connection.
LEMMA NoConnectionChanges ==
  ASSUME ClientInv, PlainTypes', UNCHANGED <<clientVars, conn>>
  PROVE  ClientInv'
<1>1. conn \in [Connections -> ConnType] BY ConnectionsNumbered DEF ClientInv
<1>2. Connections' = Connections BY DEF Connections
<1>3. conn' = [c \in Connections |-> conn'[c]] BY <1>1
<1>4. \A c \in Connections : conn'[c] \in ConnType /\ QuietChange(conn[c], conn'[c])
  BY <1>1, TransferAssumption DEF ClientInv, FoundIsComplete, QuietChange, ConnType
<1> QED BY <1>2, <1>3, <1>4, QuietStep DEF ClientInv

LEMMA PlainTypesHold == ClientInv => PlainTypes
BY ConnectionsNumbered DEF ClientInv

LEMMA LosePreserves ==
  ASSUME ClientInv, NEW c \in Connections, Lose(c)
  PROVE  ClientInv'
<1>1. conn[c] \in ConnType BY ConnectionsNumbered DEF ClientInv
<1>2. PICK n \in conn[c].read .. conn[c].sent :
        conn' = [conn EXCEPT ![c].side = "reset", ![c].sent = n]
  BY DEF Lose
<1> DEFINE r == [conn[c] EXCEPT !.side = "reset", !.sent = n]
<1>3. conn' = [conn EXCEPT ![c] = r] BY <1>1, <1>2
<1>4. r \in ConnType
  <2>1. n \in 0 .. Parts + 1 BY <1>1, TransferAssumption DEF ConnType
  <2> QED BY <1>1, <2>1 DEF ConnType
<1>5. QuietChange(conn[c], r)
  BY <1>1, TransferAssumption DEF ClientInv, FoundIsComplete, QuietChange, ConnType
<1>6. PlainTypes'
  BY PlainTypesHold, TransferAssumption DEF PlainTypes, Lose, clientVars, serverVars, serverHistory
<1> HIDE DEF r
<1> QED BY <1>3, <1>4, <1>5, <1>6, OneQuietChange DEF Lose

LEMMA ForeignWritePreserves ==
  ASSUME ClientInv, NEW c \in Connections, ForeignWrite(c)
  PROVE  ClientInv'
<1>1. conn[c] \in ConnType BY ConnectionsNumbered DEF ClientInv
<1>2. PlainTypes'
  BY PlainTypesHold DEF PlainTypes, ForeignWrite, clientVars, serverVars, serverHistory
<1>3. conn[c].owner = Stranger /\ conn[c].side = "open" BY DEF ForeignWrite
<1>4. CASE conn[c].sent <= Parts /\ conn' = [conn EXCEPT ![c].sent = @ + 1]
  <2> DEFINE r == [conn[c] EXCEPT !.sent = @ + 1]
  <2>1. conn' = [conn EXCEPT ![c] = r] BY <1>1, <1>4
  <2>2. r \in ConnType BY <1>1, <1>4, TransferAssumption DEF ConnType
  <2>3. QuietChange(conn[c], r)
    BY <1>1, <1>3, TransferAssumption DEF ClientInv, FoundIsComplete, QuietChange, ConnType
  <2> HIDE DEF r
  <2> QED BY <1>2, <2>1, <2>2, <2>3, OneQuietChange DEF ForeignWrite
<1>5. CASE conn' = [conn EXCEPT ![c].side = "closed"]
  <2> DEFINE r == [conn[c] EXCEPT !.side = "closed"]
  <2>1. conn' = [conn EXCEPT ![c] = r] BY <1>1, <1>5
  <2>2. r \in ConnType BY <1>1 DEF ConnType
  <2>3. QuietChange(conn[c], r)
    BY <1>1, <1>3, TransferAssumption DEF ClientInv, FoundIsComplete, QuietChange, ConnType
  <2> HIDE DEF r
  <2> QED BY <1>2, <2>1, <2>2, <2>3, OneQuietChange DEF ForeignWrite
<1> QED BY <1>4, <1>5 DEF ForeignWrite

\* What a handler of a session may make of its connection.
LEMMA SessionPreserves ==
  ASSUME ClientInv, NEW c \in Connections, NEW r \in ConnType, Session(c, r),
         r.owner = conn[c].owner, r.item = conn[c].item, r.kind = conn[c].kind,
         r.side = conn[c].side, r.sent = conn[c].sent, r.read <= r.sent,
         r.found => r.kind = "good" /\ r.read = Parts + 1 /\ r.session = "gone"
  PROVE  ClientInv'
<1>1. conn[c] \in ConnType BY ConnectionsNumbered DEF ClientInv
<1>2. PlainTypes' BY PlainTypesHold DEF PlainTypes, Session, clientVars, serverVars, serverHistory
<1>3. QuietChange(conn[c], r) BY <1>1, TransferAssumption DEF QuietChange, ConnType
<1> QED BY <1>2, <1>3, OneQuietChange DEF Session

LEMMA HandlerPreserves ==
  ASSUME ClientInv, NEW c \in Connections, Handler(c)
  PROVE  ClientInv'
<1>1. conn[c] \in ConnType BY ConnectionsNumbered DEF ClientInv
<1>2. conn[c].read <= conn[c].sent /\ (conn[c].found => conn[c].session = "gone")
  BY DEF ClientInv, FoundIsComplete
<1>3. CASE Accept(c)
  <2> DEFINE r == [conn[c] EXCEPT !.session = "header"]
  <2>1. Session(c, r) BY <1>1, <1>3 DEF Accept, Session
  <2>2. r \in ConnType BY <1>1 DEF ConnType
  <2>3. ~conn[c].found BY <1>2, <1>3 DEF Accept, IsAccepted
  <2> QED BY <1>1, <1>2, <2>1, <2>2, <2>3, SessionPreserves DEF ConnType
<1>4. CASE ReadHeader(c)
  <2>1. PICK n \in 1 .. conn[c].sent, session \in {"data", "gone"} :
          Session(c, [conn[c] EXCEPT !.read = n, !.session = session])
    BY <1>4 DEF ReadHeader, AfterHeader
  <2> DEFINE r == [conn[c] EXCEPT !.read = n, !.session = session]
  <2>2. r \in ConnType
    <3>1. n \in 0 .. Parts + 1 BY <1>1, TransferAssumption DEF ConnType
    <3> QED BY <1>1, <3>1 DEF ConnType
  <2>3. ~conn[c].found BY <1>2, <1>4 DEF ReadHeader
  <2>4. /\ r.owner = conn[c].owner /\ r.item = conn[c].item /\ r.kind = conn[c].kind
        /\ r.side = conn[c].side /\ r.sent = conn[c].sent /\ r.read <= r.sent
        /\ r.found = conn[c].found
    BY <1>1, TransferAssumption DEF ConnType
  <2> HIDE DEF r
  <2> QED BY <2>1, <2>2, <2>3, <2>4, SessionPreserves DEF r
<1>5. CASE HeaderFails(c)
  <2> DEFINE r == [conn[c] EXCEPT !.session = "gone"]
  <2>1. Session(c, r) BY <1>5 DEF HeaderFails
  <2>2. r \in ConnType BY <1>1 DEF ConnType
  <2>3. ~conn[c].found BY <1>2, <1>5 DEF HeaderFails
  <2> QED BY <1>1, <1>2, <2>1, <2>2, <2>3, SessionPreserves DEF ConnType
<1>6. CASE ReadData(c)
  <2>1. PICK n \in conn[c].read + 1 .. conn[c].sent : Session(c, [conn[c] EXCEPT !.read = n])
    BY <1>6 DEF ReadData
  <2> DEFINE r == [conn[c] EXCEPT !.read = n]
  <2>2. r \in ConnType BY <1>1, TransferAssumption DEF ConnType
  <2>3. ~conn[c].found BY <1>2, <1>6 DEF ReadData
  <2>4. r.read <= r.sent BY <1>1, TransferAssumption DEF ConnType
  <2> QED BY <1>1, <2>1, <2>2, <2>3, <2>4, SessionPreserves DEF ConnType
<1>7. CASE EndOfData(c)
  <2> DEFINE whole == Complete(c) /\ conn[c].kind = "good"
             r == [conn[c] EXCEPT !.session = "gone", !.found = whole]
  <2>1. Session(c, r) BY <1>7 DEF EndOfData
  <2>2. r \in ConnType BY <1>1 DEF ConnType
  <2>3. r.found => r.kind = "good" /\ r.read = Parts + 1 /\ r.session = "gone"
    BY <1>1 DEF Complete, ConnType
  <2> QED BY <1>1, <1>2, <2>1, <2>2, <2>3, SessionPreserves DEF ConnType
<1>8. CASE RunQueued(c)
  <2>1. PlainTypes'
    BY <1>8, PlainTypesHold DEF RunQueued, PlainTypes, clientVars, serverVars, serverHistory
  <2> QED BY <1>8, <2>1, NoConnectionChanges DEF RunQueued
<1>9. CASE AcceptThrows(c)
  <2> DEFINE r == [conn[c] EXCEPT !.session = "gone"]
  <2>1. conn' = [conn EXCEPT ![c] = r] BY <1>1, <1>9 DEF AcceptThrows
  <2>2. r \in ConnType BY <1>1 DEF ConnType
  <2>3. ~conn[c].found BY <1>2, <1>9 DEF AcceptThrows, IsAccepted
  <2>4. QuietChange(conn[c], r)
    BY <1>1, <1>2, <2>3, TransferAssumption DEF QuietChange, ConnType
  <2>5. PlainTypes' BY <1>9, PlainTypesHold DEF AcceptThrows, PlainTypes, clientVars
  <2> HIDE DEF r
  <2> QED BY <1>9, <2>1, <2>2, <2>4, <2>5, OneQuietChange DEF AcceptThrows
<1> QED BY <1>3, <1>4, <1>5, <1>6, <1>7, <1>8, <1>9 DEF Handler

LEMMA ServerStatePreserves ==
  ASSUME ClientInv, RunServer \/ Stop \/ AcceptFails \/ RunReturns \/ CleanupThrows
  PROVE  ClientInv'
<1>1. PlainTypes'
  <2>1. CASE RunServer
    <3>1. runs' \in 0 .. MaxRuns
      BY <2>1, PlainTypesHold, TransferAssumption DEF PlainTypes, RunServer
    <3> QED BY <2>1, <3>1, PlainTypesHold
            DEF PlainTypes, RunServer, clientVars, serverHistory
  <2>2. CASE Stop BY <2>2, PlainTypesHold DEF PlainTypes, Stop, clientVars
  <2>3. CASE AcceptFails
    <3>1. failures' \in 0 .. MaxFailures
      BY <2>3, PlainTypesHold, TransferAssumption DEF PlainTypes, AcceptFails
    <3> QED BY <2>3, <3>1, PlainTypesHold
            DEF PlainTypes, AcceptFails, clientVars, serverHistory
  <2>4. CASE RunReturns BY <2>4, PlainTypesHold DEF PlainTypes, RunReturns, clientVars
  <2>5. CASE CleanupThrows
    BY <2>5, PlainTypesHold DEF PlainTypes, CleanupThrows, Returned, clientVars
  <2> QED BY <2>1, <2>2, <2>3, <2>4, <2>5
<1>2. UNCHANGED <<clientVars, conn>>
  BY DEF RunServer, Stop, AcceptFails, RunReturns, CleanupThrows, Returned
<1> QED BY <1>1, <1>2, NoConnectionChanges

\* The connections that nobody accepts break, others may lose their session.
LEMMA BrokenIsQuiet ==
  ASSUME ClientInv, NEW c \in Connections
  PROVE  /\ Unaccepted(c) \in ConnType /\ QuietChange(conn[c], Unaccepted(c))
         /\ StopAll(c) \in ConnType /\ QuietChange(conn[c], StopAll(c))
<1>1. conn[c] \in ConnType BY ConnectionsNumbered DEF ClientInv
<1>2. conn[c].sent \in Nat BY <1>1, TransferAssumption DEF ConnType
<1>3. conn[c].read <= conn[c].sent BY DEF ClientInv, FoundIsComplete
<1>4. conn[c].found =>
        conn[c].kind = "good" /\ conn[c].read = Parts + 1 /\ conn[c].session = "gone"
  BY DEF ClientInv, FoundIsComplete
<1>5. Unaccepted(c) \in ConnType /\ QuietChange(conn[c], Unaccepted(c))
  <2>1. CASE conn[c].session = "none"
    <3> DEFINE r == [conn[c] EXCEPT !.side = "reset", !.session = "gone"]
    <3>1. Unaccepted(c) = r BY <2>1 DEF Unaccepted
    <3>2. r \in ConnType BY <1>1 DEF ConnType
    <3>3. QuietChange(conn[c], r) BY <1>1, <1>2, <1>3, <1>4 DEF ConnType, QuietChange
    <3> QED BY <3>1, <3>2, <3>3
  <2>2. CASE conn[c].session # "none"
    BY <1>1, <1>2, <1>3, <1>4, <2>2 DEF Unaccepted, QuietChange
  <2> QED BY <2>1, <2>2
<1>6. CASE conn[c].session \in {"header", "data"}
  <2> DEFINE r == [conn[c] EXCEPT !.session = "queued"]
  <2>1. StopAll(c) = r BY <1>6 DEF StopAll
  <2>2. r \in ConnType BY <1>1 DEF ConnType
  <2>3. QuietChange(conn[c], r) BY <1>1, <1>2, <1>3, <1>4, <1>6 DEF ConnType, QuietChange
  <2> QED BY <1>1, <1>5, <2>1, <2>2, <2>3 DEF ConnType
<1>7. CASE conn[c].session \notin {"header", "data"}
  <2>1. StopAll(c) = Unaccepted(c) BY <1>7 DEF StopAll
  <2> QED BY <1>5, <2>1
<1> QED BY <1>5, <1>6, <1>7

LEMMA InitServerPreserves ==
  ASSUME ClientInv, InitServer
  PROVE  ClientInv'
<1>1. PlainTypes' BY PlainTypesHold DEF PlainTypes, InitServer, clientVars, serverHistory
<1>2. Connections' = Connections BY DEF InitServer, Connections
<1>3. \A c \in Connections : conn'[c] = Unaccepted(c) BY DEF InitServer
<1>4. \A c \in Connections : conn'[c] \in ConnType /\ QuietChange(conn[c], conn'[c])
  BY <1>3, BrokenIsQuiet
<1>5. conn' = [c \in Connections |-> conn'[c]] BY <1>3 DEF InitServer
<1> QED BY <1>1, <1>2, <1>4, <1>5, QuietStep DEF InitServer, ClientInv

LEMMA CleanupPreserves ==
  ASSUME ClientInv, Cleanup
  PROVE  ClientInv'
<1>1. PlainTypes'
  BY PlainTypesHold DEF PlainTypes, Cleanup, Returned, ServiceReset, clientVars
<1>2. Connections' = Connections BY DEF Cleanup, Connections
<1>3. \A c \in Connections : conn'[c] = StopAll(c) BY DEF Cleanup
<1>4. \A c \in Connections : conn'[c] \in ConnType /\ QuietChange(conn[c], conn'[c])
  BY <1>3, BrokenIsQuiet
<1>5. conn' = [c \in Connections |-> conn'[c]] BY <1>3 DEF Cleanup
<1> QED BY <1>1, <1>2, <1>4, <1>5, QuietStep DEF Cleanup, Returned, ClientInv

-----------------------------------------------------------------------------
(* New connections.                                                        *)

Latest == Cardinality(Connections) + 1

LEMMA ConnectEffect ==
  ASSUME ClientInv, PlainTypes', Cardinality(Connections) < MaxConnections,
         NEW o \in Clients \cup {Stranger}, NEW n \in 0 .. MaxItems,
         NEW kind \in {"good", "bad"}, Connect(o, n, kind)
  PROVE  /\ TypeOK'
         /\ Connections' = Connections \cup {Latest}
         /\ Cardinality(Connections)' = Latest
         /\ Latest \in Nat
         /\ \A c \in Connections : c \in Nat /\ c < Latest /\ conn'[c] = conn[c]
         /\ conn'[Latest] = [owner |-> o, item |-> n, kind |-> kind, side |-> "open",
                             sent |-> 0, read |-> 0, session |-> "none", found |-> FALSE]
<1> DEFINE m == Cardinality(Connections)
           r == [owner |-> o, item |-> n, kind |-> kind, side |-> "open",
                 sent |-> 0, read |-> 0, session |-> "none", found |-> FALSE]
<1>1. m \in 0 .. MaxConnections /\ Connections = 1 .. m /\ conn \in [1 .. m -> ConnType]
  BY ConnectionsNumbered DEF ClientInv
<1>2. Latest = m + 1 BY DEF Latest
<1>3. conn' = [c \in Connections \cup {Latest} |-> IF c \in Connections THEN conn[c] ELSE r]
  BY DEF Connect, Latest
<1>4. r \in ConnType BY TransferAssumption DEF ConnType
<1> HIDE DEF m, r
<1>5. Latest \in 1 .. MaxConnections /\ Latest \in Nat /\ Latest \notin Connections
  BY <1>1, <1>2, m < MaxConnections, TransferAssumption DEF m
<1>6. Connections \cup {Latest} = 1 .. Latest BY <1>1, <1>2, <1>5
<1>7. conn' \in [1 .. Latest -> ConnType] BY <1>1, <1>3, <1>4, <1>5, <1>6
<1>8. Connections' = 1 .. Latest BY <1>7 DEF Connections
<1>9. Cardinality(1 .. Latest) = Latest BY <1>5, FS_Interval
<1>10. TypeOK'
  <2>1. Latest \in 0 .. MaxConnections BY <1>5
  <2> QED BY <1>7, <2>1, PlainTypes' DEF TypeOK, PlainTypes, ConnType
<1>11. \A c \in Connections : c \in Nat /\ c < Latest BY <1>1, <1>2, <1>5
<1> QED BY <1>3, <1>5, <1>6, <1>8, <1>9, <1>10, <1>11 DEF r

LEMMA ConnectedPreserves ==
  ASSUME ClientInv, NEW k \in Clients, Connected(k)
  PROVE  ClientInv'
<1>1. /\ phase[k] = "connecting"
      /\ phase' = [phase EXCEPT ![k] = "writing"]
      /\ isValid' = [isValid EXCEPT ![k] = TRUE]
      /\ UNCHANGED <<item, again, iterator, endpoint, tried, server, stopped,
                     accepting, open, runs, requested, unprepared, interrupted,
                     failures, undefined>>
      /\ open
  BY DEF Connected, serverVars, serverHistory
<1>2. PlainTypes' BY <1>1, PlainTypesHold DEF PlainTypes
<1>3. /\ phase \in [Clients -> {"idle", "connecting", "writing", "written"}]
      /\ item \in [Clients -> 0 .. MaxItems]
      /\ isValid \in [Clients -> BOOLEAN]
  BY PlainTypesHold DEF PlainTypes
<1>4. k \in Connecting /\ IsFiniteSet(Connecting) BY <1>1 DEF Connecting, ClientInv, RoomIsKept
<1>5. Connecting' = Connecting \ {k} BY <1>1, <1>3 DEF Connecting
<1>6. /\ IsFiniteSet(Connecting')
      /\ Cardinality(Connecting') = Cardinality(Connecting) - 1
      /\ Cardinality(Connecting') \in Nat
  BY <1>4, <1>5, FS_RemoveElement, FS_CardinalityType
<1>7. Cardinality(Connections) \in Nat BY ConnectionsNumbered, TransferAssumption DEF ClientInv
<1>8. Cardinality(Connecting) \in Nat BY <1>4, FS_CardinalityType
<1>9. /\ Cardinality(Connections) < MaxConnections
      /\ Latest + Cardinality(Connecting') <= MaxConnections
  BY <1>6, <1>7, <1>8, TransferAssumption DEF ClientInv, RoomIsKept, Latest
<1>10. item[k] \in 0 .. MaxItems BY <1>3
<1>11. Connect(k, item[k], "good") BY DEF Connected
<1>12. /\ TypeOK'
       /\ Connections' = Connections \cup {Latest}
       /\ Cardinality(Connections)' = Latest
       /\ Latest \in Nat
       /\ \A c \in Connections : c \in Nat /\ c < Latest /\ conn'[c] = conn[c]
       /\ conn'[Latest] = [owner |-> k, item |-> item[k], kind |-> "good", side |-> "open",
                           sent |-> 0, read |-> 0, session |-> "none", found |-> FALSE]
  BY <1>2, <1>9, <1>10, <1>11, ConnectEffect
<1>13. EndpointsInOrder' BY <1>1, <1>3 DEF ClientInv, EndpointsInOrder
<1>14. RoomIsKept' BY <1>6, <1>9, <1>12 DEF RoomIsKept
<1>15. FoundIsComplete' BY <1>12 DEF ClientInv, FoundIsComplete
<1>17. ItemsCount /\ EarlierAreDead /\ DeadWhenRepeated /\ WritesOnLast
  BY DEF ClientInv, RepeatedWhenDead
<1>18. \A c \in Connections : IsDead(c) => IsDead(c)' BY <1>12 DEF IsDead
<1>19. ItemsCount' BY <1>1, <1>3, <1>12, <1>17 DEF ItemsCount
<1>20. EarlierAreDead'
  <2> SUFFICES ASSUME NEW c \in Connections', NEW d \in Connections',
                      c < d, conn'[c].owner \in Clients,
                      conn'[d].owner = conn'[c].owner, conn'[d].item = conn'[c].item
               PROVE  IsDead(c)'
    BY DEF EarlierAreDead
  <2>1. c # Latest BY <1>12
  <2>2. c \in Connections /\ conn'[c] = conn[c] BY <1>12, <2>1
  <2>3. CASE d = Latest
    <3>1. conn[c].owner = k /\ conn[c].item = item[k] BY <1>12, <2>2, <2>3
    <3> QED BY <1>1, <1>17, <1>18, <2>2, <3>1 DEF DeadWhenRepeated
  <2>4. CASE d # Latest
    <3>1. d \in Connections /\ conn'[d] = conn[d] BY <1>12, <2>4
    <3> QED BY <1>17, <1>18, <2>2, <3>1 DEF EarlierAreDead
  <2> QED BY <2>3, <2>4
<1>21. DeadWhenRepeated'
  BY <1>1, <1>3, <1>12, <1>17, <1>18 DEF DeadWhenRepeated
<1>22. WritesOnLast'
  <2> SUFFICES ASSUME NEW j \in Clients, phase'[j] \in {"writing", "written"}
               PROVE  \E c \in Connections' :
                        /\ IsLast(j, c)' /\ conn'[c].item = item'[j]
                        /\ phase'[j] = "writing" => conn'[c].sent <= Parts
    BY DEF WritesOnLast
  <2>1. CASE j = k
    <3>1. PICK new \in Nat : new = Latest BY <1>12
    <3>2. IsLast(k, new)' BY <1>12, <3>1 DEF IsLast
    <3>3. conn'[new].sent <= Parts BY <1>12, <3>1, TransferAssumption
    <3> QED BY <1>1, <1>12, <2>1, <3>1, <3>2, <3>3
  <2>2. CASE j # k
    <3>1. phase'[j] = phase[j] BY <1>1, <1>3, <2>2
    <3>2. PICK c \in Connections :
            /\ IsLast(j, c) /\ conn[c].item = item[j]
            /\ phase[j] = "writing" => conn[c].sent <= Parts
      BY <1>17, <3>1 DEF WritesOnLast
    <3>3. IsLast(j, c)' BY <1>12, <2>2, <3>2 DEF IsLast
    <3> QED BY <1>1, <1>12, <3>1, <3>2, <3>3
  <2> QED BY <2>1, <2>2
<1> QED BY <1>12, <1>13, <1>14, <1>15, <1>19, <1>20, <1>21, <1>22
        DEF ClientInv, RepeatedWhenDead

LEMMA ForeignConnectPreserves ==
  ASSUME ClientInv, ForeignConnect
  PROVE  ClientInv'
<1>1. UNCHANGED <<phase, item, again, iterator, endpoint, isValid, tried, server,
                  stopped, accepting, open, runs, requested, unprepared, interrupted,
                     failures, undefined>> /\ open
  BY DEF ForeignConnect, clientVars, serverVars, serverHistory
<1>2. PlainTypes' BY <1>1, PlainTypesHold DEF PlainTypes
<1>3. Connecting' = Connecting BY <1>1 DEF Connecting
<1>4. Cardinality(Connecting) \in Nat BY FS_CardinalityType DEF ClientInv, RoomIsKept
<1>5. Cardinality(Connections) \in Nat BY ConnectionsNumbered, TransferAssumption DEF ClientInv
<1>6. Cardinality(Connections) + Cardinality(Connecting) < MaxConnections
  BY DEF ForeignConnect, Room, Connecting
<1>7. Cardinality(Connections) < MaxConnections
  BY <1>4, <1>5, <1>6, TransferAssumption
<1>8. Connect(Stranger, 0, "bad") /\ 0 \in 0 .. MaxItems
  BY TransferAssumption DEF ForeignConnect
<1>9. /\ TypeOK'
      /\ Connections' = Connections \cup {Latest}
      /\ Cardinality(Connections)' = Latest
      /\ Latest \in Nat
      /\ \A c \in Connections : c \in Nat /\ c < Latest /\ conn'[c] = conn[c]
      /\ conn'[Latest] = [owner |-> Stranger, item |-> 0, kind |-> "bad", side |-> "open",
                          sent |-> 0, read |-> 0, session |-> "none", found |-> FALSE]
  BY <1>2, <1>7, <1>8, ConnectEffect
<1>10. EndpointsInOrder' BY <1>1 DEF ClientInv, EndpointsInOrder
<1>11. RoomIsKept'
  BY <1>3, <1>4, <1>5, <1>6, <1>9, TransferAssumption DEF ClientInv, RoomIsKept, Latest
<1>12. FoundIsComplete' BY <1>9 DEF ClientInv, FoundIsComplete
<1>14. ItemsCount /\ EarlierAreDead /\ DeadWhenRepeated /\ WritesOnLast
  BY DEF ClientInv, RepeatedWhenDead
<1>15. \A c \in Connections : IsDead(c) => IsDead(c)' BY <1>9 DEF IsDead
<1>16. \A k \in Clients : k # Stranger BY TransferAssumption
<1>17. ItemsCount' BY <1>1, <1>9, <1>14, <1>16 DEF ItemsCount
<1>18. EarlierAreDead'
  BY <1>9, <1>14, <1>15, <1>16 DEF EarlierAreDead
<1>19. DeadWhenRepeated' BY <1>1, <1>9, <1>14, <1>15, <1>16 DEF DeadWhenRepeated
<1>20. WritesOnLast'
  <2> SUFFICES ASSUME NEW j \in Clients, phase[j] \in {"writing", "written"}
               PROVE  \E c \in Connections' :
                        /\ IsLast(j, c)' /\ conn'[c].item = item[j]
                        /\ phase[j] = "writing" => conn'[c].sent <= Parts
    BY <1>1 DEF WritesOnLast
  <2>1. PICK c \in Connections :
          /\ IsLast(j, c) /\ conn[c].item = item[j]
          /\ phase[j] = "writing" => conn[c].sent <= Parts
    BY <1>14 DEF WritesOnLast
  <2>2. IsLast(j, c)' BY <1>9, <1>16, <2>1 DEF IsLast
  <2> QED BY <1>9, <2>1, <2>2
<1> QED BY <1>9, <1>10, <1>11, <1>12, <1>17, <1>18, <1>19, <1>20
        DEF ClientInv, RepeatedWhenDead

-----------------------------------------------------------------------------
(* Steps of a client that leave the connections alone.                     *)

LEMMA SameConn ==
  ASSUME ClientInv, PlainTypes', conn' = conn
  PROVE  /\ TypeOK'
         /\ Connections' = Connections
         /\ FoundIsComplete'
         /\ EarlierAreDead'
         /\ \A c \in Connections : IsDead(c)' <=> IsDead(c)
         /\ \A k, c : IsLast(k, c)' <=> IsLast(k, c)
<1>1. conn \in [Connections -> ConnType] BY ConnectionsNumbered DEF ClientInv
<1>2. Connections' = Connections BY DEF Connections
<1>3. TypeOK' BY <1>1, <1>2, SameConnections DEF ClientInv
<1>4. FoundIsComplete' BY <1>2 DEF ClientInv, FoundIsComplete
<1>5. EarlierAreDead' BY <1>2 DEF ClientInv, RepeatedWhenDead, EarlierAreDead, IsDead
<1> QED BY <1>2, <1>3, <1>4, <1>5 DEF IsDead, IsLast

LEMMA SendPreserves ==
  ASSUME ClientInv, NEW k \in Clients, Send(k)
  PROVE  ClientInv'
<1>1. /\ phase \in [Clients -> {"idle", "connecting", "writing", "written"}]
      /\ item \in [Clients -> 0 .. MaxItems]
      /\ again \in [Clients -> BOOLEAN]
      /\ iterator \in [Clients -> 1 .. Endpoints + 1]
      /\ endpoint \in [Clients -> 1 .. Endpoints]
      /\ isValid \in [Clients -> BOOLEAN]
      /\ tried \in [Clients -> SUBSET (1 .. Endpoints)]
  BY PlainTypesHold DEF PlainTypes
<1>2. /\ phase[k] = "idle"
      /\ again[k] \/ item[k] < MaxItems
      /\ item' = [item EXCEPT ![k] = IF again[k] THEN @ ELSE @ + 1]
      /\ phase' = [phase EXCEPT ![k] = "connecting"]
      /\ tried' = [tried EXCEPT ![k] = {}]
      /\ UNCHANGED <<again, isValid, conn, server, stopped, accepting, open, runs,
                     requested, unprepared, interrupted, failures, undefined>>
  BY DEF Send, serverVars, serverHistory
<1>3. isValid[k] => UNCHANGED <<endpoint, iterator>> BY DEF Send
<1>4. ~isValid[k] =>
        /\ iterator[k] = 1
        /\ endpoint' = [endpoint EXCEPT ![k] = 1]
        /\ iterator' = [iterator EXCEPT ![k] = 2]
  BY <1>1, <1>2 DEF Send, ClientInv, EndpointsInOrder
<1>5. endpoint' \in [Clients -> 1 .. Endpoints] /\ iterator' \in [Clients -> 1 .. Endpoints + 1]
  <2>1. 1 \in 1 .. Endpoints /\ 2 \in 1 .. Endpoints + 1 BY TransferAssumption
  <2> QED BY <1>1, <1>3, <1>4, <2>1
<1>6. item' \in [Clients -> 0 .. MaxItems]
  <2>1. (IF again[k] THEN item[k] ELSE item[k] + 1) \in 0 .. MaxItems
    BY <1>1, <1>2, TransferAssumption
  <2> QED BY <1>1, <1>2, <2>1
<1>7. PlainTypes' BY <1>1, <1>2, <1>5, <1>6, PlainTypesHold DEF PlainTypes
<1>8. /\ TypeOK' /\ Connections' = Connections /\ FoundIsComplete' /\ EarlierAreDead'
      /\ \A c \in Connections : IsDead(c)' <=> IsDead(c)
      /\ \A j, c : IsLast(j, c)' <=> IsLast(j, c)
  BY <1>2, <1>7, SameConn
<1>9. EndpointsInOrder'
  <2> SUFFICES ASSUME NEW j \in Clients
               PROVE  /\ phase'[j] \in {"writing", "written"} => isValid'[j]
                      /\ ~isValid'[j] /\ phase'[j] = "idle" => iterator'[j] = 1
                      /\ ~isValid'[j] /\ phase'[j] = "connecting"
                           => tried'[j] = 1 .. endpoint'[j] - 1
    BY DEF EndpointsInOrder
  <2>1. CASE j = k BY <1>1, <1>2, <1>3, <1>4, <2>1
  <2>2. CASE j # k
    <3>1. /\ phase'[j] = phase[j] /\ isValid'[j] = isValid[j]
          /\ iterator'[j] = iterator[j] /\ tried'[j] = tried[j] /\ endpoint'[j] = endpoint[j]
      BY <1>1, <1>2, <1>3, <1>4, <2>2
    <3> QED BY <3>1 DEF ClientInv, EndpointsInOrder
  <2> QED BY <2>1, <2>2
<1>10. RoomIsKept'
  <2>1. Connecting' = Connecting \cup {k} /\ k \notin Connecting
    BY <1>1, <1>2 DEF Connecting
  <2>2. /\ IsFiniteSet(Connecting')
        /\ Cardinality(Connecting') = Cardinality(Connecting) + 1
    BY <2>1, FS_AddElement DEF ClientInv, RoomIsKept
  <2>3. Cardinality(Connecting) \in Nat BY FS_CardinalityType DEF ClientInv, RoomIsKept
  <2>4. Cardinality(Connections) \in Nat BY ConnectionsNumbered, TransferAssumption DEF ClientInv
  <2>5. Cardinality(Connections) + Cardinality(Connecting) < MaxConnections
    BY DEF Send, Room, Connecting
  <2> QED BY <1>8, <2>2, <2>3, <2>4, <2>5, TransferAssumption DEF RoomIsKept
<1>11. ItemsCount /\ EarlierAreDead /\ DeadWhenRepeated /\ WritesOnLast
  BY DEF ClientInv, RepeatedWhenDead
<1>12. \A c \in Connections : conn[c].item \in Nat
  BY ConnectionsNumbered, TransferAssumption DEF ClientInv, ConnType
<1>13. ItemsCount'
  <2>1. \A j \in Clients : item[j] \in Nat /\ item'[j] \in Nat /\ item[j] <= item'[j]
    BY <1>1, <1>2, TransferAssumption
  <2> QED BY <1>2, <1>8, <1>11, <1>12, <2>1 DEF ItemsCount
<1>14. DeadWhenRepeated'
  <2> SUFFICES ASSUME NEW j \in Clients, NEW c \in Connections,
                      phase'[j] = "connecting" \/ (phase'[j] = "idle" /\ again'[j]),
                      conn[c].owner = j, conn[c].item = item'[j]
               PROVE  IsDead(c)
    BY <1>2, <1>8 DEF DeadWhenRepeated
  <2>1. CASE j # k BY <1>1, <1>2, <1>11, <2>1 DEF DeadWhenRepeated
  <2>2. CASE j = k /\ again[k] BY <1>1, <1>2, <1>11, <2>2 DEF DeadWhenRepeated
  <2>3. CASE j = k /\ ~again[k]
    <3>1. conn[c].item <= item[k] BY <1>11, <2>3 DEF ItemsCount
    <3>2. item'[k] = item[k] + 1 BY <1>1, <1>2, <2>3
    <3> QED BY <1>1, <1>12, <2>3, <3>1, <3>2, TransferAssumption
  <2> QED BY <2>1, <2>2, <2>3
<1>15. WritesOnLast'
  <2>1. \A j \in Clients : phase'[j] \in {"writing", "written"} =>
          j # k /\ phase'[j] = phase[j] /\ item'[j] = item[j]
    BY <1>1, <1>2
  <2> QED BY <1>2, <1>8, <1>11, <2>1 DEF WritesOnLast
<1> QED BY <1>8, <1>9, <1>10, <1>13, <1>14, <1>15 DEF ClientInv, RepeatedWhenDead

LEMMA NextEndpointPreserves ==
  ASSUME ClientInv, NEW k \in Clients, NextEndpoint(k)
  PROVE  ClientInv'
<1>1. /\ phase \in [Clients -> {"idle", "connecting", "writing", "written"}]
      /\ endpoint \in [Clients -> 1 .. Endpoints]
      /\ tried \in [Clients -> SUBSET (1 .. Endpoints)]
  BY PlainTypesHold DEF PlainTypes
<1>2. /\ phase[k] = "connecting" /\ ~isValid[k] /\ endpoint[k] < Endpoints
      /\ tried' = [tried EXCEPT ![k] = @ \cup {endpoint[k]}]
      /\ endpoint' = [endpoint EXCEPT ![k] = @ + 1]
      /\ UNCHANGED <<phase, item, again, iterator, isValid, conn, server, stopped,
                     accepting, open, runs, requested, unprepared, interrupted,
                     failures, undefined>>
  BY DEF NextEndpoint, Refused, EndpointAdvances, serverVars, serverHistory
<1>3. endpoint[k] + 1 \in 1 .. Endpoints BY <1>1, <1>2, TransferAssumption
<1>4. PlainTypes' BY <1>1, <1>2, <1>3, PlainTypesHold DEF PlainTypes
<1>5. /\ TypeOK' /\ Connections' = Connections /\ FoundIsComplete' /\ EarlierAreDead'
      /\ \A c \in Connections : IsDead(c)' <=> IsDead(c)
      /\ \A j, c : IsLast(j, c)' <=> IsLast(j, c)
  BY <1>2, <1>4, SameConn
<1>6. EndpointsInOrder'
  <2>1. tried[k] = 1 .. endpoint[k] - 1 BY <1>2 DEF ClientInv, EndpointsInOrder
  <2>2. endpoint'[k] = endpoint[k] + 1 /\ tried'[k] = 1 .. endpoint[k]
    BY <1>1, <1>2, <2>1, TransferAssumption
  <2>3. tried'[k] = 1 .. endpoint'[k] - 1 BY <1>1, <2>2, TransferAssumption
  <2>4. \A j \in Clients : j # k => tried'[j] = tried[j] /\ endpoint'[j] = endpoint[j]
    BY <1>1, <1>2
  <2> QED BY <1>2, <2>3, <2>4 DEF ClientInv, EndpointsInOrder
<1>7. RoomIsKept' BY <1>2, <1>5 DEF ClientInv, RoomIsKept, Connecting
<1>8. RepeatedWhenDead'
  BY <1>2, <1>5
     DEF ClientInv, RepeatedWhenDead, ItemsCount, DeadWhenRepeated, WritesOnLast
<1> QED BY <1>5, <1>6, <1>7, <1>8 DEF ClientInv

LEMMA NoEndpointPreserves ==
  ASSUME ClientInv, NEW k \in Clients, NoEndpoint(k)
  PROVE  ClientInv'
<1>1. /\ phase \in [Clients -> {"idle", "connecting", "writing", "written"}]
      /\ again \in [Clients -> BOOLEAN]
      /\ iterator \in [Clients -> 1 .. Endpoints + 1]
      /\ endpoint \in [Clients -> 1 .. Endpoints]
      /\ isValid \in [Clients -> BOOLEAN]
      /\ tried \in [Clients -> SUBSET (1 .. Endpoints)]
  BY PlainTypesHold DEF PlainTypes
<1>2. /\ phase[k] = "connecting"
      /\ tried' = [tried EXCEPT ![k] = @ \cup {endpoint[k]}]
      /\ phase' = [phase EXCEPT ![k] = "idle"]
      /\ again' = [again EXCEPT ![k] = TRUE]
      /\ iterator' = [iterator EXCEPT ![k] = 1]
      /\ isValid' = [isValid EXCEPT ![k] = FALSE]
      /\ UNCHANGED <<item, endpoint, conn, server, stopped, accepting, open, runs,
                     requested, unprepared, interrupted, failures, undefined>>
  BY DEF NoEndpoint, Refused, Fail, Return, IteratorResets, serverVars, serverHistory
<1>3. 1 \in 1 .. Endpoints + 1 BY TransferAssumption
<1>4. PlainTypes' BY <1>1, <1>2, <1>3, PlainTypesHold DEF PlainTypes
<1>5. /\ TypeOK' /\ Connections' = Connections /\ FoundIsComplete' /\ EarlierAreDead'
      /\ \A c \in Connections : IsDead(c)' <=> IsDead(c)
      /\ \A j, c : IsLast(j, c)' <=> IsLast(j, c)
  BY <1>2, <1>4, SameConn
<1>6. EndpointsInOrder' BY <1>1, <1>2 DEF ClientInv, EndpointsInOrder
<1>7. RoomIsKept'
  <2>1. Connecting' = Connecting \ {k} /\ k \in Connecting BY <1>1, <1>2 DEF Connecting
  <2>2. IsFiniteSet(Connecting) BY DEF ClientInv, RoomIsKept
  <2>3. /\ IsFiniteSet(Connecting')
        /\ Cardinality(Connecting') = Cardinality(Connecting) - 1
    BY <2>1, <2>2, FS_RemoveElement
  <2>4. Cardinality(Connecting) \in Nat BY <2>2, FS_CardinalityType
  <2>5. Cardinality(Connections) \in Nat BY ConnectionsNumbered, TransferAssumption DEF ClientInv
  <2> QED BY <1>5, <2>3, <2>4, <2>5, TransferAssumption DEF ClientInv, RoomIsKept
<1>8. ItemsCount' BY <1>2, <1>5 DEF ClientInv, RepeatedWhenDead, ItemsCount
<1>9. DeadWhenRepeated'
  BY <1>1, <1>2, <1>5 DEF ClientInv, RepeatedWhenDead, DeadWhenRepeated
<1>10. WritesOnLast' BY <1>1, <1>2, <1>5 DEF ClientInv, RepeatedWhenDead, WritesOnLast
<1> QED BY <1>5, <1>6, <1>7, <1>8, <1>9, <1>10 DEF ClientInv, RepeatedWhenDead

-----------------------------------------------------------------------------
(* Steps of a client on its connection.                                    *)

LEMMA OwnConnection ==
  ASSUME ClientInv, NEW k \in Clients, phase[k] \in {"writing", "written"}
  PROVE  /\ Own(k) \in Connections
         /\ IsLast(k, Own(k))
         /\ conn[Own(k)].item = item[k]
         /\ phase[k] = "writing" => conn[Own(k)].sent <= Parts
<1>1. PICK c \in Connections :
        /\ IsLast(k, c) /\ conn[c].item = item[k]
        /\ phase[k] = "writing" => conn[c].sent <= Parts
  BY DEF ClientInv, RepeatedWhenDead, WritesOnLast
<1>2. \A d \in Connections : d \in Nat BY ConnectionsNumbered DEF ClientInv
<1>3. /\ Own(k) \in Connections /\ conn[Own(k)].owner = k
      /\ \A d \in Connections : conn[d].owner = k => d <= Own(k)
  BY <1>1 DEF Own, IsLast
<1>4. Own(k) = c BY <1>1, <1>2, <1>3 DEF IsLast
<1> QED BY <1>1, <1>4

\* A client changes what it sent, or how its connection ends.
LEMMA OwnChange ==
  ASSUME ClientInv, PlainTypes', NEW k \in Clients, phase[k] \in {"writing", "written"},
         NEW r \in ConnType, conn' = [conn EXCEPT ![Own(k)] = r],
         r.owner = conn[Own(k)].owner, r.item = conn[Own(k)].item,
         r.kind = conn[Own(k)].kind, r.session = conn[Own(k)].session,
         r.read = conn[Own(k)].read, r.found = conn[Own(k)].found,
         conn[Own(k)].sent <= r.sent,
         UNCHANGED item
  PROVE  /\ TypeOK' /\ FoundIsComplete' /\ ItemsCount' /\ EarlierAreDead'
         /\ Connections' = Connections
         /\ conn'[Own(k)] = r
         /\ \A c \in Connections \ {Own(k)} : conn'[c] = conn[c]
         /\ \A j, c : IsLast(j, c)' <=> IsLast(j, c)
<1> DEFINE o == Own(k)
<1>1. /\ o \in Connections /\ IsLast(k, o) /\ conn[o].item = item[k]
      /\ phase[k] = "writing" => conn[o].sent <= Parts
  BY OwnConnection
<1>2. /\ r.owner = conn[o].owner /\ r.item = conn[o].item
      /\ r.kind = conn[o].kind /\ r.session = conn[o].session
      /\ r.read = conn[o].read /\ r.found = conn[o].found
      /\ conn[o].sent <= r.sent
      /\ conn' = [conn EXCEPT ![o] = r]
  OBVIOUS
<1> HIDE DEF o
<1>3. /\ Connections' = Connections
      /\ conn' = [d \in Connections |-> conn'[d]]
      /\ \A d \in Connections : conn[d] \in ConnType /\ conn'[d] \in ConnType
      /\ conn'[o] = r
      /\ \A d \in Connections \ {o} : conn'[d] = conn[d]
  BY <1>1, <1>2, OneConnection
<1>4. TypeOK' BY <1>3, SameConnections DEF ClientInv
<1>5. \A c \in Connections :
        /\ conn'[c].owner = conn[c].owner /\ conn'[c].item = conn[c].item
        /\ conn'[c].session = conn[c].session
  BY <1>2, <1>3
<1>6. FoundIsComplete'
  <2> SUFFICES ASSUME NEW c \in Connections
               PROVE  /\ conn'[c].read <= conn'[c].sent
                      /\ conn'[c].kind = "good" => conn'[c].owner \in Clients
                      /\ conn'[c].found => /\ conn'[c].kind = "good"
                                           /\ conn'[c].read = Parts + 1
                                           /\ conn'[c].session = "gone"
    BY <1>3 DEF FoundIsComplete
  <2>1. CASE c = o
    <3>1. conn[o].read \in Nat /\ conn[o].sent \in Nat /\ r.sent \in Nat
      BY <1>1, <1>3, TransferAssumption DEF ConnType
    <3>2. r.read <= r.sent BY <1>1, <1>2, <3>1 DEF ClientInv, FoundIsComplete
    <3> QED BY <1>1, <1>2, <1>3, <2>1, <3>2 DEF ClientInv, FoundIsComplete
  <2>2. CASE c # o BY <1>3, <2>2 DEF ClientInv, FoundIsComplete
  <2> QED BY <2>1, <2>2
<1>8. ItemsCount' BY <1>3, <1>5 DEF ClientInv, RepeatedWhenDead, ItemsCount
<1>9. EarlierAreDead'
  <2> SUFFICES ASSUME NEW c \in Connections, NEW d \in Connections,
                      c < d, conn[c].owner \in Clients,
                      conn[d].owner = conn[c].owner, conn[d].item = conn[c].item
               PROVE  IsDead(c)'
    BY <1>3, <1>5 DEF EarlierAreDead
  <2>1. c \in Nat /\ d \in Nat BY ConnectionsNumbered DEF ClientInv
  <2>2. c # o BY <1>1, <2>1 DEF IsLast
  <2> QED BY <1>3, <2>2 DEF ClientInv, RepeatedWhenDead, EarlierAreDead, IsDead
<1>10. \A j, c : IsLast(j, c)' <=> IsLast(j, c) BY <1>3, <1>5 DEF IsLast
<1> QED BY <1>3, <1>4, <1>6, <1>8, <1>9, <1>10 DEF o

LEMMA WritePreserves ==
  ASSUME ClientInv, NEW k \in Clients, Write(k)
  PROVE  ClientInv'
<1> DEFINE o == Own(k)
           r == [conn[o] EXCEPT !.sent = @ + 1]
<1>1. phase \in [Clients -> {"idle", "connecting", "writing", "written"}]
  BY PlainTypesHold DEF PlainTypes
<1>2. /\ phase[k] = "writing" /\ conn[o].side = "open"
      /\ phase' = IF conn[o].sent = Parts THEN [phase EXCEPT ![k] = "written"] ELSE phase
      /\ UNCHANGED <<item, again, iterator, endpoint, isValid, tried, server, stopped,
                     accepting, open, runs, requested, unprepared, interrupted,
                     failures, undefined>>
  BY DEF Write, serverVars, serverHistory
<1>3. o \in Connections /\ IsLast(k, o) /\ conn[o].item = item[k] /\ conn[o].sent <= Parts
  BY <1>2, OwnConnection
<1>4. conn[o] \in ConnType /\ conn[o].sent \in Nat
  BY <1>3, ConnectionsNumbered, TransferAssumption DEF ClientInv, ConnType
<1>5. r \in ConnType
  <2>1. conn[o].sent + 1 \in 0 .. Parts + 1 BY <1>3, <1>4, TransferAssumption
  <2> QED BY <1>4, <2>1 DEF ConnType
<1>6. conn' = [conn EXCEPT ![o] = r] BY <1>3 DEF Write
<1>7. PlainTypes' BY <1>1, <1>2, PlainTypesHold DEF PlainTypes
<1>8. /\ r.owner = conn[o].owner /\ r.item = conn[o].item
      /\ r.kind = conn[o].kind /\ r.session = conn[o].session
      /\ r.read = conn[o].read /\ r.found = conn[o].found
      /\ r.side = conn[o].side /\ r.sent = conn[o].sent + 1
      /\ conn[o].sent <= r.sent
  BY <1>4 DEF ConnType
<1> HIDE DEF r
<1>9. /\ TypeOK' /\ FoundIsComplete' /\ ItemsCount' /\ EarlierAreDead'
      /\ Connections' = Connections
      /\ conn'[o] = r
      /\ \A c \in Connections \ {o} : conn'[c] = conn[c]
      /\ \A j, c : IsLast(j, c)' <=> IsLast(j, c)
  BY <1>2, <1>5, <1>6, <1>7, <1>8, OwnChange
<1> HIDE DEF o
<1>10. EndpointsInOrder' BY <1>1, <1>2 DEF ClientInv, EndpointsInOrder
<1>11. RoomIsKept'
  <2>1. Connecting' = Connecting BY <1>1, <1>2 DEF Connecting
  <2> QED BY <1>9, <2>1 DEF ClientInv, RoomIsKept
<1>12. DeadWhenRepeated'
  <2> SUFFICES ASSUME NEW j \in Clients, NEW c \in Connections,
                      phase'[j] = "connecting" \/ (phase'[j] = "idle" /\ again'[j]),
                      conn'[c].owner = j, conn'[c].item = item'[j]
               PROVE  IsDead(c)'
    BY <1>9 DEF DeadWhenRepeated
  <2>1. j # k /\ phase'[j] = phase[j] BY <1>1, <1>2
  <2>2. c # o BY <1>3, <1>8, <1>9, <2>1 DEF IsLast
  <2> QED BY <1>2, <1>9, <2>1, <2>2 DEF ClientInv, RepeatedWhenDead, DeadWhenRepeated, IsDead
<1>13. WritesOnLast'
  <2> SUFFICES ASSUME NEW j \in Clients, phase'[j] \in {"writing", "written"}
               PROVE  \E c \in Connections :
                        /\ IsLast(j, c) /\ conn'[c].item = item[j]
                        /\ phase'[j] = "writing" => conn'[c].sent <= Parts
    BY <1>2, <1>9 DEF WritesOnLast
  <2>1. CASE j = k
    <3>1. phase'[k] = "writing" => conn[o].sent # Parts BY <1>1, <1>2
    <3>2. phase'[k] = "writing" => r.sent <= Parts
      BY <1>3, <1>4, <1>8, <3>1, TransferAssumption
    <3> QED BY <1>3, <1>8, <1>9, <2>1, <3>2
  <2>2. CASE j # k
    <3>1. phase'[j] = phase[j] BY <1>1, <1>2, <2>2
    <3>2. PICK c \in Connections :
            /\ IsLast(j, c) /\ conn[c].item = item[j]
            /\ phase[j] = "writing" => conn[c].sent <= Parts
      BY <3>1 DEF ClientInv, RepeatedWhenDead, WritesOnLast
    <3>3. c # o BY <1>3, <2>2, <3>2 DEF IsLast
    <3> QED BY <1>9, <3>1, <3>2, <3>3
  <2> QED BY <2>1, <2>2
<1> QED BY <1>9, <1>10, <1>11, <1>12, <1>13 DEF ClientInv, RepeatedWhenDead

LEMMA WrittenPreserves ==
  ASSUME ClientInv, NEW k \in Clients, Written(k)
  PROVE  ClientInv'
<1> DEFINE o == Own(k)
           r == [conn[o] EXCEPT !.side = IF @ = "open" THEN "closed" ELSE @]
<1>1. phase \in [Clients -> {"idle", "connecting", "writing", "written"}]
      /\ again \in [Clients -> BOOLEAN]
  BY PlainTypesHold DEF PlainTypes
<1>2. /\ phase[k] = "written"
      /\ phase' = [phase EXCEPT ![k] = "idle"]
      /\ again' = [again EXCEPT ![k] = FALSE]
      /\ UNCHANGED <<item, iterator, endpoint, isValid, tried, server, stopped,
                     accepting, open, runs, requested, unprepared, interrupted,
                     failures, undefined>>
  BY DEF Written, Return, serverVars, serverHistory
<1>3. o \in Connections /\ IsLast(k, o) BY <1>2, OwnConnection
<1>4. conn[o] \in ConnType /\ conn[o].sent \in Nat
  BY <1>3, ConnectionsNumbered, TransferAssumption DEF ClientInv, ConnType
<1>5. r \in ConnType BY <1>4 DEF ConnType
<1>6. conn' = [conn EXCEPT ![o] = r] BY <1>3 DEF Written
<1>7. PlainTypes' BY <1>1, <1>2, PlainTypesHold DEF PlainTypes
<1>8. /\ r.owner = conn[o].owner /\ r.item = conn[o].item
      /\ r.kind = conn[o].kind /\ r.session = conn[o].session
      /\ r.read = conn[o].read /\ r.found = conn[o].found
      /\ conn[o].sent <= r.sent
  BY <1>4 DEF ConnType
<1> HIDE DEF r
<1>9. /\ TypeOK' /\ FoundIsComplete' /\ ItemsCount' /\ EarlierAreDead'
      /\ Connections' = Connections
      /\ conn'[o] = r
      /\ \A c \in Connections \ {o} : conn'[c] = conn[c]
      /\ \A j, c : IsLast(j, c)' <=> IsLast(j, c)
  BY <1>2, <1>5, <1>6, <1>7, <1>8, OwnChange
<1> HIDE DEF o
<1>10. EndpointsInOrder'
  BY <1>1, <1>2 DEF ClientInv, EndpointsInOrder
<1>11. RoomIsKept'
  <2>1. Connecting' = Connecting BY <1>1, <1>2 DEF Connecting
  <2> QED BY <1>9, <2>1 DEF ClientInv, RoomIsKept
<1>12. DeadWhenRepeated'
  <2> SUFFICES ASSUME NEW j \in Clients, NEW c \in Connections,
                      phase'[j] = "connecting" \/ (phase'[j] = "idle" /\ again'[j]),
                      conn'[c].owner = j, conn'[c].item = item'[j]
               PROVE  IsDead(c)'
    BY <1>9 DEF DeadWhenRepeated
  <2>1. j # k /\ phase'[j] = phase[j] /\ again'[j] = again[j] BY <1>1, <1>2
  <2>2. c # o BY <1>3, <1>8, <1>9, <2>1 DEF IsLast
  <2> QED BY <1>2, <1>9, <2>1, <2>2 DEF ClientInv, RepeatedWhenDead, DeadWhenRepeated, IsDead
<1>13. WritesOnLast'
  <2> SUFFICES ASSUME NEW j \in Clients, phase'[j] \in {"writing", "written"}
               PROVE  \E c \in Connections :
                        /\ IsLast(j, c) /\ conn'[c].item = item[j]
                        /\ phase'[j] = "writing" => conn'[c].sent <= Parts
    BY <1>2, <1>9 DEF WritesOnLast
  <2>1. j # k /\ phase'[j] = phase[j] BY <1>1, <1>2
  <2>2. PICK c \in Connections :
          /\ IsLast(j, c) /\ conn[c].item = item[j]
          /\ phase[j] = "writing" => conn[c].sent <= Parts
    BY <2>1 DEF ClientInv, RepeatedWhenDead, WritesOnLast
  <2>3. c # o BY <1>3, <2>1, <2>2 DEF IsLast
  <2> QED BY <1>9, <2>1, <2>2, <2>3
<1> QED BY <1>9, <1>10, <1>11, <1>12, <1>13 DEF ClientInv, RepeatedWhenDead

LEMMA WriteFailsPreserves ==
  ASSUME ClientInv, NEW k \in Clients, WriteFails(k)
  PROVE  ClientInv'
<1> DEFINE o == Own(k)
           r == [conn[o] EXCEPT !.side = "reset"]
<1>1. /\ phase \in [Clients -> {"idle", "connecting", "writing", "written"}]
      /\ again \in [Clients -> BOOLEAN]
      /\ iterator \in [Clients -> 1 .. Endpoints + 1]
      /\ isValid \in [Clients -> BOOLEAN]
  BY PlainTypesHold DEF PlainTypes
<1>2. /\ phase[k] = "writing"
      /\ phase' = [phase EXCEPT ![k] = "idle"]
      /\ again' = [again EXCEPT ![k] = TRUE]
      /\ iterator' = [iterator EXCEPT ![k] = 1]
      /\ isValid' = [isValid EXCEPT ![k] = FALSE]
      /\ UNCHANGED <<item, endpoint, tried, server, stopped, accepting, open, runs,
                     requested, unprepared, interrupted, failures, undefined>>
  BY DEF WriteFails, Fail, Return, IteratorResets, serverVars, serverHistory
<1>3. o \in Connections /\ IsLast(k, o) /\ conn[o].item = item[k] /\ conn[o].sent <= Parts
  BY <1>2, OwnConnection
<1>4. conn[o] \in ConnType /\ conn[o].sent \in Nat
  BY <1>3, ConnectionsNumbered, TransferAssumption DEF ClientInv, ConnType
<1>5. r \in ConnType BY <1>4 DEF ConnType
<1>6. conn' = [conn EXCEPT ![o] = r] BY <1>3 DEF WriteFails
<1>7. PlainTypes'
  <2>1. 1 \in 1 .. Endpoints + 1 BY TransferAssumption
  <2> QED BY <1>1, <1>2, <2>1, PlainTypesHold DEF PlainTypes
<1>8. /\ r.owner = conn[o].owner /\ r.item = conn[o].item
      /\ r.kind = conn[o].kind /\ r.session = conn[o].session
      /\ r.read = conn[o].read /\ r.found = conn[o].found
      /\ r.side = "reset" /\ r.sent = conn[o].sent /\ conn[o].sent <= r.sent
  BY <1>4 DEF ConnType
<1> HIDE DEF r
<1>9. /\ TypeOK' /\ FoundIsComplete' /\ ItemsCount' /\ EarlierAreDead'
      /\ Connections' = Connections
      /\ conn'[o] = r
      /\ \A c \in Connections \ {o} : conn'[c] = conn[c]
      /\ \A j, c : IsLast(j, c)' <=> IsLast(j, c)
  BY <1>2, <1>5, <1>6, <1>7, <1>8, OwnChange
<1> HIDE DEF o
<1>10. EndpointsInOrder' BY <1>1, <1>2 DEF ClientInv, EndpointsInOrder
<1>11. RoomIsKept'
  <2>1. Connecting' = Connecting BY <1>1, <1>2 DEF Connecting
  <2> QED BY <1>9, <2>1 DEF ClientInv, RoomIsKept
<1>12. DeadWhenRepeated'
  <2> SUFFICES ASSUME NEW j \in Clients, NEW c \in Connections,
                      phase'[j] = "connecting" \/ (phase'[j] = "idle" /\ again'[j]),
                      conn'[c].owner = j, conn'[c].item = item[j]
               PROVE  IsDead(c)'
    BY <1>2, <1>9 DEF DeadWhenRepeated
  <2>1. CASE c = o BY <1>3, <1>8, <1>9, <2>1 DEF IsDead
  <2>2. CASE c # o /\ j = k
    <3>1. conn[c].owner = k /\ conn[c].item = item[k] BY <1>9, <2>2
    <3>2. c \in Nat /\ o \in Nat BY <1>3, ConnectionsNumbered DEF ClientInv
    <3>3. c < o BY <1>3, <2>2, <3>1, <3>2 DEF IsLast
    <3>4. IsDead(c)
      BY <1>3, <3>1, <3>3 DEF ClientInv, RepeatedWhenDead, EarlierAreDead, IsLast
    <3> QED BY <1>9, <2>2, <3>4 DEF IsDead
  <2>3. CASE c # o /\ j # k
    <3>1. phase'[j] = phase[j] /\ again'[j] = again[j] BY <1>1, <1>2, <2>3
    <3> QED BY <1>9, <2>3, <3>1 DEF ClientInv, RepeatedWhenDead, DeadWhenRepeated, IsDead
  <2> QED BY <2>1, <2>2, <2>3
<1>13. WritesOnLast'
  <2> SUFFICES ASSUME NEW j \in Clients, phase'[j] \in {"writing", "written"}
               PROVE  \E c \in Connections :
                        /\ IsLast(j, c) /\ conn'[c].item = item[j]
                        /\ phase'[j] = "writing" => conn'[c].sent <= Parts
    BY <1>2, <1>9 DEF WritesOnLast
  <2>1. j # k /\ phase'[j] = phase[j] BY <1>1, <1>2
  <2>2. PICK c \in Connections :
          /\ IsLast(j, c) /\ conn[c].item = item[j]
          /\ phase[j] = "writing" => conn[c].sent <= Parts
    BY <2>1 DEF ClientInv, RepeatedWhenDead, WritesOnLast
  <2>3. c # o BY <1>3, <2>1, <2>2 DEF IsLast
  <2> QED BY <1>9, <2>1, <2>2, <2>3
<1> QED BY <1>9, <1>10, <1>11, <1>12, <1>13 DEF ClientInv, RepeatedWhenDead

-----------------------------------------------------------------------------
(* The life of the server and of its sessions.                             *)

\* Clients, the network and others neither read nor end a session.
LEMMA ServerUntouched ==
  ASSUME ServerInv, UNCHANGED <<serverVars, undefined>>,
         \A c \in Connections' :
           \/ conn'[c].session = "none"
           \/ c \in Connections /\ conn'[c].session = conn[c].session
  PROVE  ServerInv'
<1>1. UNCHANGED <<server, stopped, accepting, open, requested, unprepared, interrupted,
                  undefined>>
  BY DEF serverVars, serverHistory
<1>2. \A c \in Connections' :
        /\ Reads(c)' => ReadsInRun(c)'
        /\ conn'[c].session = "queued" => interrupted
  <2> SUFFICES ASSUME NEW c \in Connections', conn'[c].session # "none"
               PROVE  /\ Reads(c)' => ReadsInRun(c)'
                      /\ conn'[c].session = "queued" => interrupted
    BY DEF Reads
  <2>1. c \in Connections /\ conn'[c].session = conn[c].session OBVIOUS
  <2> QED BY <1>1, <2>1 DEF ServerInv, Reads, ReadsInRun
<1> QED BY <1>1, <1>2 DEF ServerInv

LEMMA ClientKeepsServer ==
  ASSUME ClientInv, ServerInv, NEW k \in Clients, Send(k) \/ ClientNext(k)
  PROVE  ServerInv'
<1>1. UNCHANGED <<serverVars, undefined>>
  BY DEF Send, ClientNext, Connected, NextEndpoint, NoEndpoint, Refused, Write, Written,
         WriteFails
<1>2. conn \in [Connections -> ConnType] BY ConnectionsNumbered DEF ClientInv
<1>3. CASE Send(k) \/ NextEndpoint(k) \/ NoEndpoint(k)
  <2>1. conn' = conn BY <1>3 DEF Send, NextEndpoint, NoEndpoint, Refused
  <2> QED BY <1>1, <2>1, ServerUntouched DEF Connections
<1>4. CASE Connected(k)
  <2>1. \A c \in Connections' :
          \/ conn'[c].session = "none"
          \/ c \in Connections /\ conn'[c] = conn[c]
    BY <1>4 DEF Connected, Connect, Connections
  <2> QED BY <1>1, <2>1, ServerUntouched
<1>5. CASE Write(k) \/ Written(k) \/ WriteFails(k)
  <2>1. \/ conn' = [conn EXCEPT ![Own(k)].sent = conn[Own(k)].sent + 1]
        \/ \E side \in {"open", "closed", "reset"} :
             conn' = [conn EXCEPT ![Own(k)].side = side]
        \/ conn' = [conn EXCEPT ![Own(k)].side = conn[Own(k)].side]
    BY <1>5 DEF Write, Written, WriteFails
  <2>2. Connections' = Connections BY <1>2, <2>1 DEF Connections
  <2>3. \A c \in Connections : conn'[c].session = conn[c].session
    BY <1>2, <2>1 DEF ConnType
  <2> QED BY <1>1, <2>2, <2>3, ServerUntouched
<1> QED BY <1>3, <1>4, <1>5 DEF ClientNext

LEMMA OthersKeepServer ==
  ASSUME ClientInv, ServerInv,
         ForeignConnect \/ \E c \in Connections : Lose(c) \/ ForeignWrite(c)
  PROVE  ServerInv'
<1>1. UNCHANGED <<serverVars, undefined>> BY DEF ForeignConnect, Lose, ForeignWrite
<1>2. conn \in [Connections -> ConnType] BY ConnectionsNumbered DEF ClientInv
<1>3. CASE ForeignConnect
  <2>1. \A c \in Connections' :
          \/ conn'[c].session = "none"
          \/ c \in Connections /\ conn'[c] = conn[c]
    BY <1>3 DEF ForeignConnect, Connect, Connections
  <2> QED BY <1>1, <2>1, ServerUntouched
<1>4. CASE \E c \in Connections : Lose(c) \/ ForeignWrite(c)
  <2>1. PICK c \in Connections : Lose(c) \/ ForeignWrite(c) BY <1>4
  <2>2. \/ \E n \in conn[c].read .. conn[c].sent :
             conn' = [conn EXCEPT ![c].side = "reset", ![c].sent = n]
        \/ conn' = [conn EXCEPT ![c].sent = @ + 1]
        \/ conn' = [conn EXCEPT ![c].side = "closed"]
    BY <2>1 DEF Lose, ForeignWrite
  <2>3. Connections' = Connections BY <1>2, <2>2 DEF Connections
  <2>4. \A d \in Connections : conn'[d].session = conn[d].session
    BY <1>2, <2>2 DEF ConnType
  <2> QED BY <1>1, <2>3, <2>4, ServerUntouched
<1> QED BY <1>3, <1>4

\* A handler that is dispatched leaves the server as it is and no handler for
\* a session that it ends.
LEMMA SessionKeepsServer ==
  ASSUME ClientInv, ServerInv, Dispatching, open, NEW c \in Connections,
         NEW r \in ConnType, r.session # "queued", Session(c, r)
  PROVE  ServerInv'
<1>1. UNCHANGED <<server, stopped, accepting, open, requested, unprepared, interrupted,
                  undefined>>
  BY DEF Session, serverVars, serverHistory
<1>2. conn \in [Connections -> ConnType] BY ConnectionsNumbered DEF ClientInv
<1>3. Connections' = Connections BY <1>2 DEF Session, Connections
<1>4. \A d \in Connections :
        /\ Reads(d)' => ReadsInRun(d)'
        /\ conn'[d].session = "queued" => interrupted
  <2> TAKE d \in Connections
  <2>1. ReadsInRun(d)' BY <1>1 DEF ReadsInRun, Dispatching
  <2>2. conn'[d] = IF d = c THEN r ELSE conn[d] BY <1>2 DEF Session
  <2> QED BY <2>1, <2>2 DEF ServerInv
<1> QED BY <1>1, <1>3, <1>4 DEF ServerInv

LEMMA HandlerKeepsServer ==
  ASSUME ClientInv, ServerInv, NEW c \in Connections, Handler(c)
  PROVE  ServerInv'
<1>1. conn \in [Connections -> ConnType] /\ conn[c] \in ConnType
  BY ConnectionsNumbered DEF ClientInv
<1>2. CASE Accept(c)
  <2> DEFINE r == [conn[c] EXCEPT !.session = "header"]
  <2>1. Session(c, r) BY <1>1, <1>2 DEF Accept, Session
  <2>2. r \in ConnType /\ r.session # "queued" BY <1>1 DEF ConnType
  <2>3. Dispatching /\ open BY <1>2 DEF Accept, IsAccepted, ServerInv
  <2> HIDE DEF r
  <2> QED BY <2>1, <2>2, <2>3, SessionKeepsServer
<1>3. CASE ReadHeader(c) \/ HeaderFails(c) \/ ReadData(c) \/ EndOfData(c)
  <2>1. Dispatching /\ Reads(c)
    BY <1>3 DEF ReadHeader, HeaderFails, ReadData, EndOfData, Reads
  <2>2. open BY <2>1 DEF ServerInv, ReadsInRun
  <2>3. \E r \in ConnType : r.session # "queued" /\ Session(c, r)
    <3>1. CASE ReadHeader(c)
      <4>1. PICK n \in 1 .. conn[c].sent, session \in {"data", "gone"} :
              Session(c, [conn[c] EXCEPT !.read = n, !.session = session])
        BY <3>1 DEF ReadHeader, AfterHeader
      <4>2. n \in 0 .. Parts + 1 BY <1>1, TransferAssumption DEF ConnType
      <4>3. [conn[c] EXCEPT !.read = n, !.session = session] \in ConnType
        BY <1>1, <4>2 DEF ConnType
      <4>4. [conn[c] EXCEPT !.read = n, !.session = session].session # "queued"
        BY <1>1 DEF ConnType
      <4> QED BY <4>1, <4>3, <4>4
    <3>2. CASE HeaderFails(c)
      <4> DEFINE r == [conn[c] EXCEPT !.session = "gone"]
      <4>1. r \in ConnType /\ r.session # "queued" BY <1>1 DEF ConnType
      <4> QED BY <3>2, <4>1 DEF HeaderFails
    <3>3. CASE ReadData(c)
      <4>1. PICK n \in conn[c].read + 1 .. conn[c].sent :
              Session(c, [conn[c] EXCEPT !.read = n])
        BY <3>3 DEF ReadData
      <4> DEFINE r == [conn[c] EXCEPT !.read = n]
      <4>2. r \in ConnType BY <1>1, TransferAssumption DEF ConnType
      <4>3. r.session # "queued" BY <1>1, <2>1 DEF ConnType, Reads
      <4> QED BY <4>1, <4>2, <4>3
    <3>4. CASE EndOfData(c)
      <4> DEFINE whole == Complete(c) /\ conn[c].kind = "good"
                 r == [conn[c] EXCEPT !.session = "gone", !.found = whole]
      <4>1. r \in ConnType /\ r.session # "queued" BY <1>1 DEF ConnType
      <4>2. Session(c, r) BY <3>4 DEF EndOfData
      <4> QED BY <4>1, <4>2
    <3> QED BY <1>3, <3>1, <3>2, <3>3, <3>4
  <2> QED BY <2>1, <2>2, <2>3, SessionKeepsServer
<1>4. CASE AcceptThrows(c)
  <2>1. /\ ~accepting' /\ server' = "ending" /\ interrupted' /\ open
        /\ UNCHANGED open
    BY <1>4 DEF AcceptThrows, IsAccepted, ServerInv
  <2> QED BY <2>1 DEF ServerInv, ReadsInRun
<1>5. CASE RunQueued(c)
  <2>1. interrupted BY <1>5 DEF RunQueued, ServerInv
  <2>2. UNCHANGED <<server, stopped, accepting, open, requested, unprepared, interrupted,
                    conn>>
    BY <1>5 DEF RunQueued, serverVars, serverHistory
  <2> QED BY <2>1, <2>2 DEF ServerInv, Connections, Reads, ReadsInRun
<1> QED BY <1>2, <1>3, <1>4, <1>5 DEF Handler

\* Run starts with no session; it ends with one only when it was stopped.
LEMMA RunKeepsServer ==
  ASSUME ClientInv, ServerInv, RunServer \/ Stop \/ AcceptFails \/ RunReturns
  PROVE  ServerInv'
<1>1. UNCHANGED <<conn, undefined, open>> /\ Connections' = Connections
  BY DEF RunServer, Stop, AcceptFails, RunReturns, Connections
<1>2. CASE RunServer
  <2>1. /\ server = "ready" /\ server' = "running"
        /\ UNCHANGED <<stopped, accepting, requested, unprepared, interrupted>>
    BY <1>2 DEF RunServer, serverHistory
  <2> QED BY <1>1, <2>1 DEF ServerInv, Reads, ReadsInRun
<1>3. CASE Stop
  BY <1>1, <1>3 DEF Stop, ServerInv, Reads, ReadsInRun
<1>4. CASE AcceptFails
  BY <1>1, <1>4 DEF AcceptFails, serverHistory, ServerInv, Reads, ReadsInRun
<1>5. CASE RunReturns
  <2>1. /\ server = "running" /\ server' = "ending"
        /\ UNCHANGED <<accepting, requested, unprepared>>
        /\ interrupted' = (interrupted \/ requested)
    BY <1>5 DEF RunReturns
  <2>2. \A c \in Connections : Reads(c) => stopped BY <1>5 DEF RunReturns, Reads
  <2> QED BY <1>1, <2>1, <2>2 DEF ServerInv, Reads, ReadsInRun
<1> QED BY <1>2, <1>3, <1>4, <1>5

\* After the clean-up nothing reads: either StopAll has destroyed the sessions
\* that did, or the acceptor was closed and there was none.
LEMMA InitKeepsServer ==
  ASSUME ClientInv, ServerInv, InitServer
  PROVE  ServerInv'
<1>1. /\ server \in {"new", "ready"} /\ server' = "ready" /\ open'
      /\ UNCHANGED <<stopped, requested, unprepared, interrupted, undefined>>
      /\ Connections' = Connections
      /\ \A c \in Connections : conn'[c] = Unaccepted(c)
  BY DEF InitServer, serverHistory, Connections
<1>2. \A c \in Connections : conn[c] \in ConnType BY ConnectionsNumbered DEF ClientInv
<1>3. \A c \in Connections :
        conn'[c].session = IF conn[c].session = "none" THEN "gone" ELSE conn[c].session
  BY <1>1, <1>2 DEF Unaccepted, ConnType
<1> QED BY <1>1, <1>3 DEF ServerInv, Reads, ReadsInRun

LEMMA CleanupKeepsServer ==
  ASSUME ClientInv, ServerInv, Cleanup \/ CleanupThrows
  PROVE  ServerInv'
<1>1. /\ server = "ending" /\ server' = "ready" /\ unprepared' = ~open
      /\ UNCHANGED <<interrupted, undefined>>
  BY DEF Cleanup, CleanupThrows, Returned
<1>2. CASE Cleanup
  <2>1. /\ ~stopped' /\ ~accepting' /\ Connections' = Connections
        /\ \A c \in Connections : conn'[c] = StopAll(c)
    BY <1>2 DEF Cleanup, ServiceReset, Connections
  <2>2. \A c \in Connections : conn[c] \in ConnType BY ConnectionsNumbered DEF ClientInv
  <2>3. \A c \in Connections :
          /\ conn'[c].session \in {"queued", "gone"}
          /\ conn'[c].session = "queued" => Reads(c) \/ conn[c].session = "queued"
    BY <2>1, <2>2 DEF StopAll, Unaccepted, Reads, ConnType
  <2> QED BY <1>1, <2>1, <2>3 DEF ServerInv, Reads, ReadsInRun
<1>3. CASE CleanupThrows
  <2>1. ~open /\ UNCHANGED <<accepting, open, conn>> /\ Connections' = Connections
    BY <1>3 DEF CleanupThrows, Connections
  <2> QED BY <1>1, <2>1 DEF ServerInv, Reads, ReadsInRun
<1> QED BY <1>2, <1>3

-----------------------------------------------------------------------------
(* The theorems.                                                           *)

LEMMA InitIInv == Init => IInv
<1> SUFFICES ASSUME Init PROVE IInv OBVIOUS
<1>1. PlainTypes
  <2>1. 1 \in 1 .. Endpoints /\ 1 \in 1 .. Endpoints + 1 BY TransferAssumption
  <2>2. 0 \in 0 .. MaxItems /\ 0 \in 0 .. MaxRuns /\ 0 \in 0 .. MaxFailures
    BY TransferAssumption
  <2>3. /\ phase \in [Clients -> {"idle", "connecting", "writing", "written"}]
        /\ item \in [Clients -> 0 .. MaxItems]
        /\ again \in [Clients -> BOOLEAN]
        /\ iterator \in [Clients -> 1 .. Endpoints + 1]
        /\ endpoint \in [Clients -> 1 .. Endpoints]
        /\ isValid \in [Clients -> BOOLEAN]
        /\ tried \in [Clients -> SUBSET (1 .. Endpoints)]
    BY <2>1, <2>2 DEF Init
  <2> QED BY <2>2, <2>3 DEF Init, PlainTypes
<1>2. conn \in [1 .. 0 -> ConnType] BY DEF Init
<1>3. TypeOK BY <1>1, <1>2, TypesFrom, TransferAssumption
<1>4. Connections = {} BY <1>2 DEF Connections
<1>5. EndpointsInOrder BY DEF Init, EndpointsInOrder
<1>6. RoomIsKept
  <2>1. Connecting = {} BY DEF Init, Connecting
  <2> QED BY <1>4, <2>1, FS_EmptySet, TransferAssumption DEF RoomIsKept
<1>7. FoundIsComplete BY <1>4 DEF FoundIsComplete
<1>8. RepeatedWhenDead
  BY <1>4 DEF Init, RepeatedWhenDead, ItemsCount, EarlierAreDead, DeadWhenRepeated,
              WritesOnLast
<1>9. ServerInv BY <1>4 DEF Init, ServerInv
<1> QED BY <1>3, <1>5, <1>6, <1>7, <1>8, <1>9 DEF IInv, ClientInv

LEMMA StutterIInv == IInv /\ UNCHANGED vars => IInv'
<1> SUFFICES ASSUME IInv, UNCHANGED vars PROVE IInv' OBVIOUS
<1>1. PlainTypes'
  BY PlainTypesHold DEF IInv, PlainTypes, vars, clientVars, serverVars, serverHistory
<1>2. ClientInv' BY <1>1, NoConnectionChanges DEF IInv, vars
<1>3. ServerInv' BY ServerUntouched DEF IInv, vars, Connections
<1> QED BY <1>2, <1>3 DEF IInv

LEMMA NextIInv == IInv /\ Next => IInv'
<1> SUFFICES ASSUME ClientInv, ServerInv, Next PROVE ClientInv' /\ ServerInv' BY DEF IInv
<1>1. CASE \E k \in Clients : Send(k) \/ ClientNext(k)
  <2>1. PICK k \in Clients : Send(k) \/ ClientNext(k) BY <1>1
  <2>2. ClientInv'
    BY <2>1, SendPreserves, ConnectedPreserves, NextEndpointPreserves, NoEndpointPreserves,
       WritePreserves, WrittenPreserves, WriteFailsPreserves DEF ClientNext
  <2> QED BY <2>1, <2>2, ClientKeepsServer
<1>2. CASE \E c \in Connections : Lose(c) \/ ForeignWrite(c)
  BY <1>2, LosePreserves, ForeignWritePreserves, OthersKeepServer
<1>3. CASE ForeignConnect
  BY <1>3, ForeignConnectPreserves, OthersKeepServer
<1>4. CASE InitServer BY <1>4, InitServerPreserves, InitKeepsServer
<1>5. CASE RunServer \/ Stop \/ AcceptFails \/ RunReturns
  BY <1>5, ServerStatePreserves, RunKeepsServer
<1>6. CASE Cleanup \/ CleanupThrows
  BY <1>6, CleanupPreserves, ServerStatePreserves, CleanupKeepsServer
<1>7. CASE \E c \in Connections : Handler(c)
  BY <1>7, HandlerPreserves, HandlerKeepsServer
<1> QED BY <1>1, <1>2, <1>3, <1>4, <1>5, <1>6, <1>7 DEF Next, ServerNext

\* The inductive invariant of clients, network and server: whatever breaks, a
\* client sends a sequence again only when its connections before will never
\* bring it as a whole, and the endpoints it asks follow one another.
THEOREM Invariant == Spec => []IInv
<1>1. IInv /\ [Next]_vars => IInv' BY NextIInv, StutterIInv
<1> QED BY <1>1, InitIInv, PTL DEF Spec

\* The endpoint that a client asks is always one of the host, however its
\* attempts end and are repeated (CFMEClient::HandleConnect, hostEndpointIt),
\* and no more is read or sent than a message has.
THEOREM TypeCorrect == Spec => []TypeOK
<1>1. IInv => TypeOK BY DEF IInv, ClientInv
<1> QED BY <1>1, Invariant, PTL

\* However often a client repeats a sequence after a false of Run, over any
\* connections and runs of the server, it is signalled at most once.
THEOREM Once == Spec => []FoundOnce
<1>1. IInv => FoundOnce
  <2> SUFFICES ASSUME IInv, NEW c \in Connections, NEW d \in Connections,
                      conn[c].found, conn[d].found,
                      conn[c].owner = conn[d].owner, conn[c].item = conn[d].item
               PROVE  c = d
    BY DEF FoundOnce
  <2>1. conn[c] \in ConnType /\ conn[d] \in ConnType /\ c \in Nat /\ d \in Nat
    BY ConnectionsNumbered DEF IInv, ClientInv
  <2>2. /\ conn[c].owner \in Clients
        /\ conn[c].read = Parts + 1 /\ conn[c].read <= conn[c].sent
        /\ conn[d].read = Parts + 1 /\ conn[d].read <= conn[d].sent
    BY DEF IInv, ClientInv, FoundIsComplete
  <2>3. ~IsDead(c) /\ ~IsDead(d) BY <2>1, <2>2, TransferAssumption DEF IsDead, ConnType
  <2>4. ~(c < d) /\ ~(d < c)
    BY <2>2, <2>3 DEF IInv, ClientInv, RepeatedWhenDead, EarlierAreDead
  <2> QED BY <2>1, <2>4
<1> QED BY <1>1, Invariant, PTL

\* A handler is called for a session that is destroyed only after a Run was
\* ended by Stop or an exception while sessions were reading: one that ends by
\* itself (CFMESessionManager::Stop) leaves no handler, in any order of
\* handlers, failures, starts and stops.
THEOREM StaleHandlers == Spec => []StaleNeedsInterruption
<1>1. IInv => StaleNeedsInterruption BY DEF IInv, ServerInv, StaleNeedsInterruption
<1> QED BY <1>1, Invariant, PTL

\* A Run that finds the io_service stopped was told to stop, or follows one
\* that nobody had prepared by Init and whose clean-up failed (CFMEServer::Run).
THEOREM Serves == Spec => []RunServes
<1>1. IInv => RunServes BY DEF IInv, ServerInv, RunServes
<1> QED BY <1>1, Invariant, PTL

\* A client that gives up without knowing a good endpoint has asked all of
\* them, after any failures and successes before (hostEndpointIt).
THEOREM AllTried == Spec => FailureTriedAll
<1>1. ASSUME IInv, Next, NEW k \in Clients,
             phase[k] = "connecting", phase'[k] = "idle", ~isValid[k]
      PROVE  tried'[k] = 1 .. Endpoints
  <2>1. /\ phase \in [Clients -> {"idle", "connecting", "writing", "written"}]
        /\ endpoint \in [Clients -> 1 .. Endpoints]
        /\ tried \in [Clients -> SUBSET (1 .. Endpoints)]
    BY <1>1, PlainTypesHold DEF IInv, PlainTypes
  <2>2. CASE NoEndpoint(k)
    <3>1. endpoint[k] = Endpoints /\ tried'[k] = tried[k] \cup {endpoint[k]}
      BY <1>1, <2>1, <2>2 DEF NoEndpoint, Refused
    <3>2. tried[k] = 1 .. endpoint[k] - 1 BY <1>1 DEF IInv, ClientInv, EndpointsInOrder
    <3> QED BY <3>1, <3>2, TransferAssumption
  <2>3. CASE \E j \in Clients : Send(j) \/ Connected(j) \/ Write(j) \/ Written(j) \/ WriteFails(j)
    BY <1>1, <2>1, <2>3 DEF Send, Connected, Write, Written, WriteFails, Fail, Return
  <2>4. CASE \E j \in Clients : NextEndpoint(j) \/ (j # k /\ NoEndpoint(j))
    BY <1>1, <2>1, <2>4 DEF NextEndpoint, NoEndpoint, Refused, Fail, Return
  <2>5. CASE phase' = phase BY <1>1, <2>5
  <2>6. CASE \E c \in Connections : Lose(c) \/ ForeignWrite(c) \/ Handler(c)
    BY <2>5, <2>6 DEF Lose, ForeignWrite, Handler, Accept, AcceptThrows, ReadHeader, HeaderFails,
                      ReadData, EndOfData, RunQueued, Session, clientVars
  <2>7. CASE \/ ForeignConnect \/ InitServer \/ RunServer \/ Stop \/ AcceptFails
             \/ RunReturns \/ Cleanup \/ CleanupThrows
    BY <2>5, <2>7 DEF ForeignConnect, InitServer, RunServer, Stop, AcceptFails, RunReturns,
                      Cleanup, CleanupThrows, Returned, clientVars
  <2> QED BY <1>1, <2>2, <2>3, <2>4, <2>6, <2>7 DEF Next, ClientNext, ServerNext
<1>2. IInv /\ [Next]_vars =>
        [\A k \in Clients :
           phase[k] = "connecting" /\ phase'[k] = "idle" /\ ~isValid[k]
             => tried'[k] = 1 .. Endpoints]_vars
  BY <1>1
<1> QED BY <1>2, Invariant, PTL DEF Spec, FailureTriedAll
=============================================================================
