----------------------------- MODULE AlarmGateways -----------------------------
(***************************************************************************)
(* From the settings to the messages of an alarm: a client builds a login  *)
(* database and sets or loads the settings in any order (CSettingsParam,   *)
(* CGatewayLoginDatabase), a runtime copies them when it is constructed    *)
(* (CExecutionRuntime), and hands the messages of an alarm to one          *)
(* connection manager per gateway (CAlarmGatewaysManager).  The search for *)
(* messages is AlarmMessageDatabase: here it finds any selection of the    *)
(* messages stored for the code.                                           *)
(***************************************************************************)
EXTENDS Naturals, Sequences

CONSTANTS
  Types,      \* of gateways
  Codes,
  Messages,   \* records with their type, state (TRUE: sent on detection,
              \* FALSE: after the recording) and whether they are empty
  Databases,  \* functions from codes, "all" and "fallback" to sets of messages
  MaxChanges,
  MaxAlarms   \* of one runtime

NoAlarms == [o \in {} |-> {}]

ASSUME GatewaysAssumption ==
  /\ {"all", "fallback"} \cap Codes = {}
  /\ Messages \subseteq [type : Types, state : BOOLEAN, empty : BOOLEAN]
  /\ \A db \in Databases :
       /\ DOMAIN db \subseteq Codes \cup {"all", "fallback"}
       /\ \A o \in DOMAIN db : db[o] \subseteq Messages
  /\ NoAlarms \in Databases
  /\ MaxChanges \in Nat /\ MaxAlarms \in Nat

VARIABLES
  client,   \* the login database the client works on
  settings, \* of the client
  running,  \* is there a runtime?
  params,   \* its copy of the settings
  managers, \* the gateways it has connection managers for
  alarms,   \* the alarms of the runtime, with the messages queued for each
  ignored,  \* the codes that are not on its whitelist and were received
  changes   \* made by the client

vars == <<client, settings, running, params, managers, alarms, ignored, changes>>
runtimeVars == <<running, params, managers, alarms, ignored>>

\* GetAllMessageTypes, GetAllCodes
StoredMessages(db) == UNION {db[o] : o \in DOMAIN db}
MessageTypes(db) == {x.type : x \in StoredMessages(db)}
StoredCodes(db) == DOMAIN db \cap Codes

NoLogins == [gateways |-> {}, logins |-> {}]

NewSettings ==
  [functionality |-> FALSE, recording |-> FALSE, isDefault |-> FALSE,
   login |-> NoLogins, alarms |-> NoAlarms, whitelist |-> {}]

IsValid(s) == s.functionality /\ s.recording

Init ==
  /\ client = NoLogins
  /\ settings = NewSettings
  /\ running = FALSE
  /\ params = NewSettings
  /\ managers = {}
  /\ alarms = <<>>
  /\ ignored = {}
  /\ changes = 0

-----------------------------------------------------------------------------
(* The login database of the client (Replace writes what Add does).        *)

Changed ==
  /\ changes < MaxChanges
  /\ changes' = changes + 1

AddGateway(t) ==
  /\ Changed
  /\ client' = [gateways |-> client.gateways \cup {t},
                logins |-> client.logins \cup {t}]
  /\ UNCHANGED <<settings, runtimeVars>>

\* The gateway itself stays.
RemoveGateway(t) ==
  /\ Changed
  /\ t \in client.logins
  /\ client' = [client EXCEPT !.logins = @ \ {t}]
  /\ UNCHANGED <<settings, runtimeVars>>

-----------------------------------------------------------------------------
(* The settings.                                                           *)

KeepWhitelist(s) == s
UpdateWhitelist(s) ==
  IF ~s.recording THEN s
  ELSE [s EXCEPT !.whitelist = IF s.isDefault THEN {} ELSE StoredCodes(s.alarms)]

SetFunctionalitySettings ==
  /\ Changed
  /\ settings' = [settings EXCEPT !.functionality = TRUE]
  /\ UNCHANGED <<client, runtimeVars>>

WithRecording(s, isDefault) ==
  UpdateWhitelist([s EXCEPT !.recording = TRUE, !.isDefault = isDefault])

SetRecordingSettings(isDefault) ==
  /\ Changed
  /\ settings' = WithRecording(settings, isDefault)
  /\ UNCHANGED <<client, runtimeVars>>

\* SetGatewaySettings throws, and changes nothing, unless this holds.
HasGateways(login, db) == MessageTypes(db) \subseteq login.gateways

WithGatewaysOnly(s, login, db) ==
  KeepWhitelist([s EXCEPT !.login = login, !.alarms = db])

WithGateways(s, login, db) ==
  UpdateWhitelist([s EXCEPT !.login = login, !.alarms = db])

SetGatewaySettings(db) ==
  /\ Changed
  /\ HasGateways(client, db)
  /\ settings' = WithGateways(settings, client, db)
  /\ UNCHANGED <<client, runtimeVars>>

\* GetFromXML: an object of its own, assigned at the end; after an error
\* the settings are what they were.
GetFromXML(types, db, isDefault) ==
  LET login == [gateways |-> types, logins |-> types]
      read == [NewSettings EXCEPT !.functionality = TRUE]
  IN /\ Changed
     /\ HasGateways(login, db)
     /\ settings' = WithGateways(WithRecording(read, isDefault), login, db)
     /\ UNCHANGED <<client, runtimeVars>>

-----------------------------------------------------------------------------
(* The runtime.                                                            *)

\* ResetGatewayLoginDatabase searches the login of every gateway, and throws.
NeedsNoLogins(login) == TRUE
HasLogins(login) == login.gateways \subseteq login.logins

Construct ==
  /\ ~running
  /\ Changed
  /\ IsValid(settings)
  /\ HasLogins(settings.login)
  /\ running' = TRUE
  /\ params' = settings
  /\ managers' = settings.login.gateways
  /\ alarms' = <<>>
  /\ ignored' = {}
  /\ UNCHANGED <<client, settings>>

Destroy ==
  /\ running
  /\ running' = FALSE
  /\ managers' = {}
  /\ UNCHANGED <<client, settings, params, alarms, ignored, changes>>

IsAllowed(code) == params.whitelist = {} \/ code \in params.whitelist

Ignore(code) ==
  /\ running
  /\ ~IsAllowed(code)
  /\ ignored' = ignored \cup {code}
  /\ UNCHANGED <<client, settings, running, params, managers, alarms, changes>>

\* Search: the fallback only if nothing is found for the code itself.
Stored(db, o) == IF o \in DOMAIN db THEN db[o] ELSE {}
Selections(db, code) ==
  { own \cup general :
      own \in (SUBSET Stored(db, code) \ {{}}) \cup SUBSET Stored(db, "fallback"),
      general \in SUBSET Stored(db, "all") }

Sendable(found) == {x \in found : ~x.empty}
InState(found, state) == {x \in Sendable(found) : x.state = state}

\* The messages are queued one after the other, up to one whose gateway has
\* no login (a runtime error) or no manager (out of range).
IsKnown(x) == x.type \in params.login.logins \cap managers

Queued(found, state) ==
  IF \A x \in InState(found, state) : IsKnown(x)
  THEN {InState(found, state)}
  ELSE SUBSET {x \in InState(found, state) : IsKnown(x)}

Result(found, state) ==
  CASE found = {} -> "NOT_IN_DB"
    [] found # {} /\ Sendable(found) = {} -> "NO_MESSAGE"
    [] \E x \in InState(found, state) : x.type \notin params.login.logins -> "error"
    [] \E x \in InState(found, state) : x.type \in params.login.logins \ managers -> "NOT_IN_DB"
    [] OTHER -> "sent"

\* BasicSequenceProcessing of a sequence that is no repetition, with Send; an
\* error ends the thread that passes the sequences.
Announce(code) ==
  /\ running
  /\ Len(alarms) < MaxAlarms
  /\ \A i \in DOMAIN alarms : alarms[i].result # "error"
  /\ IsAllowed(code)
  /\ \E found \in Selections(params.alarms, code) :
       \E now \in Queued(found, TRUE) :
         alarms' = Append(alarms,
           [code |-> code, found |-> found, result |-> Result(found, TRUE),
            queued |-> now, late |-> {}, recorded |-> FALSE])
  /\ UNCHANGED <<client, settings, running, params, managers, ignored, changes>>

\* OnRecordedData: Send for the same time, whose search finds the same
\* messages; exceptions are ignored.
Record(i) ==
  /\ running
  /\ i \in DOMAIN alarms
  /\ ~alarms[i].recorded
  /\ \E later \in Queued(alarms[i].found, FALSE) :
       alarms' = [alarms EXCEPT ![i].late = later, ![i].recorded = TRUE]
  /\ UNCHANGED <<client, settings, running, params, managers, ignored, changes>>

-----------------------------------------------------------------------------

ClientNext ==
  \/ \E t \in Types : AddGateway(t) \/ RemoveGateway(t)
  \/ SetFunctionalitySettings
  \/ \E isDefault \in BOOLEAN :
       \/ SetRecordingSettings(isDefault)
       \/ \E types \in SUBSET Types, db \in Databases : GetFromXML(types, db, isDefault)
  \/ \E db \in Databases : SetGatewaySettings(db)
  \/ Construct
  \/ Destroy

RuntimeNext ==
  \/ \E code \in Codes : Ignore(code) \/ Announce(code)
  \/ \E i \in 1 .. MaxAlarms : Record(i)

Next == ClientNext \/ RuntimeNext

Spec == Init /\ [][Next]_vars

-----------------------------------------------------------------------------
(* Properties.                                                             *)

\* A runtime never starts to send an alarm and stops half-way: in whatever
\* order logins were added and removed, settings set, loaded and copied, every
\* message found for an alarm is queued at its gateway, those for the
\* detection at once and the others after the recording.
SendsAreComplete ==
  \A i \in DOMAIN alarms :
    /\ alarms[i].queued = InState(alarms[i].found, TRUE)
    /\ alarms[i].recorded => alarms[i].late = InState(alarms[i].found, FALSE)
    /\ alarms[i].result # "error"

\* The whitelist a runtime works with is that of its own databases, whichever
\* part of the settings was set last: with default recording no sequence is
\* ignored; without it no stored code is, and nothing else raises an alarm
\* unless no code is stored.
WhitelistIsRespected ==
  /\ params.isDefault => ignored = {}
  /\ ignored \cap StoredCodes(params.alarms) = {}
  /\ ~params.isDefault /\ StoredCodes(params.alarms) # {} =>
       \A i \in DOMAIN alarms : alarms[i].code \in StoredCodes(params.alarms)

\* User documentation of <protocol default="off"/>: only the codes entered
\* under <alarms> are logged and recorded.
OnlyListedAreRecorded ==
  ~params.isDefault =>
    \A i \in DOMAIN alarms : alarms[i].recorded =>
      alarms[i].code \in StoredCodes(params.alarms)
=============================================================================
