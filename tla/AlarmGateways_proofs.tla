-------------------------- MODULE AlarmGateways_proofs --------------------------
(***************************************************************************)
(* Proofs about AlarmGateways, for any gateways, codes, messages and       *)
(* databases, and any number of changes and alarms.                        *)
(***************************************************************************)
EXTENDS AlarmGateways, TLAPS

\* What SetGatewaySettings and UpdateWhitelist keep true of settings.
Consistent(s) ==
  /\ s.alarms \in Databases
  /\ MessageTypes(s.alarms) \subseteq s.login.gateways
  /\ s.recording =>
       s.whitelist = IF s.isDefault THEN {} ELSE StoredCodes(s.alarms)

SettingsType ==
  [functionality : BOOLEAN, recording : BOOLEAN, isDefault : BOOLEAN,
   login : [gateways : SUBSET Types, logins : SUBSET Types],
   alarms : Databases, whitelist : SUBSET Codes]

Results == {"NOT_IN_DB", "NO_MESSAGE", "error", "sent"}

AlarmType ==
  [code : Codes, found : SUBSET Messages, result : Results,
   queued : SUBSET Messages, late : SUBSET Messages, recorded : BOOLEAN]

TypeCorrect ==
  /\ client \in [gateways : SUBSET Types, logins : SUBSET Types]
  /\ settings \in SettingsType
  /\ running \in BOOLEAN
  /\ params \in SettingsType
  /\ alarms \in Seq(AlarmType)
  /\ changes \in Nat

\* A runtime can reach every gateway its messages are for.
Reachable ==
  running => /\ params.login.gateways \subseteq params.login.logins
             /\ managers = params.login.gateways

\* What is found for an alarm is stored in the runtime's database.
FoundIsStored ==
  \A i \in DOMAIN alarms :
    alarms[i].found \subseteq StoredMessages(params.alarms)

\* Before the first runtime nothing was received.
NothingBefore ==
  ~running /\ ~params.recording => alarms = <<>> /\ ignored = {}

IInv ==
  /\ TypeCorrect
  /\ Consistent(settings)
  /\ Consistent(params)
  /\ running => params.recording
  /\ NothingBefore
  /\ Reachable
  /\ FoundIsStored
  /\ SendsAreComplete
  /\ WhitelistIsRespected

-----------------------------------------------------------------------------
(* The settings.                                                           *)

LEMMA UpdateIsConsistent ==
  ASSUME NEW s \in SettingsType, MessageTypes(s.alarms) \subseteq s.login.gateways
  PROVE  /\ UpdateWhitelist(s) \in SettingsType
         /\ Consistent(UpdateWhitelist(s))
<1>1. CASE ~s.recording
  BY <1>1 DEF UpdateWhitelist, Consistent, SettingsType
<1>2. CASE s.recording
  <2> DEFINE list == IF s.isDefault THEN {} ELSE StoredCodes(s.alarms)
  <2>1. list \in SUBSET Codes BY DEF StoredCodes
  <2>2. UpdateWhitelist(s) = [s EXCEPT !.whitelist = list]
    BY <1>2 DEF UpdateWhitelist
  <2>3. [s EXCEPT !.whitelist = list] \in SettingsType
    BY <2>1 DEF SettingsType
  <2>4. /\ UpdateWhitelist(s).alarms = s.alarms
        /\ UpdateWhitelist(s).login = s.login
        /\ UpdateWhitelist(s).isDefault = s.isDefault
        /\ UpdateWhitelist(s).whitelist = list
    BY <2>2 DEF SettingsType
  <2>5. s.alarms \in Databases BY DEF SettingsType
  <2> QED BY <2>2, <2>3, <2>4, <2>5 DEF Consistent
<1> QED BY <1>1, <1>2

LEMMA RecordingIsConsistent ==
  ASSUME NEW s \in SettingsType, Consistent(s), NEW d \in BOOLEAN
  PROVE  WithRecording(s, d) \in SettingsType /\ Consistent(WithRecording(s, d))
<1> DEFINE t == [s EXCEPT !.recording = TRUE, !.isDefault = d]
<1>1. t \in SettingsType /\ t.alarms = s.alarms /\ t.login = s.login
  BY DEF SettingsType
<1>2. MessageTypes(t.alarms) \subseteq t.login.gateways
  BY <1>1 DEF Consistent
<1>3. WithRecording(s, d) = UpdateWhitelist(t) BY DEF WithRecording
<1> HIDE DEF t
<1> QED BY <1>1, <1>2, <1>3, UpdateIsConsistent

LEMMA GatewaysAreConsistent ==
  ASSUME NEW s \in SettingsType,
         NEW login \in [gateways : SUBSET Types, logins : SUBSET Types],
         NEW db \in Databases,
         HasGateways(login, db)
  PROVE  /\ WithGateways(s, login, db) \in SettingsType
         /\ Consistent(WithGateways(s, login, db))
<1> DEFINE t == [s EXCEPT !.login = login, !.alarms = db]
<1>1. t \in SettingsType /\ t.alarms = db /\ t.login = login
  BY DEF SettingsType
<1>2. MessageTypes(t.alarms) \subseteq t.login.gateways
  BY <1>1 DEF HasGateways
<1>3. WithGateways(s, login, db) = UpdateWhitelist(t) BY DEF WithGateways
<1> HIDE DEF t
<1> QED BY <1>1, <1>2, <1>3, UpdateIsConsistent

LEMMA NewIsConsistent ==
  /\ NewSettings \in SettingsType
  /\ Consistent(NewSettings)
  /\ ~NewSettings.recording
<1>1. NoAlarms \in Databases BY GatewaysAssumption
<1>2. MessageTypes(NoAlarms) = {} BY DEF MessageTypes, StoredMessages, NoAlarms
<1>3. NoLogins \in [gateways : SUBSET Types, logins : SUBSET Types] BY DEF NoLogins
<1>4. NewSettings \in SettingsType BY <1>1, <1>3 DEF NewSettings, SettingsType
<1>5. NewSettings.alarms = NoAlarms /\ ~NewSettings.recording BY DEF NewSettings
<1> QED BY <1>1, <1>2, <1>4, <1>5 DEF Consistent

LEMMA FunctionalityIsConsistent ==
  ASSUME NEW s \in SettingsType, Consistent(s)
  PROVE  /\ [s EXCEPT !.functionality = TRUE] \in SettingsType
         /\ Consistent([s EXCEPT !.functionality = TRUE])
<1> DEFINE t == [s EXCEPT !.functionality = TRUE]
<1>1. t \in SettingsType BY DEF SettingsType
<1>2. /\ t.alarms = s.alarms /\ t.login = s.login /\ t.recording = s.recording
      /\ t.isDefault = s.isDefault /\ t.whitelist = s.whitelist
  BY DEF SettingsType
<1> HIDE DEF t
<1>3. Consistent(t) BY <1>2 DEF Consistent
<1> QED BY <1>1, <1>3 DEF t

-----------------------------------------------------------------------------
(* The steps.                                                              *)

LEMMA InitialState == Init => IInv
<1> SUFFICES ASSUME Init PROVE IInv OBVIOUS
<1> USE DEF Init
<1>2. NewSettings \in SettingsType /\ Consistent(NewSettings) /\ ~NewSettings.recording
  BY NewIsConsistent
<1>3. TypeCorrect
  <2>1. client \in [gateways : SUBSET Types, logins : SUBSET Types] BY DEF NoLogins
  <2>2. alarms \in Seq(AlarmType) OBVIOUS
  <2> QED BY <1>2, <2>1, <2>2 DEF TypeCorrect
<1>4. alarms = <<>> /\ DOMAIN alarms = {} OBVIOUS
<1> QED BY <1>2, <1>3, <1>4 DEF IInv, NothingBefore, Reachable,
      FoundIsStored, SendsAreComplete, WhitelistIsRespected

\* Steps that leave the runtime alone.
LEMMA RuntimeUntouched ==
  ASSUME IInv, UNCHANGED runtimeVars, TypeCorrect', Consistent(settings')
  PROVE  IInv'
<1> USE DEF runtimeVars
<1>1. Reachable' BY DEF IInv, Reachable
<1>2. FoundIsStored' BY DEF IInv, FoundIsStored
<1>3. SendsAreComplete' BY DEF IInv, SendsAreComplete
<1>4. WhitelistIsRespected' BY DEF IInv, WhitelistIsRespected
<1>5. NothingBefore' BY DEF IInv, NothingBefore
<1>6. Consistent(settings)' /\ Consistent(params)'
  BY DEF IInv, Consistent
<1>7. (running => params.recording)' BY DEF IInv
<1> QED BY <1>1, <1>2, <1>3, <1>4, <1>5, <1>6, <1>7 DEF IInv

LEMMA SettingsSteps ==
  ASSUME IInv, UNCHANGED <<client, runtimeVars>>, Changed,
         settings' \in SettingsType, Consistent(settings')
  PROVE  IInv'
<1>1. changes' \in Nat BY DEF IInv, TypeCorrect, Changed
<1>2. TypeCorrect' BY <1>1 DEF IInv, TypeCorrect, runtimeVars
<1> QED BY <1>2, RuntimeUntouched

LEMMA LoginSteps ==
  ASSUME IInv, NEW t \in Types, AddGateway(t) \/ RemoveGateway(t)
  PROVE  IInv'
<1>1. client' \in [gateways : SUBSET Types, logins : SUBSET Types]
  BY DEF IInv, TypeCorrect, AddGateway, RemoveGateway
<1>2. changes' \in Nat /\ UNCHANGED <<settings, runtimeVars>>
  BY DEF IInv, TypeCorrect, AddGateway, RemoveGateway, Changed
<1>3. TypeCorrect' BY <1>1, <1>2 DEF IInv, TypeCorrect, runtimeVars
<1>4. Consistent(settings') BY <1>2 DEF IInv, Consistent
<1> QED BY <1>2, <1>3, <1>4, RuntimeUntouched

LEMMA FunctionalityStep ==
  ASSUME IInv, SetFunctionalitySettings PROVE IInv'
<1>1. settings \in SettingsType /\ Consistent(settings) BY DEF IInv, TypeCorrect
<1>2. settings' \in SettingsType /\ Consistent(settings')
  BY <1>1, FunctionalityIsConsistent DEF SetFunctionalitySettings
<1> QED BY <1>2, SettingsSteps DEF SetFunctionalitySettings

LEMMA RecordingStep ==
  ASSUME IInv, NEW d \in BOOLEAN, SetRecordingSettings(d) PROVE IInv'
<1>1. settings \in SettingsType /\ Consistent(settings) BY DEF IInv, TypeCorrect
<1>2. settings' \in SettingsType /\ Consistent(settings')
  BY <1>1, RecordingIsConsistent DEF SetRecordingSettings
<1> QED BY <1>2, SettingsSteps DEF SetRecordingSettings

LEMMA GatewaysStep ==
  ASSUME IInv, NEW db \in Databases, SetGatewaySettings(db) PROVE IInv'
<1>1. /\ settings \in SettingsType
      /\ client \in [gateways : SUBSET Types, logins : SUBSET Types]
  BY DEF IInv, TypeCorrect
<1>2. settings' \in SettingsType /\ Consistent(settings')
  BY <1>1, GatewaysAreConsistent DEF SetGatewaySettings
<1> QED BY <1>2, SettingsSteps DEF SetGatewaySettings

LEMMA XMLStep ==
  ASSUME IInv, NEW types \in SUBSET Types, NEW db \in Databases,
         NEW d \in BOOLEAN, GetFromXML(types, db, d)
  PROVE  IInv'
<1> DEFINE login == [gateways |-> types, logins |-> types]
           read == [NewSettings EXCEPT !.functionality = TRUE]
<1>2. read \in SettingsType /\ Consistent(read)
  BY NewIsConsistent, FunctionalityIsConsistent
<1>3. login \in [gateways : SUBSET Types, logins : SUBSET Types] OBVIOUS
<1>4. /\ settings' = WithGateways(WithRecording(read, d), login, db)
      /\ HasGateways(login, db) /\ Changed /\ UNCHANGED <<client, runtimeVars>>
  BY DEF GetFromXML
<1> HIDE DEF login, read
<1>5. WithRecording(read, d) \in SettingsType BY <1>2, RecordingIsConsistent
<1>6. settings' \in SettingsType /\ Consistent(settings')
  BY <1>3, <1>4, <1>5, GatewaysAreConsistent
<1> QED BY <1>4, <1>6, SettingsSteps

-----------------------------------------------------------------------------
(* The steps of the runtime.                                               *)

LEMMA ConstructStep == ASSUME IInv, Construct PROVE IInv'
<1>1. params' \in SettingsType /\ Consistent(params') /\ params'.recording
  BY DEF IInv, TypeCorrect, Construct, IsValid
<1>2. alarms' = <<>> /\ DOMAIN alarms' = {} /\ ignored' = {} BY DEF Construct
<1>3. TypeCorrect'
  BY <1>1, <1>2 DEF IInv, TypeCorrect, Construct, Changed
<1>4. Reachable' BY DEF Reachable, Construct, HasLogins
<1>5. FoundIsStored' /\ SendsAreComplete' /\ WhitelistIsRespected' /\ NothingBefore'
  BY <1>2 DEF FoundIsStored, SendsAreComplete, WhitelistIsRespected, NothingBefore
<1>6. Consistent(settings)' BY DEF IInv, Consistent, Construct
<1>7. Consistent(params)' BY <1>1
<1> QED BY <1>1, <1>3, <1>4, <1>5, <1>6, <1>7 DEF IInv

LEMMA DestroyStep == ASSUME IInv, Destroy PROVE IInv'
<1> USE DEF Destroy
<1>1. TypeCorrect' BY DEF IInv, TypeCorrect
<1>2. Reachable' BY DEF Reachable
<1>3. FoundIsStored' BY DEF IInv, FoundIsStored
<1>4. SendsAreComplete' BY DEF IInv, SendsAreComplete
<1>5. WhitelistIsRespected' BY DEF IInv, WhitelistIsRespected
<1>6. NothingBefore' BY DEF IInv, NothingBefore
<1>7. Consistent(settings)' /\ Consistent(params)' BY DEF IInv, Consistent
<1> QED BY <1>1, <1>2, <1>3, <1>4, <1>5, <1>6, <1>7 DEF IInv

\* The whitelist of a runtime is that of its databases.
LEMMA WhitelistOfRuntime ==
  ASSUME IInv, running
  PROVE  params.whitelist = IF params.isDefault THEN {} ELSE StoredCodes(params.alarms)
BY DEF IInv, Consistent

LEMMA IgnoreStep ==
  ASSUME IInv, NEW code \in Codes, Ignore(code) PROVE IInv'
<1> USE DEF Ignore
<1>1. TypeCorrect' BY DEF IInv, TypeCorrect
<1>2. Reachable' BY DEF IInv, Reachable
<1>3. FoundIsStored' BY DEF IInv, FoundIsStored
<1>4. SendsAreComplete' BY DEF IInv, SendsAreComplete
<1>5. NothingBefore' BY DEF NothingBefore
<1>6. WhitelistIsRespected'
  <2>1. params.whitelist = IF params.isDefault THEN {} ELSE StoredCodes(params.alarms)
    BY WhitelistOfRuntime
  <2>2. params.whitelist # {} /\ code \notin params.whitelist BY DEF IsAllowed
  <2>3. ~params.isDefault /\ code \notin StoredCodes(params.alarms)
    BY <2>1, <2>2
  <2> QED BY <2>3 DEF IInv, WhitelistIsRespected
<1>7. Consistent(settings)' /\ Consistent(params)' BY DEF IInv, Consistent
<1>8. (running => params.recording)' BY DEF IInv
<1> QED BY <1>1, <1>2, <1>3, <1>4, <1>5, <1>6, <1>7, <1>8 DEF IInv

\* What is stored has gateways that the runtime knows: Send queues it all.
LEMMA SendsEverything ==
  ASSUME IInv, running, NEW found \in SUBSET StoredMessages(params.alarms),
         NEW state \in BOOLEAN
  PROVE  /\ Queued(found, state) = {InState(found, state)}
         /\ Result(found, state) # "error"
<1>1. \A x \in InState(found, state) : x \in found
  BY DEF InState, Sendable
<1>2. \A x \in found : x.type \in MessageTypes(params.alarms)
  BY DEF MessageTypes
<1>3. MessageTypes(params.alarms) \subseteq params.login.logins \cap managers
  BY DEF IInv, Consistent, Reachable
<1>4. \A x \in InState(found, state) : IsKnown(x)
  BY <1>1, <1>2, <1>3 DEF IsKnown
<1>5. Queued(found, state) = {InState(found, state)} BY <1>4 DEF Queued
<1>6. Result(found, state) # "error" BY <1>4 DEF Result, IsKnown
<1> QED BY <1>5, <1>6

LEMMA SelectedIsStored ==
  ASSUME NEW db \in Databases, NEW code \in Codes, NEW found \in Selections(db, code)
  PROVE  found \subseteq StoredMessages(db) /\ found \subseteq Messages
<1>1. \A o : Stored(db, o) \subseteq StoredMessages(db)
  BY DEF Stored, StoredMessages
<1>2. found \subseteq StoredMessages(db) BY <1>1 DEF Selections
<1>3. StoredMessages(db) \subseteq Messages BY GatewaysAssumption DEF StoredMessages
<1> QED BY <1>2, <1>3

LEMMA AnnounceStep ==
  ASSUME IInv, NEW code \in Codes, Announce(code) PROVE IInv'
<1>1. PICK found \in Selections(params.alarms, code) :
        \E now \in Queued(found, TRUE) :
          alarms' = Append(alarms,
            [code |-> code, found |-> found, result |-> Result(found, TRUE),
             queued |-> now, late |-> {}, recorded |-> FALSE])
  BY DEF Announce
<1>2. running /\ IsAllowed(code)
      /\ UNCHANGED <<client, settings, running, params, managers, ignored, changes>>
  BY DEF Announce
<1>3. params.alarms \in Databases BY DEF IInv, Consistent
<1>4. found \subseteq StoredMessages(params.alarms) /\ found \subseteq Messages
  BY <1>1, <1>3, SelectedIsStored
<1>5. Queued(found, TRUE) = {InState(found, TRUE)} /\ Result(found, TRUE) # "error"
  BY <1>2, <1>4, SendsEverything
<1> DEFINE alarm == [code |-> code, found |-> found, result |-> Result(found, TRUE),
                     queued |-> InState(found, TRUE), late |-> {}, recorded |-> FALSE]
<1>6. alarms' = Append(alarms, alarm) BY <1>1, <1>5
<1>7. alarm \in AlarmType
  <2>1. InState(found, TRUE) \subseteq Messages BY <1>4 DEF InState, Sendable
  <2>2. Result(found, TRUE) \in Results BY DEF Result, Results
  <2> QED BY <1>4, <2>1, <2>2 DEF AlarmType
<1>8. /\ alarm.found = found /\ alarm.queued = InState(found, TRUE)
      /\ ~alarm.recorded /\ alarm.result # "error" /\ alarm.code = code
  BY <1>5
<1> HIDE DEF alarm
<1>9. alarms \in Seq(AlarmType) BY DEF IInv, TypeCorrect
<1>10. /\ alarms' \in Seq(AlarmType)
       /\ \A i \in DOMAIN alarms' :
            (i \in DOMAIN alarms /\ alarms'[i] = alarms[i]) \/ alarms'[i] = alarm
  BY <1>6, <1>7, <1>9
<1>11. TypeCorrect' BY <1>2, <1>10 DEF IInv, TypeCorrect
<1>12. Reachable' BY <1>2 DEF IInv, Reachable
<1>13. FoundIsStored' BY <1>2, <1>4, <1>8, <1>10 DEF IInv, FoundIsStored
<1>14. SendsAreComplete' BY <1>8, <1>10 DEF IInv, SendsAreComplete
<1>15. WhitelistIsRespected'
  <2>1. params.whitelist = IF params.isDefault THEN {} ELSE StoredCodes(params.alarms)
    BY <1>2, WhitelistOfRuntime
  <2>2. ~params.isDefault /\ StoredCodes(params.alarms) # {} =>
          code \in StoredCodes(params.alarms)
    BY <1>2, <2>1 DEF IsAllowed
  <2> QED BY <1>2, <1>8, <1>10, <2>2 DEF IInv, WhitelistIsRespected
<1>16. NothingBefore' BY <1>2 DEF NothingBefore
<1>17. Consistent(settings)' /\ Consistent(params)' BY <1>2 DEF IInv, Consistent
<1>18. (running => params.recording)' BY <1>2 DEF IInv
<1> QED BY <1>11, <1>12, <1>13, <1>14, <1>15, <1>16, <1>17, <1>18 DEF IInv

LEMMA RecordStep ==
  ASSUME IInv, NEW k, Record(k) PROVE IInv'
<1>1. PICK later \in Queued(alarms[k].found, FALSE) :
        alarms' = [alarms EXCEPT ![k].late = later, ![k].recorded = TRUE]
  BY DEF Record
<1>2. running /\ k \in DOMAIN alarms
      /\ UNCHANGED <<client, settings, running, params, managers, ignored, changes>>
  BY DEF Record
<1>3. alarms[k].found \subseteq StoredMessages(params.alarms)
  BY <1>2 DEF IInv, FoundIsStored
<1>4. later = InState(alarms[k].found, FALSE)
  BY <1>1, <1>2, <1>3, SendsEverything
<1>5. alarms \in Seq(AlarmType) /\ alarms[k] \in AlarmType
  BY <1>2 DEF IInv, TypeCorrect
<1> DEFINE alarm == [alarms[k] EXCEPT !.late = later, !.recorded = TRUE]
<1>6. alarms' = [alarms EXCEPT ![k] = alarm] BY <1>1
<1>7. alarm \in AlarmType
  <2>1. later \subseteq Messages BY <1>4, <1>5 DEF InState, Sendable, AlarmType
  <2> QED BY <1>5, <2>1 DEF AlarmType
<1>8. /\ alarm.found = alarms[k].found /\ alarm.queued = alarms[k].queued
      /\ alarm.late = later /\ alarm.result = alarms[k].result
      /\ alarm.code = alarms[k].code
  BY <1>5 DEF AlarmType
<1> HIDE DEF alarm
<1>9. /\ alarms' \in Seq(AlarmType)
      /\ DOMAIN alarms' = DOMAIN alarms
      /\ alarms'[k] = alarm
      /\ \A i \in DOMAIN alarms : i # k => alarms'[i] = alarms[i]
  BY <1>2, <1>5, <1>6, <1>7
<1>10. TypeCorrect' BY <1>2, <1>9 DEF IInv, TypeCorrect
<1>11. Reachable' BY <1>2 DEF IInv, Reachable
<1>12. FoundIsStored' BY <1>2, <1>8, <1>9 DEF IInv, FoundIsStored
<1>13. SendsAreComplete'
  <2>1. SendsAreComplete BY DEF IInv
  <2> SUFFICES ASSUME NEW i \in DOMAIN alarms
               PROVE  /\ alarms'[i].queued = InState(alarms'[i].found, TRUE)
                      /\ alarms'[i].recorded => alarms'[i].late = InState(alarms'[i].found, FALSE)
                      /\ alarms'[i].result # "error"
    BY <1>9 DEF SendsAreComplete
  <2>2. CASE i = k
    <3>1. alarms'[i] = alarm BY <1>9, <2>2
    <3> QED BY <1>4, <1>8, <2>1, <2>2, <3>1 DEF SendsAreComplete
  <2>3. CASE i # k
    <3>1. alarms'[i] = alarms[i] BY <1>9, <2>3
    <3> QED BY <2>1, <3>1 DEF SendsAreComplete
  <2> QED BY <2>2, <2>3
<1>14. WhitelistIsRespected' BY <1>2, <1>8, <1>9 DEF IInv, WhitelistIsRespected
<1>15. NothingBefore' BY <1>2 DEF NothingBefore
<1>16. Consistent(settings)' /\ Consistent(params)' BY <1>2 DEF IInv, Consistent
<1>17. (running => params.recording)' BY <1>2 DEF IInv
<1> QED BY <1>10, <1>11, <1>12, <1>13, <1>14, <1>15, <1>16, <1>17 DEF IInv

-----------------------------------------------------------------------------
(* The theorems.                                                           *)

\* The inductive invariant: settings, and the runtime's copy of them, have a
\* gateway for every message and the whitelist of their own databases.
THEOREM Invariant == Spec => []IInv
<1>1. Init => IInv BY InitialState
<1>2. IInv /\ [Next]_vars => IInv'
  <2> SUFFICES ASSUME IInv, [Next]_vars PROVE IInv' OBVIOUS
  <2>1. CASE UNCHANGED vars
    <3>1. UNCHANGED <<client, settings, runtimeVars, changes>>
      BY <2>1 DEF vars, runtimeVars
    <3>2. TypeCorrect' BY <3>1 DEF IInv, TypeCorrect, runtimeVars
    <3>3. Consistent(settings') BY <3>1 DEF IInv, Consistent
    <3> QED BY <3>1, <3>2, <3>3, RuntimeUntouched
  <2>2. CASE ClientNext
    BY <2>2, LoginSteps, FunctionalityStep, RecordingStep, GatewaysStep, XMLStep,
       ConstructStep, DestroyStep DEF ClientNext
  <2>3. CASE RuntimeNext
    BY <2>3, IgnoreStep, AnnounceStep, RecordStep DEF RuntimeNext
  <2> QED BY <2>1, <2>2, <2>3 DEF Next
<1> QED BY <1>1, <1>2, PTL DEF Spec

\* No alarm is sent half-way: every message found for it is queued (Send).
THEOREM Sends == Spec => []SendsAreComplete
<1>1. IInv => SendsAreComplete BY DEF IInv
<1> QED BY <1>1, Invariant, PTL

\* A runtime's whitelist is that of its own databases (UpdateWhitelist).
THEOREM Whitelists == Spec => []WhitelistIsRespected
<1>1. IInv => WhitelistIsRespected BY DEF IInv
<1> QED BY <1>1, Invariant, PTL
=============================================================================
