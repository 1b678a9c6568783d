---------------------------- MODULE MCAlarmGateways ----------------------------
(***************************************************************************)
(* AlarmGateways for TLC.                                                  *)
(***************************************************************************)
EXTENDS AlarmGateways

CONSTANTS email, program, a, b

Message(type, state, empty) == [type |-> type, state |-> state, empty |-> empty]

mail == Message(email, TRUE, FALSE)
voiceMail == Message(email, FALSE, FALSE)
call == Message(program, TRUE, FALSE)
none == Message(program, TRUE, TRUE)

MCMessages == {mail, voiceMail, call, none}

OneCode == [o \in {a} |-> {mail, voiceMail}]
TwoCodes ==
  [o \in {a, b, "all"} |->
     CASE o = a -> {call, none} [] o = b -> {mail} [] o = "all" -> {voiceMail}]
FallbackOnly == [o \in {"fallback"} |-> {call, voiceMail}]

MCDatabases == {NoAlarms, OneCode, TwoCodes, FallbackOnly}
=============================================================================
