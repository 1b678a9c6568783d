---------------------------- MODULE AlarmLifecycle ----------------------------
(***************************************************************************)
(* What a detector promises of a detected sequence: it is decided once     *)
(* whether it raises an alarm or is silenced, and only the audio of an     *)
(* alarm is stored and sent, after the alarm itself.  When the deciding    *)
(* thread has failed, what it left undecided may still be stored           *)
(* (src/Middleware/ExecutionRuntime.cpp, ExecutionDetectorRuntime.cpp).    *)
(***************************************************************************)
VARIABLES
  known,     \* sequences detected
  alarms,    \* of these, the ones that raised an alarm
  silenced,  \* of these, the ones that must not
  stored,    \* of these, the ones whose audio was stored and sent
  broken     \* nothing is decided any more

lifecycleVars == <<known, alarms, silenced, stored, broken>>

Begin ==
  known = {} /\ alarms = {} /\ silenced = {} /\ stored = {} /\ broken = FALSE

Undecided(s) == s \in known \ (alarms \cup silenced)

Learn ==
  /\ known \subseteq known'
  /\ UNCHANGED <<alarms, silenced, stored, broken>>

Alarm(s) ==
  /\ ~broken
  /\ Undecided(s)
  /\ alarms' = alarms \cup {s}
  /\ UNCHANGED <<known, silenced, stored, broken>>

Silence(s) ==
  /\ ~broken
  /\ Undecided(s)
  /\ s \notin stored
  /\ silenced' = silenced \cup {s}
  /\ UNCHANGED <<known, alarms, stored, broken>>

Keep(s) ==
  /\ s \in alarms \/ (broken /\ Undecided(s))
  /\ s \notin stored
  /\ stored' = stored \cup {s}
  /\ UNCHANGED <<known, alarms, silenced, broken>>

Break ==
  /\ ~broken
  /\ broken' = TRUE
  /\ UNCHANGED <<known, alarms, silenced, stored>>

LifecycleNext ==
  \/ Learn
  \/ \E s \in known : Alarm(s) \/ Silence(s) \/ Keep(s)
  \/ Break

Spec == Begin /\ [][LifecycleNext]_lifecycleVars
=============================================================================
