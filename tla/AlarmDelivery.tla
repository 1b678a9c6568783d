----------------------------- MODULE AlarmDelivery -----------------------------
(***************************************************************************)
(* What a connection manager promises its caller: each accepted message is *)
(* tried until it succeeds, fails for good or has used up its trials, the  *)
(* caller hears of every trial, and nothing follows the final report       *)
(* (src/Networking/ConnectionManager.cpp).                                 *)
(***************************************************************************)
EXTENDS Naturals

CONSTANTS Messages, MaxTrials

VARIABLES
  phase,   \* where each message is
  trials,  \* how many trials of each message were reported
  closed   \* the manager is being destroyed

deliveryVars == <<phase, trials, closed>>

DeliveryInit ==
  /\ phase = [m \in Messages |-> "new"]
  /\ trials = [m \in Messages |-> 0]
  /\ closed = FALSE

Accept(m) ==
  /\ ~closed
  /\ phase[m] = "new"
  /\ phase' = [phase EXCEPT ![m] = "pending"]
  /\ UNCHANGED <<trials, closed>>

\* A trial of m is reported, which leaves m in the phase "to".
Report(m, to) ==
  /\ phase[m] = "pending"
  /\ phase' = [phase EXCEPT ![m] = to]
  /\ trials' = [trials EXCEPT ![m] = @ + 1]
  /\ UNCHANGED closed

Retry(m) == trials[m] + 1 < MaxTrials /\ Report(m, "pending")
GiveUp(m) == trials[m] + 1 >= MaxTrials /\ Report(m, "TIMEOUT_FAILURE")
End(m) == \E to \in {"SUCCESS", "FATAL_FAILURE"} : Report(m, to)

Close ==
  /\ ~closed
  /\ closed' = TRUE
  /\ UNCHANGED <<phase, trials>>

Trial(m) == Retry(m) \/ GiveUp(m) \/ End(m)

DeliveryNext == Close \/ \E m \in Messages : Accept(m) \/ Trial(m)

Spec == DeliveryInit /\ [][DeliveryNext]_deliveryVars
=============================================================================
