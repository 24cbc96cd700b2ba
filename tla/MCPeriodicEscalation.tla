------------------------ MODULE MCPeriodicEscalation ------------------------
(***************************************************************************)
(* Escalation under the default policy and the documented period: one tick *)
(* is five minutes, the timeout six ticks, and check_timeouts() is called  *)
(* at most once a tick.                                                    *)
(***************************************************************************)
EXTENDS MCEscalation

VARIABLE sweep_due  \* check_timeouts() has not been called since the last tick

PeriodicInit == EscalationInit /\ sweep_due = FALSE

PeriodicNext ==
  \/ ExecutorStep /\ UNCHANGED sweep_due
  \/ Tick /\ sweep_due' = TRUE
  \/ CheckTimeouts /\ sweep_due /\ sweep_due' = FALSE

PeriodicSpec == PeriodicInit /\ [][PeriodicNext]_<<evars, sweep_due>>
=============================================================================
