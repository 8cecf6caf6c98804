-------------------------- MODULE MCTimerLifecycle --------------------------
(* Instances of TimerLifecycle for TLC. *)
EXTENDS TimerLifecycle, TLC
=============================================================================
