---------------------------- MODULE MCTimerQueue ----------------------------
(* Instances of TimerQueue for model checking. *)
EXTENDS TimerQueue
=============================================================================
