--------------------------- MODULE MCForgeTriggers ---------------------------
(***************************************************************************)
(* Instances of ForgeTriggers for TLC.                                      *)
(***************************************************************************)
EXTENDS ForgeTriggers

\* Both timers name the same service; the second device names a unit that does not exist.
MCTimerUnit == <<"modem", "modem">>
MCDeviceService == <<"modem", "missing">>
=============================================================================
