----------------------------- MODULE WatchdogMC -----------------------------
(* Watchdog for TLC: two scanners, told apart by the properties only. *)
EXTENDS Watchdog
=============================================================================
