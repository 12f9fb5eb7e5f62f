---------------------------- MODULE MCCrashMonitor ----------------------------
(* CrashMonitor for TLC: one tool, whose loops share its counters.         *)
EXTENDS CrashMonitor
=============================================================================
